CONSTANTS
    Tasks = {f, a, b}
    First = f
    Idle = idle
    TimeSlice = 1
    TickMs = 2
    Word = 8
    MsArgs = {1}
    osem = osem
    isem = isem
    Sems = {osem, isem}
    InitCount <- TtySems
    MaxCount = 2
SPECIFICATION Spec
INVARIANTS
    TokensConserved
PROPERTIES
    ServedInOrder
    NotifiedWaiterRuns
