CONSTANTS
    Tasks = {f, a, b}
    First = f
    Idle = idle
    TimeSlice = 1
    TickMs = 2
    Word = 8
    MsArgs = {1}
    table = table
    alloc = alloc
    Mutexes = {table, alloc}
    Nests <- NestedPair
    NoTask = none
    MaxDepth = 2
SPECIFICATION Spec
INVARIANTS
    MutualExclusion
    RecordMatchesCallers
    AtOnePlace
PROPERTIES
    NoBarging
    EveryWaiterEnters
