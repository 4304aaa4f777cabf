CONSTANTS
    Tasks = {f, a, b}
    First = f
    Idle = idle
    TimeSlice = 1
    TickMs = 2
    Word = 8
    MsArgs = {1}
    TableMutex = table
    Mutexes = {table}
    Nests = {}
    NoTask = none
    MaxDepth = 1
    RacyFork = FALSE
    EmptyName = FALSE
SPECIFICATION LifeSpec
INVARIANTS
    ParentCanReap
    FreeSlotIsUnused
PROPERTIES
    ExitCompletes
