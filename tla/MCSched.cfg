CONSTANTS
    Tasks = {f, a, b}
    First = f
    Idle = idle
    TimeSlice = 2
    TickMs = 2
    Word = 8
    MsArgs = {1, 3}
    Nodes = {n1, n2, n3}
    Null = null
SPECIFICATION SchedSpec
INVARIANTS
    SleepersAreCounted
    NoTaskLost
PROPERTIES
    NoOvertaking
    EveryTaskRuns
