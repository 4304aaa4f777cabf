CONSTANTS
    Procs = {f, a, b}
    First = f
    NoProc = none
    LastPage = 14
    LastDesc = 3
    LastV = 4
    UserBase = 2
    StackV = 4
    PerTable = 2
    PageUnits = 2
    Images = {1}
    Increments = {1, 2}
    Mishaps = {}
SPECIFICATION Spec
CHECK_DEADLOCK FALSE
INVARIANTS
    PagesApart
    NothingElseLost
    AssertUnmapped
PROPERTIES
    SpaceKept
SYMMETRY SlotSymmetry
