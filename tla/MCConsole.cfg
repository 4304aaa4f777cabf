CONSTANTS
    p = p
    q = q
    Procs = {p, q}
    NoProc = none
    ConsoleNr = 2
    Rows = 2
    Cols = 3
    TabStop = 2
    EscParamMax = 2
    Writes <- TextAndCommands
    MaxWrites = 3
    Mishaps = {}
SPECIFICATION Spec
INVARIANTS
    LineOnScreen
    SequencesStayWhole
    CursorFollows
PROPERTIES
    ShowsPages
