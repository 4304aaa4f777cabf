CONSTANTS
    Procs = {p, q}
    Readers = {p}
    NoProc = none
    Junk = junk
    IbufSize = 2
    ObufSize = 3
    ReadSize = 2
    Messages <- ShortMessages
    Overrun = FALSE
SPECIFICATION Spec
INVARIANTS
    TokensMatchQueues
    NothingStranded
PROPERTIES
    QueuesInOrder
    WritesReturn
