CONSTANTS
    Procs = {p, q}
    Boot = boot
    Nobody = nobody
    Junk = junk
    DiskSize = 3
    Mbr <- OnePartition
    Minors <- SomeMinors
    MaxCount = 2
    Faults = TRUE
SPECIFICATION Spec
INVARIANTS
    LeftoverStays
PROPERTIES
    StoresBlocks
    CallsReturn
CHECK_DEADLOCK FALSE
