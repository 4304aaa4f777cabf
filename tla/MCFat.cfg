CONSTANTS
    LastCluster = 4
    LastEntry = 1
    Cb = 2
    Word = 10
    Names = {x, y}
    NameEnd = End
    NameFree = Deleted
    Files = {f, g}
    NoFile = none
    Modes <- FopenModes
    Reads = {1}
    Writes = {3}
    Offsets = {0}
    HostSizes = {1, 2}
    Unwritten = junk
    Careless = {}
SPECIFICATION FatSpec
INVARIANTS
    ChainsSound
    ContentsIntact
    PosFollowsChain
SYMMETRY Interchangeable
