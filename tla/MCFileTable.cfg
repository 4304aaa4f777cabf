CONSTANTS
    Procs = {p, q}
    First = p
    MaxFd = 1
    Files = {f1, f2}
    NoFile = NoFile
    DevIds = {d1, d2}
    NoDev = NoDev
    Minors = {tty0, tty1}
    Paths = {tty0, tty1}
    RacyClose = FALSE
SPECIFICATION Spec
INVARIANTS
    RefsMatchFds
    DevicesMatchFiles
PROPERTIES
    ExitReleases
    KeepsPromise
