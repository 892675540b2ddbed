\* A shell and three slots for programs that fork(1) in pairs.
CONSTANTS
    f1 = f1
    f2 = f2
    f3 = f3
    f4 = f4
    f5 = f5
    Frames = {f1, f2, f3, f4, f5}
    NPROC = 4
    Pages = {1}
    Vals = {0, 1}
    Image <- Zeroes
    Junk = 5
    MaxPid = 5
    MaxMembers = 2
    Orphans = FALSE
    SharedExec = FALSE
    StaleGroups = FALSE
    SharerForks = FALSE
    KernelWrites = FALSE
SPECIFICATION Spec
SYMMETRY Interchangeable
CHECK_DEADLOCK FALSE
INVARIANTS
    NotFreedInUse
    KernelRunsOn
PROPERTIES
    MemoryIsPrivate
