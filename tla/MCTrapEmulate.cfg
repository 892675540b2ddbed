\* Two guests, one after the other, two pieces of memory and two PMP entries.
CONSTANTS
    g1 = g1
    g2 = g2
    Procs = {g1, g2}
    RAM = 2
    Addrs = {0, 4}
    AtOnce = 1
    Killable = FALSE
    Careful = TRUE
    PmpAddrs = {0, 1, 3, 6, 7, 9}
    UnknownReads = FALSE
    EarlyFaults = FALSE
    LowMemory = FALSE
SPECIFICATION Spec
SYMMETRY Interchangeable
CHECK_DEADLOCK FALSE
INVARIANTS
    HostSurvives
    MemoryView
PROPERTIES
    PrivilegeKept
