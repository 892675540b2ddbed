\* One process at a time, program after program: two of its
\* four pages are on disk.
CONSTANTS
    p1 = p1
    Proc = {p1}
    MAXHEAP = 4
    MAXRESHEAP = 2
    SCAN = 8
    BPP = 2
    Vals = {0, 1}
    SbrkSizes = {4}
    MaxSbrk = 1
    InOrder = TRUE
    ExitAlone = TRUE
    Ticking = TRUE
    OneCpu = TRUE
SPECIFICATION FairSpec
INVARIANTS
    HeapIntact
    BlocksAccounted
PROPERTIES
    EvictsOldest
    StoreCompletes
