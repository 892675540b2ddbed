\* Two processes that swap through the same blocks.
CONSTANTS
    p1 = p1
    p2 = p2
    Proc = {p1, p2}
    MAXHEAP = 2
    MAXRESHEAP = 1
    SCAN = 4
    BPP = 1
    Vals = {0, 1}
    SbrkSizes = {2}
    MaxSbrk = 1
    InOrder = TRUE
    ExitAlone = TRUE
    Ticking = FALSE
    OneCpu = TRUE
SPECIFICATION Spec
SYMMETRY Interchangeable
INVARIANTS
    HeapIntact
    BlocksAccounted
