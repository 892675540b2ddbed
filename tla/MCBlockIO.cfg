\* Two buffers for three blocks, two requests at a time, answered in any order.
CONSTANTS
    p1 = p1
    p2 = p2
    k1 = k1
    k2 = k2
    k3 = k3
    Nobody = Nobody
    Proc = {p1, p2}
    Blocks = {k1, k2, k3}
    Vals = {0, 1}
    NBUF = 2
    NUM = 6
    WRAP = 6
    MaxPins = 1
    MayRunOut = FALSE
SPECIFICATION Spec
SYMMETRY Interchangeable
INVARIANTS
    CacheCoherent
    SleeperHasReason
PROPERTIES
    StoresBlocks
