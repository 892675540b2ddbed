\* Crash atomicity: operations of two blocks, two at a time, in a log of three.
CONSTANTS
    Proc = {p1, p2}
    Block = {b1, b2, b3}
    Val = {v1, v2}
    NotCached = NotCached
    MAXOPBLOCKS = 2
    LOGSIZE = 4
    NLOG = 4
    OPBLOCKS = 2
SPECIFICATION Spec
SYMMETRY Interchangeable
INVARIANTS
    QuietIsDurable
    PinsMatchHeader
PROPERTY AtomicOperations
