\* Two processes, one page for pipes, files for one pipe and a half.
CONSTANTS
    p1 = p1
    p2 = p2
    Proc = {p1, p2}
    b1 = b1
    b2 = b2
    Bytes = {b1, b2}
    Empty = Empty
    NOFILE = 2
    NFILE = 3
    NPIPE = 1
    PIPESIZE = 2
    WRAP = 4
    Sizes = {3}
SPECIFICATION Spec
SYMMETRY Interchangeable
CHECK_DEADLOCK FALSE
INVARIANTS
    NothingDangles
    SleeperHasReason
PROPERTIES
    PipeIsQueue
