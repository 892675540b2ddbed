\* Log space and progress: three callers, room for two operations at a time.
CONSTANTS
    Proc = {p1, p2, p3}
    Block = {b1, b2, b3}
    Val = {v1}
    NotCached = NotCached
    MAXOPBLOCKS = 2
    LOGSIZE = 4
    NLOG = 4
    OPBLOCKS = 1
SPECIFICATION FairSpec
INVARIANTS
    CommitExcludesOps
    NoPanic
    SleeperHasWaker
PROPERTIES
    SleeperWakes
