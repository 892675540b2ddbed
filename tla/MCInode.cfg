\* Two processes, three inodes, the root directory among them, and one block.
CONSTANTS
    p1 = p1
    p2 = p2
    Proc = {p1, p2}
    Nobody = Nobody
    Names = {"a", "b"}
    Calls <- FewCalls
    NINODES = 3
    NINODE = 3
    Blocks = {1}
    MaxFds = 1
    DiskFull = TRUE
    MayFill = FALSE
    RmdirBusy = FALSE
SPECIFICATION Spec
SYMMETRY Interchangeable
INVARIANTS
    TableAgrees
    NothingLost
    NoStandstill
