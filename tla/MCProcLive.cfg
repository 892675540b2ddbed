\* Orphans are collected and the killed exit: one CPU, a child and a grandchild.
CONSTANTS
    NPROC = 3
    CPU = {c1}
    NoCpu = NoCpu
    MaxPid = 3
    KillPids = {2}
SPECIFICATION FairSpec
PROPERTIES
    ZombieReaped
    KilledExits
