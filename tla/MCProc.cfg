\* Three slots on two CPUs; processes 2 and 3 can be killed.
CONSTANTS
    NPROC = 3
    CPU = {c1, c2}
    NoCpu = NoCpu
    MaxPid = 4
    KillPids = {2, 3}
SPECIFICATION Spec
SYMMETRY Interchangeable
INVARIANTS
    StackExclusive
    SchedChecks
    NoMissedZombie
    HasLivingParent
    KilledWasAsked
    NoLockCircle
