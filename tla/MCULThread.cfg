\* All three algorithms, main schedules two batches of threads.
CONSTANTS
    MAXULTHREADS = 3
    Algos = {"FCFS", "ROUNDROBIN", "PRIORITY"}
    Priorities = {0, 1}
    Rounds = 2
    ThreadsCreate = FALSE
SPECIFICATION FairSpec
INVARIANTS
    NeverRunsDestroyed
PROPERTIES
    FollowsAlgorithm
    FirstComeFirstServed
    EveryoneRuns
CHECK_DEADLOCK FALSE
