\* Locks and semaphores together, and round robin under fairness (no symmetry).
\* Deadlock: as in Scheduler.cfg.
SPECIFICATION FairSpec
CONSTANTS
    MAX_THREADS = 3
    PRIORITIES = 2
    PriorityArgs = {0, 7}
    Locks = {l1}
    Semaphores = {s1}
    Null = Null
    PidModulus = 7
    SemModulus = 2
INVARIANTS
    RunningIsBest
    WaitersRetry
PROPERTIES
    NoOvertaking
    RoundRobin
CHECK_DEADLOCK FALSE
