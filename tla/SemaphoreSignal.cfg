\* Every supervisor call together, V and IV on one semaphore with up to
\* three waiters.  Deadlock: as in Scheduler.cfg, and the loop of svc_000008.
SPECIFICATION IncreaseSpec
CONSTANTS
    MAX_THREADS = 4
    PRIORITIES = 2
    PriorityArgs = {0, 1}
    Locks = {}
    Semaphores = {s1}
    Null = Null
    PidModulus = 7
    SemModulus = 3
    Increments = {2}
    WakeCounts = {1, 2, 128}
PROPERTIES
    BestSignalledFirst
CHECK_DEADLOCK FALSE
