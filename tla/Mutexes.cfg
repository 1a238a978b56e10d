\* Threads of different priorities; mutexes deleted and created again at any
\* time.  Deadlock: as in Scheduler.cfg.
SPECIFICATION MutexSpec
CONSTANTS
    MAX_THREADS = 3
    PRIORITIES = 3
    PriorityArgs = {0, 1, 2}
    Locks = {l1, l2}
    Semaphores = {}
    Null = Null
    PidModulus = 8
    SemModulus = 2
    Nesting = TRUE
    MaxLockers = 2
    SharedLevels = FALSE
INVARIANTS
    NoDeadlock
PROPERTIES
    KeepsWhatItHeld
    StrandedByRecycling
    BlocksNoBetterWaiter
    ImplementsService
CHECK_DEADLOCK FALSE
