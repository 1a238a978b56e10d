\* Two threads of one priority.
SPECIFICATION MutexSpec
CONSTANTS
    MAX_THREADS = 3
    PRIORITIES = 1
    PriorityArgs = {0}
    Locks = {l1, l2}
    Semaphores = {}
    Null = Null
    PidModulus = 9
    SemModulus = 2
    Nesting = TRUE
    MaxLockers = 2
    SharedLevels = TRUE
INVARIANTS
    NoDeadlock
CHECK_DEADLOCK FALSE
