SPECIFICATION Spec
CONSTANTS
    MAX_THREADS = 3
    PRIORITIES = 1
    PriorityArgs = {0}
    Locks = {}
    Semaphores = {s1}
    Null = Null
    PidModulus = 8
    SemModulus = 3
INVARIANTS
    NoLostSemaphoreWakeup
CHECK_DEADLOCK FALSE
