SPECIFICATION IncreaseSpec
CONSTANTS
    MAX_THREADS = 3
    PRIORITIES = 2
    PriorityArgs = {0, 7}
    Locks = {}
    Semaphores = {s1}
    Null = Null
    PidModulus = 7
    SemModulus = 4
    Increments = {2}
    WakeCounts = {1, 128}
PROPERTIES
    IncreasesByN
CHECK_DEADLOCK FALSE
