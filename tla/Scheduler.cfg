\* Locks and promotions over three priority levels.  The threads never stop
\* for want of a step except in usrloopthread, which waits for an interrupt
\* that this module does not have: deadlock is not an error here.
SPECIFICATION Spec
CONSTANTS
    MAX_THREADS = 3
    PRIORITIES = 3
    PriorityArgs = {0, 1, 259}
    Locks = {l1, l2}
    Semaphores = {}
    Null = Null
    PidModulus = 7
    SemModulus = 2
SYMMETRY Symmetry
INVARIANTS
    TypeOK
    ThreadsConserved
    QueueMatchesPriority
    ListedPids
    NoLostLockWakeup
    PromotionRemembered
PROPERTIES
    BestWaiterFirst
    BaseIsKept
CHECK_DEADLOCK FALSE
