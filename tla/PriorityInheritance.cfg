\* One critical section at a time per thread.  Deadlock: as in Scheduler.cfg.
SPECIFICATION DisciplinedSpec
CONSTANTS
    MAX_THREADS = 3
    PRIORITIES = 3
    PriorityArgs = {0, 1, 2}
    Locks = {l1, l2}
    Semaphores = {s1}
    Null = Null
    PidModulus = 8
    SemModulus = 2
    Nesting = FALSE
SYMMETRY Symmetry
INVARIANTS
    OwnerInherits
    PromotionEnds
CHECK_DEADLOCK FALSE
