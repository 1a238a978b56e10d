\* As PriorityInheritance.cfg, but with nested critical sections.
SPECIFICATION DisciplinedSpec
CONSTANTS
    MAX_THREADS = 3
    PRIORITIES = 3
    PriorityArgs = {0, 1, 2}
    Locks = {l1, l2}
    Semaphores = {}
    Null = Null
    PidModulus = 8
    SemModulus = 2
    Nesting = TRUE
SYMMETRY Symmetry
INVARIANTS
    OwnerInherits
CHECK_DEADLOCK FALSE
