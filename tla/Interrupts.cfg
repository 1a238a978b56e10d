\* The system stops when the last thread has returned and no source is left.
SPECIFICATION Spec
CONSTANTS
    Timers = {1}
    Pins = {1, 2}
    Infos <- MCInfos
    Clients <- MCClients
    None = None
    MAX_THREADS = 3
    PRIORITIES = 2
    MaxStrikes = 1
    MaxAftermath = 1
INVARIANTS
    NeverListedTwice
    PoolAccounted
    ContextIntact
    RunsTheBest
PROPERTIES
    StartedAsSubscribed
    OneShotOnce
    Acknowledged
CHECK_DEADLOCK FALSE
