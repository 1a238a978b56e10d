\* Four entries between three queues.  A loose entry can always be pushed and
\* a queue popped: no deadlock.
SPECIFICATION Spec
CONSTANTS
    MAX_ENTRIES = 4
    Queues = {"free", "ready", "wait"}
    FreeQueue = "free"
INVARIANTS
    Linked
    EntriesConserved
    FindsWhatIsThere
