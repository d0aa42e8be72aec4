CONSTANTS
    Threads = {t1, t2, t3}
    None = None
    MutexTypes = {"normal", "errorcheck", "recursive"}
    MaxLocks = 2
    SemValues = {0, 1, 2}
    BarrierCounts = {1, 2, 3}
    MaxCalls = 3
SPECIFICATION Spec
INVARIANTS
    Exclusion
    Assertions
    NobodyForgotten
    LivesWell
PROPERTIES
    GoesOn
CHECK_DEADLOCK FALSE
