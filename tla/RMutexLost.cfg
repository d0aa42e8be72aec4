\* Three threads: the second of two waiters is forgotten.
CONSTANTS
    t1 = t1
    t2 = t2
    t3 = t3
    Threads = {t1, t2, t3}
    None = None
    NDEBUG = TRUE
    MaxDepth = 1
    UseTryLock = FALSE
SPECIFICATION Spec
INVARIANTS NegativeMeansWaiters
