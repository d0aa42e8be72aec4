\* Two threads nest the recursive mutex and use trylock.  A failed trylock
\* keeps the meta-lock, so the system may stop.
CONSTANTS
    t1 = t1
    t2 = t2
    Threads = {t1, t2}
    None = None
    NDEBUG = FALSE
    MaxDepth = 2
    UseTryLock = TRUE
SPECIFICATION FairSpec
INVARIANTS RecursionBalanced
PROPERTIES SleeperWoken
CHECK_DEADLOCK FALSE
