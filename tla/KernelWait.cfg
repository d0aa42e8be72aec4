\* Four threads use two futexes in one page; pages and threads are destroyed.
CONSTANTS
    t1 = t1
    t2 = t2
    t3 = t3
    t4 = t4
    p1 = p1
    None = None
    x1 = x1
    x2 = x2
    Threads = {t1, t2, t3, t4}
    Pages = {p1}
    Activities = {}
    Oids <- MCOids
    Offsets = {x1, x2}
    Counts <- SomeCounts
    Calls = {"wake", "wake_op", "requeue", "alloc"}
    NDEBUG = TRUE
SYMMETRY Symmetry
SPECIFICATION KernelSpec
INVARIANTS BlockedIffQueued FutexExact
CHECK_DEADLOCK FALSE
