\* Two threads use futexes, wait for each other and for an activity, destroy
\* each other and abort each other's calls; pages are discarded.
CONSTANTS
    t1 = t1
    t2 = t2
    p1 = p1
    a1 = a1
    None = None
    x1 = x1
    Threads = {t1, t2}
    Pages = {p1}
    Activities = {a1}
    Oids <- MCOids
    Offsets = {x1}
    Counts <- SomeCounts
    Calls = {"wake", "destroyed", "info", "alloc", "abort_ipc", "discard"}
    NDEBUG = FALSE
SYMMETRY Symmetry
SPECIFICATION KernelSpec
INVARIANTS WaitersReachable ListsOK
CHECK_DEADLOCK FALSE
