\* The user mutex in a debug build: four threads, with the EDEADLK timeout,
\* on which progress does not rely.  The server loop and the ager, with up
\* to three batches in a round.
CONSTANTS
    t1 = t1
    t2 = t2
    t3 = t3
    t4 = t4
    Threads = {t1, t2, t3, t4}
    None = None
    NDEBUG = FALSE
    Server = Server
    Ager = Ager
    Nil = Nil
    Tasks = {Server, Ager}
    Frames = 3
    Freq = 3
    Debug = TRUE
SPECIFICATION LocksSpec
INVARIANTS NoLostWakeup WaiterKnown
PROPERTIES ImplementsLock Progress ImplementsKernelLock NobodyStuck
