SPECIFICATION Spec
CONSTANTS
    Nodes = {1, 2, 3, 4, 5, 6}
    Nil = Nil
    Keys = {0, 3, 7, 14}
    Values = {a, b, c}
    Empty = Empty
    Deleted = Deleted
    LastPage = 9
    Zones = 5
    SlabPages = {p1, p2, p3}
    PerSlab = 2
    NoSlab = NoSlab
    LastByte = 11
    PageSize = 3
    Types = {init, self}
    ArrayBytes = 2
    ByteBits = 4
    MaxKeys = 5
    ManyInvalid = 1
    FirstSize = 2
    TopAddress = 9
    DataTop = 6
    SpaceWidths = {0, 1}
    SpaceCounts = {1, 2, 3}
    SmallWidth = 0
    PageWidth = 1
    SlotsWidth = 1
    AddrBits = 5
    PageBits = 1
    FolioBits = 1
    CappageBits = 2
    GuardMax = 3
    MaxInserts = 3
    Depths = {3, 4}
    CapThreads = {t1, t2}
    CapPages = {c1, c2}
    Slots = 2
    NoOne = NoOne
    StorageThreads = {t1, t2}
    FolioObjects = 3
    LowWater = 0
    Serialize = 1
    MaxFolios = 3
    MaxCalls = 5
    CountModulus = 32
    NoThread = NoThread
    SigThreads = {t1, t2}
    Sigs = {1, 2, 3}
    StopSigs = {1}
    ContSig = 2
    IgnoredSigs = {3}
    NoDefer = {3}
    ResetHand = {}
    SaMask = {}
    MaxSigCalls = 4
    MaxFrames = 2
    Nobody = Nobody
    MaxContexts = 4
    MapThreads = {t1, t2}
    Touchers = {t2}
    LastAddress = 2
    Pagers = {1, 2}
    Accesses = {{}, {"r"}, {"r", "w"}}
    Hints = {2}
    MaxMapCalls = 3
    NoPage = NoPage
    NoHolder = NoHolder
    CapTables = {"c"}
    DataPages = {"p", "q"}
    TableBits = 1
    Width = 1
    Halves = {0, 1}
    GuardSubpageBits = 1
    MaxCopies = 4
    Unmapped = Unmapped
    ThreadObjs = {o1, o2, o3}
    Handles = {0, 1}
    NoL4 = NoL4
INVARIANTS
    TreeAgrees HashAgrees ZonesAgree SlabsAgree ReservationsHold NumbersAgree
    TranslationKept CapsAgree StorageAgrees SignalsHonoured ResumesExactly
    MemoryAgrees PlainTranslationsFresh
CHECK_DEADLOCK FALSE
