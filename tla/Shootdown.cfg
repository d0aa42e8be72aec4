SPECIFICATION ShootSpec
CONSTANTS
    CapTables = {"c"}
    DataPages = {"p"}
    TableBits = 1
    Width = 1
    Halves = {0, 1}
    GuardSubpageBits = 1
    MaxCopies = 3
    Unmapped = Unmapped
INVARIANTS
    TranslationsFresh
CHECK_DEADLOCK FALSE
