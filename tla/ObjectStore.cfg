\* A chain of activities with quotas in three folios, and weakened and stale
\* capabilities.
CONSTANTS
    Folios = {0, 1, 2}
    Indices = {0}
    BootFolio = 0
    s1 = s1
    s2 = s2
    Slots = {s1, s2}
    Types = {"void", "page", "activity_control"}
    Weakening = {FALSE, TRUE}
    Quotas = {1}
    VersionLimit = 4
    MaxVersion = 1
    None = None
SYMMETRY Symmetry
SPECIFICATION Spec
INVARIANTS VoidUnreferenced TypesCompatible TreeOK
PROPERTIES RevokedForGood QuotaKept
