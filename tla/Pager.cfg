\* One frame under four policies, three levels, activities that are asked to
\* free memory, and replies that may be overtaken; and two children that
\* change their priorities, weights and frames.
CONSTANTS
    root = root
    middle = middle
    leaf = leaf
    None = None
    f1 = f1
    Frames = {f1}
    Activities = {root, middle, leaf}
    Parent <- Three
    Mortal = {}
    Policies <- MixedPolicies
    Goals = {2, 4}
    FreeAllocations = 2
    BadKarma = 1
    Self = Self
    c1 = c1
    c2 = c2
    Children = {c1, c2}
    PriorityValues = {0, 1, 2}
    Weights = {1, 3}
    MaxFrames = 2
    Active = {0, 4}
    CollectGoals = {1, 2}
    Agreeing = TRUE
    CapTypes = {"activity", "activity_control"}
SYMMETRY Symmetry
SPECIFICATION MCSpec
INVARIANTS GraceAccounting NothingLost ListOrder VictimRight
