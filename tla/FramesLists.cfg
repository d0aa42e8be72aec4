\* Two frames and an activity that may be destroyed.
CONSTANTS
    root = root
    child = child
    None = None
    f1 = f1
    f2 = f2
    Frames = {f1, f2}
    Activities = {root, child}
    Parent <- Two
    Mortal = {child}
    Policies <- Plain
    Goals = {}
    FreeAllocations = 2
    BadKarma = 1
SYMMETRY Symmetry
SPECIFICATION Spec
INVARIANTS Accounting
CHECK_DEADLOCK FALSE
