\* A frame, two activities that share it, and replies that the ager overtakes.
CONSTANTS
    root = root
    child = child
    None = None
    f1 = f1
    Frames = {f1}
    Activities = {root, child}
    Parent <- Two
    Mortal = {}
    Policies <- Plain
    Goals = {}
    FreeAllocations = 2
    BadKarma = 1
SPECIFICATION Spec
INVARIANTS CandidatesUnmapped
CHECK_DEADLOCK FALSE
