CONSTANTS
    Contexts = {c1, c2}
    Surfaces = {s1}
    Names = {n1, n2}
    NoContext = NoContext
    NoSurface = NoSurface
    NoName = NoName
    NoImage = NoImage
    MaxNatives = 2
    MaxBorrowed = 1
    Faults = {"create", "complete"}
    Misuse = {}
SPECIFICATION Spec
INVARIANTS RefsMatchHandles TextureShowsBack ShownIsNotDrawn
INVARIANT CondCounted
PROPERTY PresentReturns
CHECK_DEADLOCK FALSE
