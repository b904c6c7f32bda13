CONSTANTS
    Contexts = {c1, c2, c3}
    Surfaces = {s1, s2}
    Names = {n1, n2}
    NoContext = NoContext
    NoSurface = NoSurface
    NoName = NoName
    NoObject = NoObject
    External = External
    Orphan = Orphan
    Faults = {"create", "pbuffer", "allocate", "window"}
    GlutinFaults = {"create", "make_current", "make_not_current", "import"}
    Misuse = {}
SPECIFICATION MCSpec
SYMMETRY Symmetry
INVARIANTS DrawsToBoundWindow OwnTextures OwnDrawables
CHECK_DEADLOCK FALSE
