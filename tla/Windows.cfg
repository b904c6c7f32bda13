CONSTANTS
    Threads = {t1, t2}
    Contexts = {c1, c2}
    Surfaces = {s1, s2}
    Names = {n1, n2, n3}
    NoContext = NoContext
    NoSurface = NoSurface
    NoName = NoName
    External = External
    MaxId = 3
    Faults = {"create", "make_current", "import"}
    WglFaults = {"create", "register", "import"}
    Misuse = {}
SPECIFICATION MCSpec
SYMMETRY Symmetry
INVARIANTS LockedWhileBound NamesOwned CurrentDrawsToWidget
INVARIANTS KindsKeepIds MutexHeldInUse NoDeadSurfaceCurrent
CHECK_DEADLOCK FALSE
