CONSTANTS
    Threads = {t1}
    Contexts = {c1, c2}
    Surfaces = {s1}
    NoContext = NoContext
    NoSurface = NoSurface
    External = External
    MaxId = 3
    Faults = {}
    Misuse = {}
SPECIFICATION Spec
INVARIANT IdsDiffer
CHECK_DEADLOCK FALSE
