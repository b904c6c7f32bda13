CONSTANTS
    Chains = {c1}
    Surfaces = {s1, s2, s3, s4, s5, s6}
    NoSurface = NoSurface
    Sizes = {1, 2}
    MaxHeld = 1
    Faults = {"create"}
    Misuse = {}
    MaxFrames = 6
SPECIFICATION HSpec
SYMMETRY Symmetry
INVARIANT PoolBounded
PROPERTY SeenNeverGoesBack
CHECK_DEADLOCK FALSE
