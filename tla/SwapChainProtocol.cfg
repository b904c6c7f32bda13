CONSTANTS
    Chains = {c1, c2}
    Surfaces = {s1, s2, s3, s4, s5}
    NoSurface = NoSurface
    Sizes = {1, 2}
    MaxHeld = 1
    Faults = {"create"}
    Misuse = {}
SPECIFICATION Spec
SYMMETRY Symmetry
INVARIANTS TypeOK BackBufferSized NothingLost OneCurrentBackBuffer ProducerGoesOn
