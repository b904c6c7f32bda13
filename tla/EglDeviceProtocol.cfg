CONSTANTS
    Contexts = {c1, c2}
    Surfaces = {s1, s2}
    Names = {1, 2}
    NoContext = NoContext
    NoSurface = NoSurface
    Pbuffer = Pbuffer
    External = External
    Faults = {"create"}
    Misuse = {}
    DescriptorPlatforms = {"x11", "angle", "hardware", "wgl", "cgl", "glutin"}
    DescriptorContexts = {d1, d2}
    DescriptorSurfaces = {w1}
    None = None
    Flags = {"stencil", "compatibility"}
    Versions = {20, 32}
    DriverVersions = {32}
    Configs = {{"window", "pbuffer"}, {"pbuffer", "depth", "stencil"}, {"window", "deep", "stencil"}, {"window", "depth", "stencil"}}
SPECIFICATION MCSpec
SYMMETRY Symmetry
INVARIANTS TypeOK OwnFramebuffers CurrentShowsFramebuffer WindowOutlivesUse
INVARIANT AskedIsGiven
PROPERTY CurrentComesBack
CHECK_DEADLOCK FALSE
