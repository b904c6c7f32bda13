CONSTANTS
    Contexts = {c1, c2}
    Surfaces = {s1}
    Names = {1}
    NoContext = NoContext
    NoSurface = NoSurface
    Pbuffer = Pbuffer
    External = External
    Faults = {"create", "make_current"}
    Misuse = {"none_current", "destroy_elsewhere"}
    Platforms = {"wayland", "x11", "surfaceless"}
SPECIFICATION UnixSpec
INVARIANTS OneDisplay FlushedWhenUnbound
CHECK_DEADLOCK FALSE
