CONSTANTS
    Threads = {t1, t2}
    Windows = {w1, w2, w3}
    Nobody = Nobody
    NoWindow = NoWindow
    Faults = {"load", "device", "context", "make_current", "window"}
    WaylandDisplays = {wayland1}
    X11Displays = {x1}
    Surfaceless = surfaceless
    Wrappers = {n1, n2}
    NoWrapper = NoWrapper
    NoDisplay = NoDisplay
    MaxHandles = 2
    ConnectionFaults = {"connect", "get_display"}
SPECIFICATION MCSpec
INVARIANTS WindowsFollowOwners DisplaysFollowUse
PROPERTY EveryCallEnds
CHECK_DEADLOCK FALSE
