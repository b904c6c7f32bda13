CONSTANTS
    Threads = {t1, t2}
    Windows = {w1, w2}
    Nobody = Nobody
    NoWindow = NoWindow
    Faults = {}
SPECIFICATION Spec
INVARIANT ClassIsRegisteredOnce
