CONSTANTS
    Threads = {t1, t2}
    Ids = {i1, i2}
    Chains = {c1, c2, c3}
    NoChain = NoChain
    Nobody = Nobody
    MaxCalls = 5
    Faults = {"create"}
    Misuse = {"attach_any"}
SPECIFICATION FairSpec
INVARIANTS IdsMatchTable DestroyTakesChainOut
PROPERTIES IterYieldsOwnChains EveryCallReturns
CHECK_DEADLOCK FALSE
