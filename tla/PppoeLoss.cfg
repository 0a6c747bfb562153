SPECIFICATION FairSpec
CONSTANTS
    Pcbs = {p1, p2}
    NoPcb = NoPcb
    Evt = Evt
    Reconn = {r1, r2}
    MaxFlaps = 1
    MaxLosses = 5
    MaxAuthFails = 2
    CreateMayFail = FALSE
INVARIANTS
    NoCrash
    StatusTruthful
    NoLeak
    NotStranded
    RouteHasSession
PROPERTIES
    Redials
CHECK_DEADLOCK FALSE
