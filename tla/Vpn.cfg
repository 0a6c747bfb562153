SPECIFICATION FairSpec
CONSTANTS
    MaxDrops = 3
    MaxFailures = 2
    MaxPeerLosses = 2
INVARIANTS
    TypeOK
    ProtectedUnlessExposed
PROPERTIES
    LeakEnds
    TunnelReturns
    TornDown
CHECK_DEADLOCK FALSE
