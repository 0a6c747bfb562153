SPECIFICATION Spec
CONSTANTS
    MaxDrops = 3
    MaxFailures = 0
    MaxPeerLosses = 0
INVARIANTS
    MtuFitsTunnel
CHECK_DEADLOCK FALSE
