SPECIFICATION FairSpec
CONSTANTS
    Writers = {w1, w2}
    Srv = Srv
    Cfg = Cfg
    Nobody = Nobody
    RingSize = 4
    SendBuf = 2
    Lens <- SetLens
    Selectable <- SetModes
    MaxRecords = 3
    MaxSessions = 2
    MaxModes = 1
INVARIANTS
    TypeOK
    FramedUnlessReset
    SignalNotLost
PROPERTIES
    ImplementsFifo
    Drains
CHECK_DEADLOCK FALSE
