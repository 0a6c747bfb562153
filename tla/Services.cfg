SPECIFICATION MCSpec
CONSTANTS
    Tasks = {t1, t2}
    NoTask = NoTask
    Callers = {web}
    MaxAttempts = 3
    Serial = TRUE
    WanAddresses = {1, 2}
    Providers = {"NoIP", "DuckDNS"}
    NoSettings = NoSettings
    TxBufs = {b1, b2}
    MaxFrames = 2
    MaxRx = 2
    MaxFaults = 1
    TxRoom = 10
    DrainGlitch = FALSE
    NoBuf = NoBuf
    InitialMs = 250
    MaxMs = 1000
    MaxEvents = 3
    ScanPages = 1
INVARIANTS
    OneServer
    InOrder
    OffIsOffline
PROPERTIES
    DisabledStops
    KickEnds
    TxRecovers
    RecordFollows
    ReconnectsUnlessLeft
    StateConverges
CHECK_DEADLOCK FALSE
