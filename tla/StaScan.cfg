SPECIFICATION FairSpec
CONSTANTS
    InitialMs = 250
    MaxMs = 1000
    MaxEvents = 3
    ScanPages = 1
PROPERTIES
    Reconnects
CHECK_DEADLOCK FALSE
