SPECIFICATION MacFairSpec
CONSTANTS
    TxBufs = {b1, b2}
    MaxFrames = 3
    MaxRx = 2
    MaxFaults = 0
    TxRoom = 10
    DrainGlitch = FALSE
    NoBuf = NoBuf
PROPERTIES
    SendsSerialized
CHECK_DEADLOCK FALSE
