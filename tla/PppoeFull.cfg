SPECIFICATION Spec
CONSTANTS
    Pcbs = {p1, p2}
    NoPcb = NoPcb
    Evt = Evt
    Reconn = {r1, r2}
    MaxFlaps = 6
    MaxLosses = 4
    MaxAuthFails = 2
    CreateMayFail = TRUE
SYMMETRY Symmetry
INVARIANTS
    NoUplinkWhileDown
    ClampedWhileUp
    DialsTagged
CHECK_DEADLOCK FALSE
