SPECIFICATION Spec
CONSTANTS
    Pcbs = {p1, p2}
    NoPcb = NoPcb
    Evt = Evt
    Reconn = {r1, r2}
    MaxFlaps = 6
    MaxLosses = 0
    MaxAuthFails = 0
    CreateMayFail = FALSE
SYMMETRY Symmetry
INVARIANTS
    NotStranded
CHECK_DEADLOCK FALSE
