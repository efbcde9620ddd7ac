SPECIFICATION Spec
CONSTANTS
    c1 = c1
    c2 = c2
    c3 = c3
    n1 = n1
    n2 = n2
    r1 = r1
    r2 = r2
    r3 = r3
    r4 = r4
    None = None
    Claims = {c1, c2, c3}
    PVs = {n1, n2}
    PvcName2PvName <- MCCollide
    Requests = {r1, r2, r3, r4}
    MaxFaults = 1
SYMMETRY MCSymmetry
INVARIANTS
    TypeOK
    PVHasVolume
    NothingLeaks
CHECK_DEADLOCK FALSE
