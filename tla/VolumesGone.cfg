SPECIFICATION Spec
CONSTANTS
    c1 = c1
    c2 = c2
    c3 = c3
    n1 = n1
    n2 = n2
    r1 = r1
    r2 = r2
    None = None
    Claims = {c1}
    PVs = {n1}
    PvcName2PvName <- MCApart
    Requests = {r1, r2}
    MaxFaults = 0
INVARIANTS
    GoneWithClaim
CHECK_DEADLOCK FALSE
