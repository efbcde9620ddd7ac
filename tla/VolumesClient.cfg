SPECIFICATION FairClientSpec
CONSTANTS
    c1 = c1
    n1 = n1
    r1 = r1
    r2 = r2
    None = None
    Claims = {c1}
    PVs = {n1}
    PvcName2PvName <- MCOnePV
    Requests = {r1, r2}
    MaxFaults = 7
    MaxFailures = 1
INVARIANTS
    ClientVolumesTypeOK
    BlankTokenLeaksNoVolume
    LateCallsHaveClient
PROPERTIES
    ClaimGetsPVOnceSent
    AdminGetsToken
CHECK_DEADLOCK FALSE
