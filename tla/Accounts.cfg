SPECIFICATION Spec
CONSTANTS
    a = a
    b = b
    s1 = s1
    s2 = s2
    s3 = s3
    s4 = s4
    p1 = p1
    p2 = p2
    None = None
    Names = {a, b}
    Sessions = {s1, s2, s3, s4}
    Proxies = {p1, p2}
    ProxyOf <- MCTwoProxies
    MaxFaults = 1
    MaxExpiries = 1
    MaxSeeds = 2
SYMMETRY MCSymmetry
INVARIANTS
    TypeOK
    ActiveWasVerified
    InitializedHasProject
    OneSignUp
    LinksLeadHomeAtFirst
    
    CreatedOrgsListed
CHECK_DEADLOCK FALSE
