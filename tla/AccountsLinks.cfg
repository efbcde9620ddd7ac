SPECIFICATION Spec
CONSTANTS
    a = a
    b = b
    s1 = s1
    s2 = s2
    s3 = s3
    s4 = s4
    p1 = p1
    p2 = p2
    None = None
    Names = {a, b}
    Sessions = {s1, s3}
    Proxies = {p1, p2}
    ProxyOf <- MCOneEach
    MaxFaults = 0
    MaxExpiries = 0
    MaxSeeds = 0
INVARIANTS
    LinksLeadHome
CHECK_DEADLOCK FALSE
