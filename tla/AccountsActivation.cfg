SPECIFICATION Spec
CONSTANTS
    a = a
    s1 = s1
    s2 = s2
    s3 = s3
    s4 = s4
    p1 = p1
    p2 = p2
    None = None
    Names = {a}
    Sessions = {s1, s2, s3}
    Proxies = {p1}
    ProxyOf <- MCOneProxy
    MaxFaults = 0
    MaxExpiries = 0
    MaxSeeds = 0
SYMMETRY MCAlike
INVARIANTS
    ActivationLasts
CHECK_DEADLOCK FALSE
