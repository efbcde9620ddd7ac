SPECIFICATION Spec
CONSTANTS
    w1 = w1
    w2 = w2
    p1 = p1
    p2 = p2
    None = None
    Users = {u1, u2}
    Workers = {w1, w2}
    Proxies = {p1, p2}
    ProxyOf <- MCProxyOf
    Pages <- MCPages
    Sizes <- MCSizes
    Asked <- Filters
    MaxInt64 = 7
    MaxSize = 2
    MaxMessages = 2
    MaxFaults = 1
INVARIANTS
    TypeOK
    ReadWasSeen
    AcceptedOnceAlone
    PagesCover
PROPERTIES
    OnlyItsReceiver
SYMMETRY MCSymmetry
CHECK_DEADLOCK FALSE
