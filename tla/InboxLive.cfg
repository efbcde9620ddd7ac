SPECIFICATION FairSpec
CONSTANTS
    w1 = w1
    w2 = w2
    p1 = p1
    p2 = p2
    None = None
    Users = {u1}
    Workers = {w1, w2}
    Proxies = {p1, p2}
    ProxyOf <- MCProxyOf
    Pages <- MCFirstPage
    Sizes <- MCWholePage
    Asked <- MCAnyStatus
    MaxInt64 = 7
    MaxSize = 2
    MaxMessages = 2
    MaxFaults = 1
PROPERTIES
    ListedGetsRead
    ProxyServes
CHECK_DEADLOCK FALSE
