SPECIFICATION Spec
CONSTANTS
    a = a
    b = b
    x = x
    o1 = o1
    h1 = h1
    h2 = h2
    NoDoc = NoDoc
    Users = {a, b, x}
    Registered = {a, b}
    OrgIDs = {o1}
    Handlers = {h1, h2}
    NameOf <- MCOwnNames
    MaxFaults = 1
    MaxRequests = 5
    OrgLimit = 2
    Bodies <- MCJoined
    FirstProfile <- MCBlank
    AnyoneAccepts = TRUE
SYMMETRY MCSymmetry
INVARIANTS
    TypeOK
    UniqueMembers
    MembershipIsEarned
    AdminsWereGranted
    OnlyOrphanedLackAdmin
PROPERTIES
    AuthorityChain
CHECK_DEADLOCK FALSE
