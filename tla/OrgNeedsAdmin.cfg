SPECIFICATION Spec
CONSTANTS
    a = a
    b = b
    o1 = o1
    h1 = h1
    h2 = h2
    NoDoc = NoDoc
    Users = {a, b}
    Registered = {a, b}
    OrgIDs = {o1}
    Handlers = {h1, h2}
    NameOf <- MCOwnNames
    MaxFaults = 0
    MaxRequests = 6
    OrgLimit = 2
    Bodies <- MCEmpty
    FirstProfile <- MCBlank
    AnyoneAccepts = FALSE
SYMMETRY MCSymmetry
INVARIANTS
    NeedsAdmin
CHECK_DEADLOCK FALSE
