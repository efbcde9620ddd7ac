SPECIFICATION Spec
CONSTANTS
    a = a
    b = b
    x = x
    o1 = o1
    o2 = o2
    h1 = h1
    NoDoc = NoDoc
    Users = {a, b, x}
    Registered = {a, b}
    OrgIDs = {o1, o2}
    Handlers = {h1}
    NameOf <- MCOwnNames
    MaxFaults = 1
    MaxRequests = 6
    OrgLimit = 3
    Bodies <- MCMixed
    FirstProfile <- MCListed
    AnyoneAccepts = FALSE
INVARIANTS
    ListsMatchMembers
    ProjectsMatchDocuments
    QuotaMatchesCreated
    MembersHaveTheirRole
PROPERTIES
    ImplementsRules
CHECK_DEADLOCK FALSE
