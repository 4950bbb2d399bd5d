SPECIFICATION Spec
CONSTANTS
    opal = opal
    ada = ada
    ann = ann
    a1 = a1
    a2 = a2
    o1 = o1
    n1 = n1
    n2 = n2
    r1 = r1
    r2 = r2
    r3 = r3
    Trail = {}
    NoRequest = NoRequest
    NoOrder = NoOrder
    Actions = {a1, a2}
    Orders = {o1, n1, n2}
    InitialOrders = {o1}
    Requests = {r1, r2, r3}
    Users <- OneUser
    Role <- RoleOfOne
    PoolSize = 2
    MaxProductVersion = 1
    Types <- ActionType
    Tokens = {TRUE}
SYMMETRY Interchangeable
CONSTRAINT CrowdsAreSmall
INVARIANTS
    ApprovalInv
    OneApprovalPerVersion
    VersionCountsApprovals
    OneDraftPerApproval
    ExpiryIsDurable
PROPERTIES
    OnlyApprovedChanges
    DecisionsAreFinal
    ImplementsLedger
