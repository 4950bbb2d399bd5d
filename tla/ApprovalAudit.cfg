SPECIFICATION Spec
CONSTANTS
    opal = opal
    ada = ada
    ann = ann
    a1 = a1
    a2 = a2
    o1 = o1
    n1 = n1
    n2 = n2
    r1 = r1
    r2 = r2
    r3 = r3
    Trail = {"ACTION_CONFIRMED", "ACTION_CANCELLED", "ACTION_FAILED"}
    NoRequest = NoRequest
    NoOrder = NoOrder
    Actions = {a1}
    Orders = {o1, n1}
    InitialOrders = {o1}
    Requests = {r1, r2}
    Users <- ThreeUsers
    Role <- RoleOfThree
    PoolSize = 2
    MaxProductVersion = 1
    Types <- ActionType
    Tokens = {TRUE, FALSE}
SYMMETRY Interchangeable
INVARIANTS
    ExecutedIsAudited
