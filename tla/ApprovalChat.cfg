SPECIFICATION FairChatSpec
CONSTANTS
    ada = ada
    a1 = a1
    n1 = n1
    r1 = r1
    r2 = r2
    r3 = r3
    Trail = {}
    NoRequest = NoRequest
    NoOrder = NoOrder
    Actions = {a1}
    Orders = {n1}
    InitialOrders = {}
    Requests = {r1, r2, r3}
    Users <- OneUser
    Role <- RoleOfOne
    PoolSize = 2
    MaxProductVersion = 1
    Types <- DraftType
    Tokens = {TRUE}
INVARIANTS
    ChatTypeOK
    OneDecisionCard
    CardsHold
PROPERTIES
    AllAnswered
