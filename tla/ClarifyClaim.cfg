SPECIFICATION ClarSpec
CONSTANTS
    q1 = q1
    q2 = q2
    q3 = q3
    c1 = c1
    x1 = x1
    k1 = k1
    k2 = k2
    NoRun = NoRun
    Stores = {"postgres"}
    Runs = {q1, q2}
    Roots = {q1, q2}
    Askers = {q1, q2}
    Conversations = {c1}
    Cancels = {x1}
    Claims = {k1}
    Kinds = {"READ_QUERY"}
    MaxToolCalls = 1
    MaxReadRetries = 0
INVARIANTS
    ClaimsAreServed
