SPECIFICATION ClarSpec
CONSTANTS
    q1 = q1
    q2 = q2
    q3 = q3
    c1 = c1
    x1 = x1
    k1 = k1
    k2 = k2
    NoRun = NoRun
    Stores = {"postgres", "memory"}
    Runs = {q1, q2, q3}
    Roots = {q1}
    Askers = {q1}
    Conversations = {c1}
    Cancels = {x1}
    Claims = {k1, k2}
    Kinds = {"READ_QUERY", "BUSINESS_WRITE"}
    MaxToolCalls = 1
    MaxReadRetries = 1
SYMMETRY Alike
CHECK_DEADLOCK FALSE
INVARIANTS
    ClarInv
    OneChildPerCard
    ResumedOnce
    ClaimedChildrenAreOwned
PROPERTIES
    RunsFollowTheTable
    ExpiredIsNotApplied
    ImplementsQuestions
