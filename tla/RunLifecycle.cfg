SPECIFICATION Spec
CONSTANTS
    q1 = q1
    q2 = q2
    c1 = c1
    x1 = x1
    NoRun = NoRun
    Stores = {"postgres"}
    Runs = {q1, q2}
    Roots = {q1, q2}
    Conversations = {c1}
    Cancels = {x1}
    Kinds = {"READ_QUERY", "BUSINESS_WRITE"}
    MaxToolCalls = 1
    MaxReadRetries = 1
SYMMETRY AlikeRuns
INVARIANTS
    RunInv
    BudgetHolds
    ActiveRunsAreOwned
    OneActivePerConversation
    RecoveryIsReadOnly
    CancelAnswersHold
PROPERTIES
    RunsFollowTheTable
