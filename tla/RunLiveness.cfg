SPECIFICATION FairSpec
CONSTANTS
    q1 = q1
    q2 = q2
    c1 = c1
    x1 = x1
    NoRun = NoRun
    Stores = {"postgres"}
    Runs = {q1, q2}
    Roots = {q1, q2}
    Conversations = {c1}
    Cancels = {}
    Kinds = {"READ_QUERY"}
    MaxToolCalls = 1
    MaxReadRetries = 1
PROPERTIES
    RunsClose
