SPECIFICATION AgentStateSpec
CONSTANTS
    m1 = m1  m2 = m2  m3 = m3  k1 = k1
    c1 = c1  c2 = c2
    r1 = r1  r2 = r2  r3 = r3
    NoKey = NoKey
    NoMemory = NoMemory
    NoCall = NoCall
    Memories = {m1, m2, m3}
    Keys = {k1}
    KeyOf <- MCKeyOf
    Calls = {c1, c2}
    MaxActive = 1
    MemoryStores = {"postgres", "memory"}
    Requests = {r1, r2, r3}
    UserTurns = 1
    MaxRounds = 1
    Modes = {"off", "shadow", "enforce"}
    NoRequest = NoRequest
    Items = {1, 2, 3}
    Tokens = {1, 3}
    MemoryPriorities = {5, 40}
    TotalBudget = 5
    PartitionBudget <- MCPartitionBudget
SYMMETRY MCSymmetry
INVARIANTS
    AgentStateInv
    OneActivePerKey
    NewestIsActive
    
    PruningIsNeeded
PROPERTIES
    SavesExtend
    ShownStateIsStored
CHECK_DEADLOCK FALSE
