SPECIFICATION GovernedSpec
CONSTANTS
    PolicyKeys = {"base", "canary"}
    ListedBefore <- MCListedBefore
    Processes = {"w1", "w2"}
    Clients = {"c1"}
    EarlierPolicies <- MCEarlierPolicies
    SignalSets = {{}, {"safety_incident"}, {"safety_incident", "error_rate_regression"},
                  {"error_rate_regression"}, {"route_p95"}}
    MaxChanges = 2
    QueryDrafts = {"d1", "d2"}
    NoDraft = "other"
    Tables = {"orders", "customers", "refunds"}
    Columns <- MCColumns
    Metrics = {"paid", "refunded"}
    Relations = {"r1", "r2", "r3"}
    TableOf <- MCTableOf
    Ends <- MCEnds
    MetricColumns <- MCMetricColumns
    MetricPredicates <- MCMetricPredicates
    ControlledColumns = {"status"}
    IdentifierColumns = {"o_id", "o_customer_id", "c_id", "r_order_id", "r_customer_id"}
    TimeColumn = "day"
    MaxHops = 2
    FilterPool <- MCFilterPool
    DimensionPool = {"status", "c_id"}
    MaxFilters = 1
    RelationStates <- MCRelationStates
    NotCurrent = {{}, {"c_id"}}
    Unscored = {{}, {"level"}}
    PlanLimit = 1
    SqlPredicates <- MCSqlPredicates
    Words = {"CURRENT_DATE", "- INTERVAL", "'1", "DAY"}
    Dates = {"ten_days_ago", "yesterday", "today"}
    DateWords <- MCDateWords
    PresetBounds <- MCPresetBounds
    TimeNeeds <- MCTimeNeeds
    MaxRows = 2
    MaxEdits = 1
INVARIANTS
    GuardIsStrict
CHECK_DEADLOCK FALSE
