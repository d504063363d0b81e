SPECIFICATION ReportsSpec
CONSTANTS
    MeterStart = 0
    Limit = 2
    Wh <- MCWh
    SoC = {s1, s2}
    Times <- MCTimes
    StartedAt = 1
    StartSeenAt = 1
    Skew = 1
    Null = null
    MaxSamples = 3
    Chargers = {a, b}
    Serials = {sn, b}
    None = none
    NumKeys = 1
    MaxConns = 3
    MaxStatus = 1
    MaxSyncs = 1
    Sessions = {i1}
    Handlers = {h1, h2}
    Workers = {w1, w2}
    NumEvents = 2
INVARIANTS
    FactsInOrder
    LimitRequestsStop
    FinalMeterCovers
    OwnEvidence
    OneLateRequest
PROPERTIES
    RetentionSparesUndelivered
CHECK_DEADLOCK FALSE
