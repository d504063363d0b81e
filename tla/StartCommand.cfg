SPECIFICATION FairSpec
CONSTANTS
    Handlers = {h1, h2}
    Meters = {m1, m2}
    TxIds = {x1, x2}
    Null = null
    MaxFaults = 1
    MaxCrashes = 2
INVARIANTS
    ConfirmedIsDurable
    FactsMatchRows
PROPERTIES
    WriteAhead
    MaterializedIsFinal
    DeliveryResolves
CHECK_DEADLOCK FALSE
