SPECIFICATION FairSpec
CONSTANTS
    NumOps = 2
    NumChargers = 2
    chargerOf <- BothLast
    Handlers = {h1}
    Worker = worker
    Batch = 1
    Cycle = 2
    MaxConnects = 2
    MaxFaults = 1
    MaxCrashes = 1
INVARIANTS
    StateTellsDelivery
PROPERTIES
    WriteAhead
    SettledIsFinal
    OperationsDrain
    AttemptsSettle
CHECK_DEADLOCK FALSE
