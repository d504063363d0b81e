SPECIFICATION FairSpec
CONSTANTS
    N = 1
    Console = Console
    Jobs = {j1}
    Workers = {w1}
    None = None
    MaxTx = 2
CHECK_DEADLOCK FALSE
INVARIANTS
    CallsMatchTransaction
    PendingMatchesTransaction
PROPERTIES
    OperationsReturn
