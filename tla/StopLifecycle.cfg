SPECIFICATION FairSpec
CONSTANTS
    Handlers = {h1, h2}
    Worker = worker
    StopCommands = {c1, c2}
    Evidence = {e1, e2}
    Null = null
    MaxFaults = 1
    MaxCrashes = 2
INVARIANTS
    TypeOK
    AtMostOneRemoteStop
    OneDispatcher
    CompletionClosesStop
    AckedIsDurable
    OutcomesAgree
PROPERTIES
    CompletedRowsFrozen
    WriteAhead
    StopSettles
