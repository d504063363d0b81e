SPECIFICATION FairSpec
CONSTANTS
    o1 = o1
    o2 = o2
    Ops = {o1, o2}
    Expected <- MCExpected
    Connector <- MCConnector
    Conns = {k1}
    Frames <- MCFrames
    Null = null
    Window = 1
    Limit = 1
    MaxTime = 2
    MaxFrames = 1
    MaxDisruptions = 1
INVARIANTS
    VerdictMatchesEvidence
    NoMissedFollowOn
    EvidenceBeforeOutcome
PROPERTIES
    WindowsSettle
CHECK_DEADLOCK FALSE
