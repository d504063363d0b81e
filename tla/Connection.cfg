SPECIFICATION FairSpec
CONSTANTS
    Worker = worker
    None = none
    MaxConns = 2
    MaxFaults = 1
    MaxBeats = 1
    MaxRestarts = 1
INVARIANTS
    OfflineMeansGone
    LatestFactIsRow
PROPERTIES
    NoResurrection
    ProjectionCatchesUp
CHECK_DEADLOCK FALSE
