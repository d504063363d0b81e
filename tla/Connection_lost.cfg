SPECIFICATION Spec
CONSTANTS
    Worker = worker
    None = none
    MaxConns = 1
    MaxFaults = 1
    MaxBeats = 0
    MaxRestarts = 0
INVARIANTS
    QuietAgrees
CHECK_DEADLOCK FALSE
