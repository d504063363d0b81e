SPECIFICATION Spec
CONSTANTS
    MeterStart = 0
    Limit = 2
    Wh <- MCWh
    SoC = {s1, s2}
    Times <- MCTimes
    StartedAt = 1
    StartSeenAt = 1
    Skew = 1
    Null = null
    MaxSamples = 2
PROPERTIES
    MeterNeverRegresses
CHECK_DEADLOCK FALSE
