SPECIFICATION FairSpec
CONSTANTS
    NumFacts = 2
    Workers = {w1, w2}
    Tokens <- MCTokens
    Null = null
    Lease = 2
    Timeout = 1
    MaxStall = 1
    MaxDelay = 2
    MaxSkew = 1
    MaxLate = 1
    MaxFaults = 1
    MaxRequeues = 1
INVARIANTS
    OnePostPerFact
    DeliveredWasReceived
PROPERTIES
    OnlyHolderRecords
    FactsSettle
