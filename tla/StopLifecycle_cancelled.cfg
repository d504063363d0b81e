SPECIFICATION FairSpec
CONSTANTS
    Handlers = {h1}
    Worker = worker
    StopCommands = {c1}
    Evidence = {e1}
    Null = null
    MaxFaults = 1
    MaxCrashes = 0
PROPERTIES
    MissingResponseBecomesAmbiguous
