CONSTANTS
    Chunks = {a, b}
    Limit = 2
    MaxTurns = 2
    MaxUsage = 2
    MaxCancels = 1
    MaxNewer = 1
    MaxCrashes = 1
    MaxFaults = 1
SPECIFICATION FairSpec
INVARIANTS
    SentIsStored
    CompletedIsWhole
PROPERTIES
    OutputIsFinal
    ExecutionEnds
    LifecycleSteps
CHECK_DEADLOCK FALSE
