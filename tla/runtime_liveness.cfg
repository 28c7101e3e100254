CONSTANTS
    N = 3
    MaxRetries = 0
    MaxCancels = 1
    MaxCrashes = 0
    MaxFaults = 0
SPECIFICATION FairSpec
INVARIANTS
    AskedNeverCompletes
    AnsweredOnce
PROPERTIES
    WaitingSettles
    EnqueueReturns
CHECK_DEADLOCK FALSE
