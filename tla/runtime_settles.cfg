CONSTANTS
    N = 1
    MaxRetries = 0
    MaxCancels = 2
    MaxCrashes = 2
    MaxFaults = 1
SPECIFICATION FairSpec
PROPERTIES
    RunSettles
CHECK_DEADLOCK FALSE
