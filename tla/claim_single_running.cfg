CONSTANTS
    N = 2
    MaxRetries = 0
    MaxCancels = 0
    MaxCrashes = 0
    MaxFaults = 0
SPECIFICATION Spec
INVARIANT SingleRunning
CHECK_DEADLOCK FALSE
