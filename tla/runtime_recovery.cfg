CONSTANTS
    N = 2
    MaxRetries = 1
    MaxCancels = 1
    MaxCrashes = 1
    MaxFaults = 1
SPECIFICATION Spec
INVARIANTS
    TypeOK
    RunMessageAgree
    ExecutingIsRunning
    
PROPERTIES
    TerminalStable
    LifecycleSpec
CHECK_DEADLOCK FALSE
