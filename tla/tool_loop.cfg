CONSTANTS
    Ids = {i1, i2, i3}
    Snapshots = {s1, s2}
    None = None
    MaxIterations = 2
    MaxCalls = 2
    MaxInterrupts = 2
    MaxCrashes = 1
    MaxFaults = 1
    MaxMoves = 1
SYMMETRY Exchangeable
SPECIFICATION Spec
INVARIANTS
    ToldIsRecorded
    SourcesAreOfSuccesses
    OneSnapshot
    ExecutedCallsEnd
PROPERTIES
    EndedStaysEnded
CHECK_DEADLOCK FALSE
