CONSTANTS
    N = 1
    Clients = {c1}
    HistoryMax = 2
    QueueMax = 2
    MaxConnects = 1
    MaxDeltas = 1
    MaxOpens = 2
    MaxRestarts = 1
    MaxFaults = 1
SPECIFICATION FairSpec
INVARIANTS
    IdsIncrease
    NothingIsLost
    
PROPERTY StreamEnds
CHECK_DEADLOCK FALSE
