CONSTANTS
    Snapshots = {s1}
    Documents = {1, 2}
    Contents = {t1, t2}
    Models = {m1}
    Commands = {i1}
    Readers = {r1}
    BatchSize = 1
    Limit = 1
    None = None
SPECIFICATION Spec
INVARIANT FailedIsRecorded
CHECK_DEADLOCK FALSE
