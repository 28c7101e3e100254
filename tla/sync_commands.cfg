CONSTANTS
    Syncs = {s1, s2, s3}
    Switches = {o1}
    Readers = {r1}
    Versions = {v1}
    Contents = {c1, c2, c3}
    Invalid = {c3}
    NoOne = NoOne
SPECIFICATION FairSpec
INVARIANTS
    NoConflict
    OneSnapshot
    RevisionsDiffer
    DatabaseMatchesRaw
    ReportedOnce
PROPERTIES
    CommandsEnd
CHECK_DEADLOCK FALSE
