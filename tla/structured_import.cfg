CONSTANTS
    Sources <- MCSources
    Base <- MCBase
    MaxImports = 3
SPECIFICATION Spec
INVARIANTS
    ReadersGetTheSource
    AcceptedIsImported
CHECK_DEADLOCK FALSE
