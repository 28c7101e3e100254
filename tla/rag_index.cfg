CONSTANTS
    Snapshots = {s1, s2}
    Documents = {1, 2}
    Contents = {t1, t2}
    Models = {m1, m2}
    Commands = {i1, i2, i3}
    Readers = {r1}
    BatchSize = 1
    Limit = 1
    None = None
SPECIFICATION Spec
INVARIANTS
    GenerationIsComplete
    
    SearchIsOfSnapshot
SYMMETRY Symmetry
CHECK_DEADLOCK FALSE
