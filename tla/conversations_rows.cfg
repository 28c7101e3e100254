CONSTANTS
    Posts = {p1, p2}
    Patches = {u1}
    Archives = {a1}
    Answers = {c1}
    Keys = {k1}
    Bodies = {b1}
    NoKey = NoKey
    NoTxn = NoTxn
SPECIFICATION Spec
INVARIANTS
    SequenceIsCommitOrder
    ReplyIsTheMessage
    NobodyIsStuck
PROPERTY LogSpec
CHECK_DEADLOCK FALSE
