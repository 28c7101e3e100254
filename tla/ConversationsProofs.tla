------------------------ MODULE ConversationsProofs ------------------------
(* Theorems about Conversations, for any sets of requests, request ids and *)
(* contents.                                                               *)
EXTENDS Conversations, TLAPS

(* What an open transaction has allocated, and that a number it inserted   *)
(* is the next one and nobody else's: the advisory lock, which answers do  *)
(* not take, is not what keeps the numbers apart.                          *)
Allocated == \A t \in Txns :
    /\ tx[t].pc \in {"looked", "allocated", "inserted"} => t \in Writers
    /\ tx[t].pc \in {"allocated", "inserted"} => tx[t].next \in 1..(Len(rows) + 1)

Inserted == \A t \in Txns : tx[t].pc = "inserted" =>
    /\ tx[t].next = Len(rows) + 1
    /\ Existing(tx[t].key) = {}
    /\ \A u \in Txns : tx[u].pc = "inserted" => u = t

(* The rows of one request id are one row, whose writer has ended.         *)
OneRowPerKey == \A i, j \in DOMAIN rows :
    LET key == tx[rows[i].by].key IN
    key # NoKey /\ key = tx[rows[j].by].key => i = j

WritersEnded == \A i \in DOMAIN rows : tx[rows[i].by].pc = "done"

(* Nobody is told anything before it ends.                                 *)
Unanswered == \A t \in Txns : tx[t].pc # "done" => reply[t] = NoReply

IInv ==
    /\ TypeOK /\ SequenceIsCommitOrder /\ Allocated /\ Inserted
    /\ OneRowPerKey /\ WritersEnded /\ Unanswered /\ ReplyIsTheMessage

TxnRecord == [pc : PCs, seen : {"active", "archived"}, seenMode : Modes,
              key : Keys \union {NoKey}, body : Bodies \union {NoKey},
              asks : Modes \union {""}, mode : Modes, next : Nat]
ReplyRecord == [kind : Replies, seq : Nat]
Row == [seq : Nat \ {0}, by : Writers]
-----------------------------------------------------------------------------
(* Operators of the model.                                                 *)

LEMMA RowsType ==
  ASSUME TypeOK
  PROVE  /\ rows \in Seq(Row) /\ Len(rows) \in Nat /\ DOMAIN rows = 1..Len(rows)
         /\ \A i \in DOMAIN rows : i \in Nat /\ rows[i].by \in Writers /\ rows[i].by \in Txns
  <1>1. rows \in Seq(Row)
    BY DEF TypeOK, Row
  <1>2. \A w \in Row : w.by \in Writers /\ w.by \in Txns
    BY DEF Row, Writers, Txns, Locking
  <1> HIDE DEF Row
  <1> QED BY <1>1, <1>2

LEMMA GreatestIs ==
  ASSUME NEW n \in Nat, NEW s \in 0..n, \A r \in 1..n : r <= s
  PROVE  s = n
  <1>1. n # 0 => n \in 1..n
    OBVIOUS
  <1> QED BY <1>1

LEMMA NumbersAre ==
  ASSUME TypeOK, SequenceIsCommitOrder
  PROVE  Numbers = 1..Len(rows) /\ MaxSequence = Len(rows)
  <1>1. Len(rows) \in Nat /\ DOMAIN rows = 1..Len(rows)
    BY RowsType
  <1>2. Numbers = 1..Len(rows)
    BY <1>1 DEF Numbers, SequenceIsCommitOrder
  <1>3. MaxSequence = CHOOSE s \in 0..Len(rows) : \A r \in 1..Len(rows) : r <= s
    <2>1. (1..Len(rows)) \union {0} = 0..Len(rows)
      BY <1>1
    <2> QED BY <1>2, <2>1 DEF MaxSequence
  <1>4. ASSUME NEW s \in 0..Len(rows), \A r \in 1..Len(rows) : r <= s PROVE s = Len(rows)
    BY <1>1, <1>4, GreatestIs
  <1>5. Len(rows) \in 0..Len(rows)
    BY <1>1
  <1> QED BY <1>2, <1>3, <1>4, <1>5

(* A transaction that has not ended has written no row.                    *)
LEMMA OpenHasNoRow ==
  ASSUME IInv, NEW t \in Txns, tx[t].pc # "done", NEW i \in DOMAIN rows
  PROVE  rows[i].by # t /\ rows[i].by \in Txns /\ rows[i].by \in Writers
  BY RowsType DEF IInv, WritersEnded

(* What one transaction does to its own record leaves the rows and what    *)
(* they are compared with alone.                                           *)
LEMMA StepKeeps ==
  ASSUME IInv, NEW t \in Txns, NEW x \in TxnRecord, NEW r \in ReplyRecord,
         tx[t].pc # "done", tx' = [tx EXCEPT ![t] = x], reply' = [reply EXCEPT ![t] = r],
         rows' = rows, status' \in {"active", "archived"}, mode' \in Modes, stamps' \in Nat,
         lock' \in Locking \union {NoTxn},
         x.pc \in {"looked", "allocated", "inserted"} => t \in Writers,
         x.pc \in {"allocated", "inserted"} => x.next \in 1..(Len(rows) + 1),
         x.pc = "inserted" => /\ x.next = Len(rows) + 1 /\ Existing(x.key) = {}
                              /\ \A u \in Txns : tx[u].pc = "inserted" => u = t,
         x.pc # "done" => r = NoReply,
         t \in Posts /\ r.kind \in {"created", "replayed"} =>
            /\ r.seq \in DOMAIN rows
            /\ LET u == rows[r.seq].by IN
                  tx[u].key = x.key /\ tx[u].body = x.body /\ tx[u].mode = x.mode
  PROVE  IInv'
  <1> USE DEF IInv
  <1>1. TypeOK'
    BY DEF TypeOK, TxnRecord, ReplyRecord
  <1>2. /\ tx'[t] = x /\ reply'[t] = r
        /\ \A u \in Txns \ {t} : tx'[u] = tx[u] /\ reply'[u] = reply[u]
    BY DEF TypeOK
  <1>3. \A i \in DOMAIN rows : rows[i].by \in Txns /\ tx'[rows[i].by] = tx[rows[i].by]
    BY <1>2, OpenHasNoRow
  <1>4. \A key : Existing(key)' = Existing(key)
    BY <1>3 DEF Existing
  <1>5. SequenceIsCommitOrder'
    BY DEF SequenceIsCommitOrder
  <1>6. Allocated' /\ Inserted'
    BY <1>2, <1>4 DEF Allocated, Inserted
  <1>7. OneRowPerKey' /\ WritersEnded'
    BY <1>3 DEF OneRowPerKey, WritersEnded
  <1>8. Unanswered'
    BY <1>2 DEF Unanswered, NoReply
  <1>9. ReplyIsTheMessage'
    <2> SUFFICES ASSUME NEW p \in Posts, reply'[p].kind \in {"created", "replayed"}
                 PROVE  /\ reply'[p].seq \in DOMAIN rows
                        /\ LET u == rows[reply'[p].seq].by IN
                              /\ tx'[u].key = tx'[p].key /\ tx'[u].body = tx'[p].body
                              /\ tx'[u].mode = tx'[p].mode
      BY DEF ReplyIsTheMessage
    <2>1. CASE p = t
      BY <1>2, <1>3, <2>1
    <2>2. CASE p # t
      BY <1>2, <1>3, <2>2 DEF ReplyIsTheMessage, Txns, Locking
    <2> QED BY <2>1, <2>2
  <1> QED BY <1>1, <1>5, <1>6, <1>7, <1>8, <1>9

(* The end of a transaction that commits no message.                       *)
LEMMA FinishKeeps ==
  ASSUME IInv, NEW t \in Txns, NEW kind \in Replies, NEW seq \in Nat,
         tx[t].pc # "done", Finish(t, kind, seq), rows' = rows,
         status' \in {"active", "archived"}, mode' \in Modes, stamps' \in Nat,
         t \in Posts /\ kind \in {"created", "replayed"} =>
            seq \in DOMAIN rows /\ tx[rows[seq].by].key = tx[t].key /\ SameRequest(t, seq)
  PROVE  IInv'
  <1> DEFINE x == [tx[t] EXCEPT !.pc = "done"]
             r == [kind |-> kind, seq |-> seq]
  <1>1. /\ tx' = [tx EXCEPT ![t] = x] /\ reply' = [reply EXCEPT ![t] = r]
        /\ lock' \in Locking \union {NoTxn}
    BY DEF Finish, IInv, TypeOK
  <1>2. /\ x \in TxnRecord /\ x.pc = "done" /\ x.key = tx[t].key /\ x.body = tx[t].body
        /\ x.mode = tx[t].mode /\ r \in ReplyRecord /\ r.kind = kind /\ r.seq = seq
    BY DEF IInv, TypeOK, TxnRecord, ReplyRecord, PCs
  <1> HIDE DEF x, r
  <1> QED BY <1>1, <1>2, StepKeeps DEF SameRequest

(* A step inside a transaction.                                            *)
LEMMA GoToKeeps ==
  ASSUME IInv, NEW t \in Txns, NEW pc \in PCs \ {"done"}, GoTo(t, pc),
         tx[t].pc # "done", UNCHANGED <<conversation, rows, reply>>,
         lock' \in Locking \union {NoTxn},
         pc \in {"looked", "allocated", "inserted"} => t \in Writers,
         pc \in {"allocated", "inserted"} => tx[t].next \in 1..(Len(rows) + 1),
         pc = "inserted" => /\ tx[t].next = Len(rows) + 1 /\ Existing(tx[t].key) = {}
                            /\ \A u \in Txns : tx[u].pc = "inserted" => u = t
  PROVE  IInv'
  <1> DEFINE x == [tx[t] EXCEPT !.pc = pc]
  <1>1. reply[t] = NoReply /\ NoReply \in ReplyRecord /\ NoReply.kind = "none"
    BY DEF IInv, Unanswered, NoReply, ReplyRecord, Replies
  <1>2. /\ tx' = [tx EXCEPT ![t] = x] /\ reply' = [reply EXCEPT ![t] = NoReply]
        /\ rows' = rows /\ status' \in {"active", "archived"} /\ mode' \in Modes
        /\ stamps' \in Nat
    BY <1>1 DEF GoTo, IInv, TypeOK, conversation
  <1>3. x \in TxnRecord /\ x.pc = pc /\ x.next = tx[t].next /\ x.key = tx[t].key
    BY DEF IInv, TypeOK, TxnRecord
  <1> HIDE DEF x, NoReply
  <1> QED BY <1>1, <1>2, <1>3, StepKeeps
-----------------------------------------------------------------------------
(* The steps of a transaction.                                             *)

LEMMA LoadKeeps ==
  ASSUME IInv, NEW t \in Txns, NEW key \in Keys \union {NoKey},
         NEW body \in Bodies \union {NoKey}, NEW wants \in Modes \union {""},
         Load(t, key, body, wants)
  PROVE  IInv'
  <1> DEFINE x == [pc |-> IF t \in Answers THEN "looked" ELSE "loaded",
                   seen |-> status, seenMode |-> mode, key |-> key, body |-> body,
                   asks |-> wants, mode |-> IF wants = "" THEN mode ELSE wants, next |-> 0]
  <1>1. tx[t].pc = "idle"
    BY DEF Load, At
  <1>2. reply[t] = NoReply /\ NoReply \in ReplyRecord /\ NoReply.kind = "none"
    BY <1>1 DEF IInv, Unanswered, NoReply, ReplyRecord, Replies
  <1>3. /\ tx' = [tx EXCEPT ![t] = x] /\ reply' = [reply EXCEPT ![t] = NoReply]
        /\ rows' = rows /\ status' \in {"active", "archived"} /\ mode' \in Modes
        /\ stamps' \in Nat /\ lock' \in Locking \union {NoTxn}
    BY <1>2 DEF Load, IInv, TypeOK, conversation
  <1>4. x \in TxnRecord /\ x.pc = IF t \in Answers THEN "looked" ELSE "loaded"
    BY DEF IInv, TypeOK, TxnRecord, PCs, Modes
  <1> HIDE DEF x, NoReply
  <1> QED BY <1>1, <1>2, <1>3, <1>4, StepKeeps DEF Writers

LEMMA BeginKeeps == ASSUME IInv, NEW t \in Txns, Begin(t) PROVE IInv'
  BY LoadKeeps DEF Begin

LEMMA LockKeeps == ASSUME IInv, NEW t \in Txns, Lock(t) PROVE IInv'
  BY GoToKeeps DEF Lock, At, PCs, conversation, IInv

LEMMA PatchKeeps == ASSUME IInv, NEW t \in Txns, Patch(t) PROVE IInv'
  <1>1. t \notin Posts /\ tx[t].pc = "locked" /\ tx[t].mode \in Modes
    BY TxnsAssumption DEF Patch, At, IInv, TypeOK
  <1>2. rows' = rows /\ status' = status /\ mode' \in Modes /\ stamps' = stamps
    BY <1>1 DEF Patch, IInv, TypeOK
  <1>3. PICK kind \in {"archived", "changed"} : Finish(t, kind, 0)
    BY DEF Patch
  <1>4. kind \in Replies /\ tx[t].pc # "done"
    BY <1>1, <1>3 DEF Replies
  <1>5. status' \in {"active", "archived"} /\ stamps' \in Nat
    BY <1>2 DEF IInv, TypeOK
  <1> QED BY <1>1, <1>2, <1>3, <1>4, <1>5, FinishKeeps

LEMMA ArchiveKeeps == ASSUME IInv, NEW t \in Txns, Archive(t) PROVE IInv'
  <1>1. t \notin Posts /\ tx[t].pc = "locked" /\ Finish(t, "changed", 0)
    BY TxnsAssumption DEF Archive, At
  <1>2. rows' = rows /\ status' \in {"active", "archived"} /\ mode' = mode /\ stamps' \in Nat
    <2>1. stamps \in Nat /\ status \in {"active", "archived"}
      BY DEF IInv, TypeOK
    <2> QED BY <2>1 DEF Archive
  <1> QED BY <1>1, <1>2, FinishKeeps DEF IInv, TypeOK, Replies

LEMMA LookUpKeeps == ASSUME IInv, NEW t \in Txns, LookUp(t) PROVE IInv'
  BY GoToKeeps DEF LookUp, At, PCs, Writers, IInv, TypeOK

LEMMA PostEndsKeeps == ASSUME IInv, NEW t \in Txns, PostEnds(t) PROVE IInv'
  <1> USE DEF IInv
  <1>1. /\ tx[t].pc = "locked" /\ rows' = rows /\ status' \in {"active", "archived"}
        /\ mode' \in Modes /\ stamps' \in Nat
    BY DEF PostEnds, At, conversation, TypeOK
  <1>2. CASE \E kind \in {"archived", "conflict"} : Finish(t, kind, 0)
    BY <1>1, <1>2, FinishKeeps DEF Replies
  <1>3. ASSUME NEW i \in Existing(tx[t].key), SameRequest(t, i), Finish(t, "replayed", rows[i].seq)
        PROVE  IInv'
    <2>1. i \in DOMAIN rows /\ tx[rows[i].by].key = tx[t].key
      BY DEF Existing
    <2>2. rows[i].seq = i /\ i \in Nat
      BY <2>1, RowsType DEF SequenceIsCommitOrder
    <2> QED BY <1>1, <1>3, <2>1, <2>2, FinishKeeps DEF Replies
  <1> QED BY <1>2, <1>3 DEF PostEnds

LEMMA AllocateKeeps == ASSUME IInv, NEW t \in Txns, Allocate(t) PROVE IInv'
  <1> USE DEF IInv
  <1> DEFINE x == [tx[t] EXCEPT !.pc = "allocated", !.next = Len(rows) + 1]
  <1>1. tx[t].pc = "looked" /\ t \in Writers /\ Len(rows) \in Nat
    BY RowsType DEF Allocate, At, Allocated
  <1>2. reply[t] = NoReply /\ NoReply \in ReplyRecord /\ NoReply.kind = "none"
    BY <1>1 DEF Unanswered, NoReply, ReplyRecord, Replies
  <1>3. /\ tx' = [tx EXCEPT ![t] = x] /\ reply' = [reply EXCEPT ![t] = NoReply]
        /\ rows' = rows /\ status' \in {"active", "archived"} /\ mode' \in Modes
        /\ stamps' \in Nat /\ lock' \in Locking \union {NoTxn}
    BY <1>2, NumbersAre DEF Allocate, TypeOK, conversation
  <1>4. x \in TxnRecord /\ x.pc = "allocated" /\ x.next = Len(rows) + 1
    <2>1. tx[t] \in TxnRecord
      BY DEF TypeOK, TxnRecord
    <2>2. Len(rows) + 1 \in Nat
      BY <1>1
    <2> QED BY <2>1, <2>2 DEF TxnRecord, PCs
  <1> HIDE DEF x, NoReply
  <1>5. Len(rows) + 1 \in 1..(Len(rows) + 1)
    BY <1>1
  <1> QED BY <1>1, <1>2, <1>3, <1>4, <1>5, StepKeeps

LEMMA InsertKeeps == ASSUME IInv, NEW t \in Txns, Insert(t) PROVE IInv'
  <1> USE DEF IInv
  <1>1. /\ tx[t].pc = "allocated" /\ t \in Writers /\ GoTo(t, "inserted")
        /\ UNCHANGED <<conversation, rows, lock, reply>>
    BY DEF Insert, At, Allocated
  <1>2. Len(rows) \in Nat /\ tx[t].next \in 1..(Len(rows) + 1)
    BY <1>1, RowsType DEF Allocated
  <1>3. tx[t].next = Len(rows) + 1 /\ Existing(tx[t].key) = {}
    BY <1>2, NumbersAre DEF Insert, Taken
  <1>4. \A u \in Txns : tx[u].pc # "inserted"
    BY <1>1, <1>3 DEF Insert, Waits, Clash, At, Allocated, Inserted
  <1> QED BY <1>1, <1>2, <1>3, <1>4, GoToKeeps DEF TypeOK, PCs

LEMMA InsertFailsKeeps == ASSUME IInv, NEW t \in Txns, InsertFails(t) PROVE IInv'
  <1> USE DEF IInv
  <1>1. /\ tx[t].pc = "allocated" /\ rows' = rows /\ status' \in {"active", "archived"}
        /\ mode' \in Modes /\ stamps' \in Nat
    BY DEF InsertFails, At, conversation, TypeOK
  <1>2. CASE Finish(t, "error", 0)
    BY <1>1, <1>2, FinishKeeps DEF Replies
  <1>3. ASSUME NEW i \in Existing(tx[t].key), SameRequest(t, i), Finish(t, "replayed", rows[i].seq)
        PROVE  IInv'
    <2>1. i \in DOMAIN rows /\ tx[rows[i].by].key = tx[t].key
      BY DEF Existing
    <2>2. rows[i].seq = i /\ i \in Nat
      BY <2>1, RowsType DEF SequenceIsCommitOrder
    <2> QED BY <1>1, <1>3, <2>1, <2>2, FinishKeeps DEF Replies
  <1> QED BY <1>2, <1>3 DEF InsertFails

LEMMA LoseKeeps == ASSUME IInv, NEW t \in Txns, Lose(t) PROVE IInv'
  BY FinishKeeps DEF Lose, Replies, conversation, IInv, TypeOK

(* Commit is the step that appends a row.  What holds of the rows there    *)
(* are is left alone, and nobody else has inserted.                        *)
LEMMA CommitEffect ==
  ASSUME IInv, NEW t \in Txns, Commit(t)
  PROVE  LET n == Len(rows) + 1 IN
         /\ t \in Writers /\ tx[t].pc = "inserted" /\ tx[t].next = n
         /\ n \in Nat /\ n \notin DOMAIN rows /\ DOMAIN rows' = DOMAIN rows \union {n}
         /\ DOMAIN rows = 1..Len(rows) /\ Len(rows') = n
         /\ rows' \in Seq(Row) /\ rows'[n].by = t /\ rows'[n].seq = n
         /\ \A i \in DOMAIN rows : rows'[i] = rows[i] /\ rows[i].by # t
                                   /\ rows[i].by \in Txns /\ tx'[rows[i].by] = tx[rows[i].by]
         /\ tx' = [tx EXCEPT ![t].pc = "done"]
         /\ tx'[t].key = tx[t].key /\ tx'[t].body = tx[t].body /\ tx'[t].mode = tx[t].mode
         /\ tx'[t].pc = "done" /\ \A u \in Txns \ {t} : tx'[u] = tx[u]
         /\ reply' = [reply EXCEPT ![t] = [kind |-> "created", seq |-> n]]
         /\ reply'[t] = [kind |-> "created", seq |-> n]
         /\ \A u \in Txns \ {t} : reply'[u] = reply[u]
         /\ UNCHANGED <<status, mode, stamps>> /\ lock' \in Locking \union {NoTxn}
  <1> USE DEF IInv
  <1> DEFINE n == Len(rows) + 1
             row == [seq |-> n, by |-> t]
  <1>1. /\ t \in Writers /\ tx[t].pc = "inserted" /\ tx[t].next = n
        /\ rows' = Append(rows, row)
    BY DEF Commit, At, Allocated, Inserted
  <1>2. rows \in Seq(Row) /\ Len(rows) \in Nat /\ DOMAIN rows = 1..Len(rows)
    BY RowsType
  <1>3. row \in Row /\ row.seq = n /\ row.by = t
    BY <1>1, <1>2 DEF Row
  <1> HIDE DEF row
  <1>4. /\ n \in Nat /\ n \notin DOMAIN rows /\ DOMAIN rows' = DOMAIN rows \union {n}
        /\ Len(rows') = n /\ rows' \in Seq(Row) /\ rows'[n] = row
        /\ \A i \in DOMAIN rows : rows'[i] = rows[i]
    BY <1>1, <1>2, <1>3
  <1>5. /\ tx' = [tx EXCEPT ![t].pc = "done"]
        /\ reply' = [reply EXCEPT ![t] = [kind |-> "created", seq |-> n]]
        /\ lock' \in Locking \union {NoTxn} /\ UNCHANGED <<status, mode, stamps>>
    BY <1>1 DEF Commit, Finish, TypeOK, conversation
  <1>6. /\ tx'[t].key = tx[t].key /\ tx'[t].body = tx[t].body /\ tx'[t].mode = tx[t].mode
        /\ tx'[t].pc = "done" /\ \A u \in Txns \ {t} : tx'[u] = tx[u] /\ reply'[u] = reply[u]
        /\ reply'[t] = [kind |-> "created", seq |-> n]
    <2>1. tx \in [Txns -> TxnRecord] /\ reply \in [Txns -> ReplyRecord]
      BY DEF TypeOK, TxnRecord, ReplyRecord
    <2> QED BY <1>5, <2>1 DEF TxnRecord
  <1>7. \A i \in DOMAIN rows : rows[i].by # t /\ rows[i].by \in Txns
    BY <1>1, OpenHasNoRow
  <1> QED BY <1>1, <1>2, <1>3, <1>4, <1>5, <1>6, <1>7

LEMMA CommitKeeps == ASSUME IInv, NEW t \in Txns, Commit(t) PROVE IInv'
  <1> USE CommitEffect DEF IInv
  <1> DEFINE n == Len(rows) + 1
  <1>1. TypeOK'
    <2>1. tx \in [Txns -> TxnRecord] /\ reply \in [Txns -> ReplyRecord]
      BY DEF TypeOK, TxnRecord, ReplyRecord
    <2>2. tx' \in [Txns -> TxnRecord]
      <3> DEFINE x == [tx[t] EXCEPT !.pc = "done"]
      <3>1. tx' = [tx EXCEPT ![t] = x]
        OBVIOUS
      <3>2. tx[t] \in TxnRecord
        BY ONLY <2>1, t \in Txns
      <3>3. x \in TxnRecord
        BY ONLY <3>2 DEF TxnRecord, PCs
      <3> HIDE DEF x
      <3> QED BY ONLY <2>1, <3>1, <3>3
    <2>3. reply' \in [Txns -> ReplyRecord]
      BY <2>1 DEF ReplyRecord, Replies
    <2> QED BY <2>2, <2>3 DEF TypeOK, TxnRecord, ReplyRecord, Row
  <1>2. SequenceIsCommitOrder'
    BY DEF SequenceIsCommitOrder
  <1>3. \A u \in Txns : tx[u].pc = "inserted" => u = t
    BY DEF Inserted
  <1>4. Allocated' /\ Inserted'
    <2>1. \A u \in Txns \ {t} : tx'[u] = tx[u] /\ tx[u].pc # "inserted"
      BY <1>3
    <2>2. tx'[t].pc = "done" /\ Len(rows') = Len(rows) + 1 /\ Len(rows) \in Nat
      BY RowsType
    <2>3. 1..(Len(rows) + 1) \subseteq 1..(Len(rows') + 1)
      BY ONLY <2>2
    <2>4. Allocated'
      BY <2>1, <2>2, <2>3 DEF Allocated
    <2>5. Inserted'
      BY <2>1, <2>2 DEF Inserted
    <2> QED BY <2>4, <2>5
  <1>5. Existing(tx[t].key) = {}
    BY DEF Inserted
  <1>6. OneRowPerKey'
    BY <1>5 DEF OneRowPerKey, Existing
  <1>7. WritersEnded' /\ Unanswered'
    BY DEF WritersEnded, Unanswered, NoReply
  <1>8. ReplyIsTheMessage'
    <2> SUFFICES ASSUME NEW p \in Posts, reply'[p].kind \in {"created", "replayed"}
                 PROVE  /\ reply'[p].seq \in DOMAIN rows'
                        /\ LET u == rows'[reply'[p].seq].by IN
                              /\ tx'[u].key = tx'[p].key /\ tx'[u].body = tx'[p].body
                              /\ tx'[u].mode = tx'[p].mode
      BY DEF ReplyIsTheMessage
    <2>1. CASE p = t
      BY <2>1
    <2>2. CASE p # t
      BY <2>2 DEF ReplyIsTheMessage, Txns, Locking
    <2> QED BY <2>1, <2>2
  <1> QED BY <1>1, <1>2, <1>4, <1>6, <1>7, <1>8

THEOREM Invariance == Spec => []IInv
  <1>1. Init => IInv
    <2> SUFFICES ASSUME Init PROVE IInv
      OBVIOUS
    <2>1. TypeOK
      <3>1. NotBegun \in TxnRecord /\ NoReply \in ReplyRecord
        BY DEF NotBegun, NoReply, TxnRecord, ReplyRecord, PCs, Replies, Modes
      <3>2. tx \in [Txns -> TxnRecord] /\ reply \in [Txns -> ReplyRecord]
        BY <3>1 DEF Init
      <3>3. rows \in Seq(Row)
        BY DEF Init
      <3>4. /\ status \in {"active", "archived"} /\ mode \in Modes /\ stamps \in Nat
            /\ lock \in Locking \union {NoTxn}
        BY DEF Init, Modes
      <3> QED BY <3>2, <3>3, <3>4 DEF TypeOK, TxnRecord, ReplyRecord, Row
    <2>2. rows = <<>> /\ DOMAIN rows = {}
      BY DEF Init
    <2> QED BY <2>1, <2>2
            DEF Init, IInv, SequenceIsCommitOrder, Allocated, Inserted, OneRowPerKey,
                WritersEnded, Unanswered, ReplyIsTheMessage, NotBegun, NoReply, Txns, Locking
  <1>2. IInv /\ [Next]_vars => IInv'
    <2> SUFFICES ASSUME IInv, [Next]_vars PROVE IInv'
      OBVIOUS
    <2>1. CASE Next
      BY <2>1, BeginKeeps, LockKeeps, PatchKeeps, ArchiveKeeps, LookUpKeeps, PostEndsKeeps,
         AllocateKeeps, InsertKeeps, InsertFailsKeeps, CommitKeeps, LoseKeeps
         DEF Next, Step
    <2>2. CASE UNCHANGED vars
      BY <2>2 DEF vars, IInv, TypeOK, SequenceIsCommitOrder, Allocated, Inserted, Existing,
                  OneRowPerKey, WritersEnded, Unanswered, ReplyIsTheMessage
    <2> QED BY <2>1, <2>2
  <1> QED BY <1>1, <1>2, PTL DEF Spec
-----------------------------------------------------------------------------
(* What follows.                                                           *)

(* Messages become visible in the order of their sequence numbers, without *)
(* a gap, although answers allocate theirs without the advisory lock.      *)
THEOREM SequencesFollowCommits == Spec => []SequenceIsCommitOrder
  BY Invariance, PTL DEF IInv

(* A request that is told of a message is told of one with its own request *)
(* id, content and mode, whatever requests race with it.                   *)
THEOREM RepliesAreOfTheRequest == Spec => []ReplyIsTheMessage
  BY Invariance, PTL DEF IInv

(* No two messages have the same request id.                               *)
THEOREM RequestIdsAreUnique == Spec => []OneRowPerKey
  BY Invariance, PTL DEF IInv
-----------------------------------------------------------------------------
(* Who waits for whom.                                                     *)

(* Between the first statement of a transaction and its end.               *)
Open(t) == tx[t].pc \notin {"idle", "done"}

(* It waits for the advisory lock, or for the transaction that has         *)
(* inserted the same number or request id.                                 *)
Blocked(t) ==
    \/ At(t, "loaded") /\ lock # NoTxn
    \/ At(t, "allocated") /\ Waits(t)

(* The lock is held by a transaction that has it and has not ended, and    *)
(* only those that take it wait for it.                                    *)
LockIsHeld ==
    /\ lock # NoTxn => tx[lock].pc \in {"locked", "looked", "allocated", "inserted"}
    /\ \A t \in Txns : tx[t].pc \in {"loaded", "locked"} => t \in Locking

LEMMA LockStep == IInv /\ LockIsHeld /\ [Next]_vars => LockIsHeld'
  <1> SUFFICES ASSUME IInv, LockIsHeld, [Next]_vars PROVE LockIsHeld'
    OBVIOUS
  <1> USE DEF LockIsHeld
  <1>1. tx \in [Txns -> TxnRecord] /\ Locking \subseteq Txns /\ lock \in Locking \union {NoTxn}
        /\ NoTxn \notin Txns
    BY TxnsAssumption DEF IInv, TypeOK, TxnRecord, Txns, Locking
  <1> HIDE DEF TxnRecord
  <1>2. ASSUME NEW t \in Txns, NEW x, tx' = [tx EXCEPT ![t] = x],
               x.pc \in {"loaded", "locked"} => t \in Locking,
               \/ lock' = lock /\ (lock = t => x.pc \in {"locked", "looked", "allocated", "inserted"})
               \/ lock' = t /\ x.pc = "locked"
               \/ lock # t /\ lock' = lock
               \/ lock' = NoTxn
        PROVE  LockIsHeld'
    <2>1. \A u \in Txns : tx'[u] = IF u = t THEN x ELSE tx[u]
      BY <1>1, <1>2
    <2> QED BY <1>1, <1>2, <2>1
  <1>3. ASSUME NEW t \in Txns, NEW kind, NEW seq, Finish(t, kind, seq) PROVE LockIsHeld'
    <2> DEFINE x == [tx[t] EXCEPT !.pc = "done"]
    <2>1. tx' = [tx EXCEPT ![t] = x] /\ x.pc = "done"
      BY <1>1, <1>3 DEF Finish, TxnRecord
    <2> HIDE DEF x
    <2> QED BY <1>2, <1>3, <2>1 DEF Finish
  <1>4. ASSUME NEW t \in Txns, NEW pc, GoTo(t, pc), pc \in {"locked", "looked", "inserted"},
               pc = "locked" => t \in Locking,
               lock' = lock \/ (lock' = t /\ pc = "locked")
        PROVE  LockIsHeld'
    <2> DEFINE x == [tx[t] EXCEPT !.pc = pc]
    <2>1. tx' = [tx EXCEPT ![t] = x] /\ x.pc = pc
      BY <1>1, <1>4 DEF GoTo, TxnRecord
    <2> HIDE DEF x
    <2> QED BY <1>2, <1>4, <2>1
  <1>5. ASSUME NEW t \in Txns, NEW key, NEW body, NEW wants, Load(t, key, body, wants)
        PROVE  LockIsHeld'
    <2> DEFINE x == [pc |-> IF t \in Answers THEN "looked" ELSE "loaded",
                     seen |-> status, seenMode |-> mode, key |-> key, body |-> body,
                     asks |-> wants, mode |-> IF wants = "" THEN mode ELSE wants, next |-> 0]
    <2>1. tx' = [tx EXCEPT ![t] = x] /\ x.pc = IF t \in Answers THEN "looked" ELSE "loaded"
      BY <1>5 DEF Load
    <2> HIDE DEF x
    <2>2. lock' = lock /\ tx[t].pc = "idle"
      BY <1>5 DEF Load, At
    <2>3. lock # t
      BY <1>1, <2>2
    <2>4. x.pc \in {"loaded", "locked"} => t \in Locking
      BY <2>1 DEF Txns
    <2> QED BY <1>2, <2>1, <2>2, <2>3, <2>4
  <1>6. ASSUME NEW t \in Txns, Allocate(t) PROVE LockIsHeld'
    <2> DEFINE x == [tx[t] EXCEPT !.pc = "allocated", !.next = MaxSequence + 1]
    <2>1. tx' = [tx EXCEPT ![t] = x] /\ x.pc = "allocated" /\ lock' = lock
      BY <1>1, <1>6 DEF Allocate, TxnRecord
    <2> HIDE DEF x
    <2> QED BY <1>2, <2>1
  <1>7. CASE UNCHANGED vars
    BY <1>7 DEF vars
  <1>8. ASSUME NEW t \in Txns, Begin(t) \/ Step(t) \/ Lose(t) PROVE LockIsHeld'
    <2>1. CASE Begin(t)
      BY <1>5, <2>1 DEF Begin
    <2>2. CASE Lock(t)
      BY <1>4, <2>2 DEF Lock
    <2>3. CASE LookUp(t) \/ Insert(t)
      <3>1. lock' = lock /\ (GoTo(t, "looked") \/ GoTo(t, "inserted"))
        BY <2>3 DEF LookUp, Insert
      <3>2. CASE GoTo(t, "looked")
        <4>1. "looked" \in {"locked", "looked", "inserted"} /\ "looked" # "locked"
          OBVIOUS
        <4> QED BY <1>4, <3>1, <3>2, <4>1
      <3>3. CASE GoTo(t, "inserted")
        <4>1. "inserted" \in {"locked", "looked", "inserted"} /\ "inserted" # "locked"
          OBVIOUS
        <4> QED BY <1>4, <3>1, <3>3, <4>1
      <3> QED BY <3>1, <3>2, <3>3
    <2>4. CASE Allocate(t)
      BY <1>6, <2>4
    <2>5. CASE Patch(t) \/ Archive(t)
      BY <1>3, <2>5 DEF Patch, Archive
    <2>6. CASE PostEnds(t) \/ InsertFails(t)
      BY <1>3, <2>6 DEF PostEnds, InsertFails
    <2>7. CASE Commit(t) \/ Lose(t)
      BY <1>3, <2>7 DEF Commit, Lose
    <2> QED BY <1>8, <2>1, <2>2, <2>3, <2>4, <2>5, <2>6, <2>7 DEF Step
  <1> QED BY <1>7, <1>8 DEF Next

LEMMA NotEveryoneWaits ==
  ASSUME IInv, LockIsHeld, NEW t \in Txns, Open(t)
  PROVE  \E u \in Txns : Open(u) /\ ~ Blocked(u)
  <1>1. ASSUME NEW u \in Txns, At(u, "allocated")
        PROVE  \E w \in Txns : Open(w) /\ ~ Blocked(w)
    <2>1. CASE Waits(u)
      BY <2>1 DEF Waits, Writers, Txns, Locking, Open, Blocked, At
    <2>2. CASE ~ Waits(u)
      BY <1>1, <2>2 DEF Open, Blocked, At
    <2> QED BY <2>1, <2>2
  <1>2. CASE lock = NoTxn
    BY <1>1, <1>2 DEF Open, Blocked, At
  <1>3. CASE lock # NoTxn
    <2>1. lock \in Txns /\ tx[lock].pc \in {"locked", "looked", "allocated", "inserted"}
      BY <1>3 DEF IInv, TypeOK, Txns, Locking, LockIsHeld
    <2> QED BY <1>1, <2>1 DEF Open, Blocked, At
  <1> QED BY <1>2, <1>3

(* Of the transactions that are open, one waits for nobody: the advisory   *)
(* lock and the unique keys are never waited for in a circle, although an  *)
(* answer takes keys without the lock and a post takes them with it.       *)
THEOREM SomebodyIsNotBlocked ==
  Spec => []((\E t \in Txns : Open(t)) => \E u \in Txns : Open(u) /\ ~ Blocked(u))
  <1>1. Init => LockIsHeld
    <2> SUFFICES ASSUME Init PROVE LockIsHeld
      OBVIOUS
    <2>1. lock = NoTxn /\ \A t \in Txns : tx[t] = NotBegun
      BY DEF Init
    <2>2. NotBegun.pc = "idle"
      BY DEF NotBegun
    <2> QED BY <2>1, <2>2 DEF LockIsHeld
  <1>2. IInv /\ LockIsHeld =>
          ((\E t \in Txns : Open(t)) => \E u \in Txns : Open(u) /\ ~ Blocked(u))
    BY NotEveryoneWaits
  <1> QED BY <1>1, <1>2, LockStep, Invariance, PTL DEF Spec
-----------------------------------------------------------------------------
(* The rows implement MessageLog.                                          *)

LEMMA TextsAre == IInv => Texts = [s \in DOMAIN rows |-> Entry(rows[s].by)]
  <1> SUFFICES ASSUME IInv PROVE Texts = [s \in DOMAIN rows |-> Entry(rows[s].by)]
    OBVIOUS
  <1>1. ASSUME NEW s \in DOMAIN rows
        PROVE  (CHOOSE i \in DOMAIN rows : rows[i].seq = s) = s
    BY DEF IInv, SequenceIsCommitOrder
  <1>2. \A s \in DOMAIN rows :
           Entry(rows[CHOOSE i \in DOMAIN rows : rows[i].seq = s].by) = Entry(rows[s].by)
    BY <1>1
  <1> QED BY <1>2 DEF Texts

LEMMA TextsType ==
  IInv => /\ DOMAIN Texts = 1..Len(rows) /\ Len(Texts) = Len(rows) /\ Len(rows) \in Nat
          /\ DOMAIN rows = 1..Len(rows)
          /\ \A i \in DOMAIN rows : Texts[i] = Entry(rows[i].by)
  <1> SUFFICES ASSUME IInv
               PROVE  /\ DOMAIN Texts = 1..Len(rows) /\ Len(Texts) = Len(rows) /\ Len(rows) \in Nat
                      /\ DOMAIN rows = 1..Len(rows)
                      /\ \A i \in DOMAIN rows : Texts[i] = Entry(rows[i].by)
    OBVIOUS
  <1>1. DOMAIN rows = 1..Len(rows) /\ Len(rows) \in Nat
    BY RowsType DEF IInv
  <1>2. Texts \in Seq({Entry(t) : t \in Txns})
    BY <1>1, RowsType, TextsAre DEF IInv
  <1> QED BY <1>1, <1>2, TextsAre

(* A step that inserts no message.                                         *)
LEMMA TextsKept ==
  ASSUME IInv, IInv', NEW t \in Txns, tx[t].pc # "done", rows' = rows,
         \A u \in Txns \ {t} : tx'[u] = tx[u]
  PROVE  Texts' = Texts
  <1>1. \A i \in DOMAIN rows : Entry(rows[i].by)' = Entry(rows[i].by)
    BY OpenHasNoRow DEF Entry
  <1>2. (Texts = [s \in DOMAIN rows |-> Entry(rows[s].by)])'
    BY TextsAre, PTL
  <1> QED BY <1>1, <1>2, TextsAre

LEMMA SilentIsStutter ==
  ASSUME IInv, IInv', NEW t \in Txns, tx[t].pc # "done", rows' = rows,
         \A u \in Txns \ {t} : tx'[u] = tx[u], reply'[t].seq = 0,
         \A u \in Txns \ {t} : reply'[u] = reply[u]
  PROVE  UNCHANGED Log!vars
  <1>1. Texts' = Texts
    BY TextsKept
  <1>2. \A w \in Txns : reply'[w].seq = reply[w].seq
    BY DEF IInv, Unanswered, NoReply
  <1>3. Positions' = Positions
    BY <1>2 DEF Positions, Writers, Txns, Locking
  <1> QED BY <1>1, <1>3 DEF Log!vars

LEMMA ReplayIsReplay ==
  ASSUME IInv, IInv', NEW t \in Writers, tx[t].pc # "done",
         NEW i \in Existing(tx[t].key), Finish(t, "replayed", rows[i].seq), rows' = rows
  PROVE  Log!Replay(t)
  <1>1. i \in DOMAIN rows /\ rows[i].seq = i /\ tx[rows[i].by].key # NoKey
    BY DEF Existing, IInv, SequenceIsCommitOrder
  <1>2. t \in Txns
    BY DEF Txns, Locking, Writers
  <1>3. \A u \in Txns \ {t} : tx'[u] = tx[u] /\ reply'[u] = reply[u]
    BY DEF Finish, IInv, TypeOK
  <1>4. Texts' = Texts
    BY <1>2, <1>3, TextsKept
  <1>5. Texts[i].key # NoKey /\ i \in DOMAIN Texts
    <2>1. Entry(rows[i].by).key = tx[rows[i].by].key
      BY DEF Entry
    <2> QED BY <1>1, <2>1, TextsType
  <1>6. Positions[t] = 0
    BY <1>2 DEF Positions, IInv, Unanswered, NoReply
  <1>7. reply'[t].seq = i
    BY <1>1, <1>2 DEF Finish, IInv, TypeOK
  <1>8. Positions' = [Positions EXCEPT ![t] = i]
    BY <1>2, <1>3, <1>7 DEF Positions, Writers, Txns, Locking
  <1> QED BY <1>4, <1>5, <1>6, <1>8 DEF Log!Replay

LEMMA CommitIsWrite ==
  ASSUME IInv, IInv', NEW t \in Txns, Commit(t)
  PROVE  t \in Writers /\ Log!Write(t)
  <1> USE CommitEffect
  <1>1. /\ (/\ DOMAIN Texts = 1..Len(rows) /\ Len(Texts) = Len(rows)
            /\ \A i \in DOMAIN rows : Texts[i] = Entry(rows[i].by))'
    BY TextsType, PTL
  <1>2. Len(Texts') = Len(Texts) + 1 /\ Len(Texts') = Len(rows) + 1
    BY <1>1, TextsType
  <1>3. Entry(t)' = Entry(t)
    BY DEF Entry
  <1>4. Texts'[Len(Texts')] = Entry(t)
    BY <1>1, <1>2, <1>3
  <1>5. \A i \in DOMAIN rows : Entry(rows[i].by)' = Entry(rows[i].by)
    <2>1. \A i \in DOMAIN rows : rows'[i].by = rows[i].by /\ tx'[rows[i].by] = tx[rows[i].by]
      OBVIOUS
    <2> QED BY ONLY <2>1 DEF Entry
  <1>6. \A i \in DOMAIN Texts : Texts'[i] = Texts[i]
    <2>1. /\ DOMAIN Texts = DOMAIN rows /\ DOMAIN rows \subseteq DOMAIN rows'
          /\ \A i \in DOMAIN rows : Texts[i] = Entry(rows[i].by)
      BY TextsType
    <2>2. \A i \in DOMAIN rows' : Texts'[i] = Entry(rows[i].by)'
      BY <1>1
    <2> QED BY ONLY <1>5, <2>1, <2>2
  <1>7. Existing(tx[t].key) = {}
    BY DEF IInv, Inserted
  <1>8. Entry(t).key = NoKey \/ \A i \in DOMAIN Texts : Texts[i].key # Entry(t).key
    <2>1. \A u \in Txns : Entry(u).key = tx[u].key
      BY DEF Entry
    <2>2. tx[t].key = NoKey \/ \A i \in DOMAIN rows : tx[rows[i].by].key # tx[t].key
      BY <1>7 DEF Existing
    <2> QED BY <2>1, <2>2, TextsType
  <1>9. Positions[t] = 0
    BY DEF Positions, IInv, Unanswered, NoReply
  <1>10. Positions' = [Positions EXCEPT ![t] = Len(Texts')]
    <2>1. \A w \in Writers : w \in Txns
      BY DEF Writers, Txns, Locking
    <2>2. reply'[t].seq = Len(Texts') /\ \A w \in Writers \ {t} : reply'[w] = reply[w]
      BY <1>2, <2>1
    <2> QED BY ONLY <2>2 DEF Positions
  <1> QED BY <1>2, <1>4, <1>6, <1>8, <1>9, <1>10 DEF Log!Write, Log!Fresh

LEMMA LogInit == Init => Log!Init
  <1> SUFFICES ASSUME Init PROVE Log!Init
    OBVIOUS
  <1>1. DOMAIN rows = {}
    BY DEF Init
  <1>2. Texts = <<>>
    BY <1>1 DEF Texts
  <1>3. Positions = [w \in Writers |-> 0]
    BY DEF Init, Positions, NoReply, Writers, Txns, Locking
  <1> QED BY <1>2, <1>3 DEF Log!Init

LEMMA LogStep == IInv /\ IInv' /\ [Next]_vars => [Log!Next]_(Log!vars)
  <1> SUFFICES ASSUME IInv, IInv', [Next]_vars PROVE [Log!Next]_(Log!vars)
    OBVIOUS
  <1>1. CASE UNCHANGED vars
    BY <1>1 DEF vars, Log!vars, Texts, Positions, Entry
  <1>2. ASSUME NEW t \in Txns, Begin(t) \/ Step(t) \/ Lose(t)
        PROVE  [Log!Next]_(Log!vars)
    <2>1. tx \in [Txns -> TxnRecord] /\ reply \in [Txns -> ReplyRecord]
      BY DEF IInv, TypeOK, TxnRecord, ReplyRecord
    <2>2. reply[t].seq = 0 \/ tx[t].pc = "done"
      BY DEF IInv, Unanswered, NoReply
    <2>3. ASSUME tx[t].pc # "done", rows' = rows, reply' = reply,
                 \E x : tx' = [tx EXCEPT ![t] = x]
          PROVE  [Log!Next]_(Log!vars)
      BY <2>1, <2>2, <2>3, SilentIsStutter
    <2>4. ASSUME tx[t].pc # "done", rows' = rows, NEW kind, Finish(t, kind, 0)
          PROVE  [Log!Next]_(Log!vars)
      <3>1. /\ \A u \in Txns \ {t} : tx'[u] = tx[u] /\ reply'[u] = reply[u]
            /\ reply'[t].seq = 0
        BY <2>1, <2>4 DEF Finish
      <3> QED BY <2>4, <3>1, SilentIsStutter
    <2>5. ASSUME tx[t].pc # "done", rows' = rows, t \in Writers, NEW i \in Existing(tx[t].key),
                 Finish(t, "replayed", rows[i].seq)
          PROVE  [Log!Next]_(Log!vars)
      BY <2>5, ReplayIsReplay DEF Log!Next
    <2>6. CASE Commit(t)
      BY <2>6, CommitIsWrite DEF Log!Next
    <2>7. CASE Begin(t) \/ Lock(t) \/ LookUp(t) \/ Allocate(t) \/ Insert(t)
      BY <2>3, <2>7 DEF Begin, Load, Lock, LookUp, Allocate, Insert, At, GoTo, conversation
    <2>8. CASE Patch(t) \/ Archive(t) \/ Lose(t)
      BY <2>4, <2>8 DEF Patch, Archive, Lose, At
    <2>9. CASE PostEnds(t)
      BY <2>4, <2>5, <2>9 DEF PostEnds, At, Writers
    <2>10. CASE InsertFails(t)
      <3>1. tx[t].pc = "allocated" /\ t \in Writers /\ rows' = rows
        BY <2>10 DEF InsertFails, At, IInv, Allocated
      <3> QED BY <2>4, <2>5, <2>10, <3>1 DEF InsertFails
    <2> QED BY <1>2, <2>6, <2>7, <2>8, <2>9, <2>10 DEF Step
  <1> QED BY <1>1, <1>2 DEF Next

(* Whatever requests race, retry and die, the rows of a conversation are   *)
(* an append-only log with one entry for a request id, and a writer is     *)
(* told the position of its entry and is told it once.                     *)
THEOREM ImplementsLog == Spec => LogSpec
  BY LogInit, LogStep, Invariance, PTL DEF Spec, LogSpec, Log!Spec
=============================================================================
