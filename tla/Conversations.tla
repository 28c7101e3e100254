---------------------------- MODULE Conversations ----------------------------
(***************************************************************************)
(* The rows of one conversation and the transactions that write them on    *)
(* PostgreSQL (app/conversations/service.py and repository.py): messages   *)
(* posted, title and strategy patched, the conversation archived, and the  *)
(* assistant messages that _complete inserts from a worker thread.         *)
(*                                                                         *)
(* A step is one statement that other transactions can observe or wait     *)
(* for; each statement reads what is committed (READ COMMITTED).  Posts,   *)
(* patches and archives load the conversation first and take its advisory  *)
(* lock afterwards; the ORM does not load the row again.  Answers take no  *)
(* advisory lock.                                                          *)
(***************************************************************************)
EXTENDS Integers, Sequences, FiniteSets

CONSTANTS
    Posts,     \* POST .../messages
    Patches,   \* PATCH .../conversations/{id}
    Archives,  \* POST .../archive
    Answers,   \* calls of _complete
    Keys,      \* client_request_id values
    Bodies,    \* message contents
    NoKey,     \* no client_request_id
    NoTxn      \* nobody

Locking == Posts \union Patches \union Archives
Writers == Posts \union Answers
Txns == Locking \union Answers

ASSUME TxnsAssumption ==
    /\ IsFiniteSet(Txns) /\ NoTxn \notin Txns /\ NoKey \notin Keys
    /\ Posts \cap (Patches \union Archives \union Answers) = {}
    /\ Patches \cap (Archives \union Answers) = {}
    /\ Archives \cap Answers = {}

Modes == {"gamble", "operation"}

VARIABLES
    status,   \* agent_conversations.status
    mode,     \* agent_conversations.strategy_mode
    stamps,   \* how often archived_at was written
    rows,     \* committed agent_messages, in commit order: sequence, writer
    lock,     \* holder of the advisory lock
    tx,       \* each transaction: where it is, what it loaded, its request
    reply     \* how each transaction ended

conversation == <<status, mode, stamps>>
vars == <<status, mode, stamps, rows, lock, tx, reply>>

PCs == {"idle", "loaded", "locked", "looked", "allocated", "inserted", "done"}
Replies == {"none", "created", "replayed", "changed", "archived", "conflict",
            "error", "lost"}

NotBegun == [pc |-> "idle", seen |-> "active", seenMode |-> "gamble",
             key |-> NoKey, body |-> NoKey, asks |-> "", mode |-> "gamble", next |-> 0]
NoReply == [kind |-> "none", seq |-> 0]

At(t, pc) == tx[t].pc = pc
GoTo(t, pc) == tx' = [tx EXCEPT ![t].pc = pc]

(* Mutant: the advisory lock outlives the transaction.                     *)
FinishBug(t, kind, seq) ==
    /\ tx' = [tx EXCEPT ![t].pc = "done"]
    /\ reply' = [reply EXCEPT ![t] = [kind |-> kind, seq |-> seq]]
    /\ UNCHANGED lock

(* The transaction commits or rolls back, which releases its locks.        *)
Finish(t, kind, seq) ==
    /\ tx' = [tx EXCEPT ![t].pc = "done"]
    /\ reply' = [reply EXCEPT ![t] = [kind |-> kind, seq |-> seq]]
    /\ lock' = IF lock = t THEN NoTxn ELSE lock
-----------------------------------------------------------------------------
(* get_conversation loads the row; a message without strategy_mode gets    *)
(* that of the loaded row, and a patch may leave the mode alone ("").      *)
Load(t, key, body, wants) ==
    /\ At(t, "idle")
    /\ tx' = [tx EXCEPT ![t] =
           [pc |-> IF t \in Answers THEN "looked" ELSE "loaded",
            seen |-> status, seenMode |-> mode, key |-> key, body |-> body,
            asks |-> wants, mode |-> IF wants = "" THEN mode ELSE wants, next |-> 0]]
    /\ UNCHANGED <<conversation, rows, lock, reply>>

Lock(t) ==
    /\ t \in Locking
    /\ At(t, "loaded")
    /\ lock = NoTxn
    /\ lock' = t
    /\ GoTo(t, "locked")
    /\ UNCHANGED <<conversation, rows, reply>>

(* update_conversation and archive_conversation.  The UPDATE writes only   *)
(* what differs from the loaded row.                                       *)
Patch(t) ==
    /\ t \in Patches
    /\ At(t, "locked")
    /\ IF tx[t].seen = "archived"
         THEN Finish(t, "archived", 0) /\ UNCHANGED mode
         ELSE /\ Finish(t, "changed", 0)
              /\ mode' = IF tx[t].mode = tx[t].seenMode THEN mode ELSE tx[t].mode
    /\ UNCHANGED <<status, stamps, rows>>

Archive(t) ==
    /\ t \in Archives
    /\ At(t, "locked")
    /\ IF tx[t].seen = "archived"
         THEN UNCHANGED <<status, stamps>>
         ELSE status' = "archived" /\ stamps' = stamps + 1
    /\ Finish(t, "changed", 0)
    /\ UNCHANGED <<mode, rows>>
-----------------------------------------------------------------------------
(* create_message.                                                         *)

(* Mutant: only the latest message is compared with the request id.        *)
ExistingBug(key) ==
    {i \in DOMAIN rows : i = Len(rows) /\ key # NoKey /\ tx[rows[i].by].key = key}

(* get_message_by_request_id, and _same_request of what it finds.          *)
Existing(key) == {i \in DOMAIN rows : key # NoKey /\ tx[rows[i].by].key = key}

SameRequest(t, i) ==
    LET u == rows[i].by IN tx[u].body = tx[t].body /\ tx[u].mode = tx[t].mode

LookUp(t) ==
    /\ t \in Posts
    /\ At(t, "locked")
    /\ tx[t].seen = "active"
    /\ Existing(tx[t].key) = {}
    /\ GoTo(t, "looked")
    /\ UNCHANGED <<conversation, rows, lock, reply>>

(* Mutant: the request id is looked up and its message returned unchecked. *)
PostEndsBug(t) ==
    /\ t \in Posts
    /\ At(t, "locked")
    /\ \/ tx[t].seen = "archived" /\ Finish(t, "archived", 0)
       \/ /\ tx[t].seen = "active"
          /\ \E i \in Existing(tx[t].key) : Finish(t, "replayed", rows[i].seq)
    /\ UNCHANGED <<conversation, rows>>

(* It raises ConversationArchived, or finds the request id: a message with *)
(* another content or mode is an IdempotencyConflict.                      *)
PostEnds(t) ==
    /\ t \in Posts
    /\ At(t, "locked")
    /\ \/ tx[t].seen = "archived" /\ Finish(t, "archived", 0)
       \/ /\ tx[t].seen = "active"
          /\ \E i \in Existing(tx[t].key) :
                IF SameRequest(t, i) THEN Finish(t, "replayed", rows[i].seq)
                                     ELSE Finish(t, "conflict", 0)
    /\ UNCHANGED <<conversation, rows>>

(* coalesce(max(sequence), 0)                                              *)
Numbers == {rows[i].seq : i \in DOMAIN rows}
MaxSequence == CHOOSE s \in Numbers \union {0} : \A r \in Numbers : r <= s

(* The SELECT of create_message and create_assistant_message ...           *)
Allocate(t) ==
    /\ At(t, "looked")
    /\ tx' = [tx EXCEPT ![t].pc = "allocated", ![t].next = MaxSequence + 1]
    /\ UNCHANGED <<conversation, rows, lock, reply>>

(* ... and their INSERT.  An INSERT waits for the transaction that has     *)
(* inserted the same sequence number or request id and not ended.          *)
Clash(t, u) ==
    \/ tx[u].next = tx[t].next
    \/ tx[t].key # NoKey /\ tx[u].key = tx[t].key

Taken(t) == tx[t].next \in Numbers \/ Existing(tx[t].key) # {}

Waits(t) == \E u \in Writers \ {t} : At(u, "inserted") /\ Clash(t, u)

(* Mutant: no unique constraints.                                          *)
InsertBug(t) ==
    /\ At(t, "allocated")
    /\ GoTo(t, "inserted")
    /\ UNCHANGED <<conversation, rows, lock, reply>>

Insert(t) ==
    /\ At(t, "allocated")
    /\ ~Waits(t)
    /\ ~Taken(t)
    /\ GoTo(t, "inserted")
    /\ UNCHANGED <<conversation, rows, lock, reply>>

(* A unique constraint fails: create_message resolves it when a message    *)
(* with its request id is there now, _complete and the rest roll back.     *)
InsertFails(t) ==
    /\ At(t, "allocated")
    /\ ~Waits(t)
    /\ Taken(t)
    /\ LET same == {i \in Existing(tx[t].key) : SameRequest(t, i)}
       IN  \/ \E i \in same : Finish(t, "replayed", rows[i].seq)
           \/ same = {} /\ Finish(t, "error", 0)
    /\ UNCHANGED <<conversation, rows>>

Commit(t) ==
    /\ At(t, "inserted")
    /\ rows' = Append(rows, [seq |-> tx[t].next, by |-> t])
    /\ Finish(t, "created", tx[t].next)
    /\ UNCHANGED conversation

(* The process or its connection dies before the commit: a rollback.       *)
Lose(t) ==
    /\ tx[t].pc \notin {"idle", "done"}
    /\ Finish(t, "lost", 0)
    /\ UNCHANGED <<conversation, rows>>
-----------------------------------------------------------------------------
Init ==
    /\ status = "active"
    /\ mode = "gamble"
    /\ stamps = 0
    /\ rows = <<>>
    /\ lock = NoTxn
    /\ tx = [t \in Txns |-> NotBegun]
    /\ reply = [t \in Txns |-> NoReply]

Begin(t) ==
    \/ /\ t \in Posts
       /\ \E key \in Keys \union {NoKey}, body \in Bodies, wants \in Modes \union {""} :
              Load(t, key, body, wants)
    \/ t \in Patches /\ \E wants \in Modes \union {""} : Load(t, NoKey, NoKey, wants)
    \/ t \in Archives \union Answers /\ Load(t, NoKey, NoKey, "")

Step(t) ==
    \/ Lock(t) \/ Patch(t) \/ Archive(t) \/ LookUp(t) \/ PostEnds(t)
    \/ Allocate(t) \/ Insert(t) \/ InsertFails(t) \/ Commit(t)

Next == \E t \in Txns : Begin(t) \/ Step(t) \/ Lose(t)

Spec == Init /\ [][Next]_vars

-----------------------------------------------------------------------------
(* Properties.                                                             *)

TypeOK ==
    /\ status \in {"active", "archived"}
    /\ mode \in Modes
    /\ stamps \in Nat
    /\ rows \in Seq([seq : Nat \ {0}, by : Writers])
    /\ lock \in Locking \union {NoTxn}
    /\ tx \in [Txns -> [pc : PCs, seen : {"active", "archived"}, seenMode : Modes,
                        key : Keys \union {NoKey}, body : Bodies \union {NoKey},
                        asks : Modes \union {""}, mode : Modes, next : Nat]]
    /\ reply \in [Txns -> [kind : Replies, seq : Nat]]

(* Messages become visible in the order of their sequence numbers, without *)
(* a gap, although answers take no lock: a client that pages by sequence   *)
(* never finds a message appear before one it has read.                    *)
SequenceIsCommitOrder == \A i \in DOMAIN rows : rows[i].seq = i

(* Whoever is told that its message exists is told the number of a message *)
(* with its own content and mode, and everyone with its id the same one.   *)
ReplyIsTheMessage == \A t \in Posts :
    reply[t].kind \in {"created", "replayed"} =>
        /\ reply[t].seq \in DOMAIN rows
        /\ LET u == rows[reply[t].seq].by IN
              tx[u].key = tx[t].key /\ tx[u].body = tx[t].body /\ tx[u].mode = tx[t].mode

(* Nobody is left waiting for the advisory lock, or for a unique key of a  *)
(* transaction that has not ended: while one has not ended, one can go on, *)
(* and no transaction takes more than a few steps.                         *)
NobodyIsStuck ==
    (\E t \in Txns : tx[t].pc \notin {"idle", "done"}) => ENABLED (\E t \in Txns : Step(t))

(* The rows implement an append-only log with one entry for a request id,  *)
(* whatever requests race.                                                 *)
Entry(t) == [key |-> tx[t].key, body |-> tx[t].body, mode |-> tx[t].mode]

Texts == [s \in DOMAIN rows |-> Entry(rows[CHOOSE i \in DOMAIN rows : rows[i].seq = s].by)]
Positions == [t \in Writers |-> reply[t].seq]

Log == INSTANCE MessageLog WITH log <- Texts, position <- Positions
LogSpec == Log!Spec
=============================================================================
