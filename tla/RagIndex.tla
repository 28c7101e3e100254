------------------------------ MODULE RagIndex -------------------------------
(***************************************************************************)
(* The retrieval index of one mode (app/rag): index commands build a       *)
(* generation of documents for the snapshot that is current when they      *)
(* begin, take over the vectors of documents that have not changed, and    *)
(* publish the generation by moving a pointer, all in one transaction; the *)
(* searches of agent runs, which are pinned to a snapshot, read the        *)
(* pointer and then the documents.                                         *)
(*                                                                         *)
(* A generation has the name of the command that built it.  A vector is    *)
(* what it was computed from: a content and a model (with its dimension).  *)
(***************************************************************************)
EXTENDS Naturals, FiniteSets, Sequences

CONSTANTS
    Snapshots,  \* rows of jcc_snapshots
    Documents,  \* document_id: positions in the order of build_snapshot_documents
    Contents,   \* contents of documents, equal if and only if their hashes are
    Models,     \* embedding models
    Commands,   \* index commands
    Readers,    \* agent runs that search
    BatchSize,  \* --batch-size
    Limit,      \* limit of a search
    None        \* no snapshot, generation, model or vector

ASSUME IndexAssumption ==
    /\ Documents \subseteq Nat /\ IsFiniteSet(Documents)
    /\ BatchSize \in Nat \ {0} /\ Limit \in Nat \ {0}
    /\ None \notin Snapshots \union Commands \union Models

VARIABLES
    content,    \* the documents of each snapshot; snapshots do not change
    current,    \* the current snapshot
    gen,        \* committed rag_index_runs with their rag_documents
    pointer,    \* rag_current_indexes.index_id
    published,  \* history: the commands that have published, in order
    job,        \* each command: where it is, what it has read and built
    reader      \* each agent run: its snapshot, the pointer read, what it found

database == <<gen, pointer, published>>
vars == <<content, current, gen, pointer, published, job, reader>>

Vector == [of : Contents, by : Models]
Row == [content : Contents, vector : Vector \union {None}, batch : Nat]

NoRows == [d \in {} |-> None]
NotBegun == [pc |-> "idle", snapshot |-> None, model |-> None, previous |-> None,
             base |-> 0, rows |-> NoRows, todo |-> {}, batches |-> 0]
NotPublished == [status |-> "none", snapshot |-> None, model |-> None, rows |-> NoRows]
NotPinned == [pc |-> "idle", snapshot |-> None, index |-> None, found |-> {}]

At(i, pc) == job[i].pc = pc
-----------------------------------------------------------------------------
(* index_rag and index_snapshot.                                           *)

(* build_snapshot_documents: the rows of a snapshot never change.          *)
Built(s) == content[s]

(* The current snapshot.                                                   *)
Begin(i, model) ==
    /\ At(i, "idle")
    /\ job' = [job EXCEPT ![i].pc = "begun", ![i].snapshot = current, ![i].model = model]
    /\ UNCHANGED <<content, current, database, reader>>

(* Mutant: a document keeps its vector while it keeps its id.              *)
ReusableBug(old, c, model) == old.vector # None /\ old.vector.by = model

Reusable(old, c, model) ==
    /\ old.content = c
    /\ old.vector # None
    /\ old.vector.by = model

(* The pointer and its documents, and the rows made from both: a row that  *)
(* is not given an old vector is pending.                                  *)
ReadPointer(i) ==
    /\ At(i, "begun")
    /\ LET of == Built(job[i].snapshot)
           old == IF pointer = None THEN NoRows ELSE gen[pointer].rows
           keeps == {d \in DOMAIN old \intersect DOMAIN of :
                        Reusable(old[d], of[d], job[i].model)}
       IN  job' = [job EXCEPT
               ![i].pc = "embedding", ![i].previous = pointer, ![i].base = Len(published),
               ![i].rows = [d \in DOMAIN of |->
                   [content |-> of[d], batch |-> 0,
                    vector |-> IF d \in keeps THEN old[d].vector ELSE None]],
               ![i].todo = DOMAIN of \ keeps]
    /\ UNCHANGED <<content, current, database, reader>>

Batch(i) == {d \in job[i].todo : Cardinality({e \in job[i].todo : e < d}) < BatchSize}

(* What of a batch is left without a vector: nothing if the provider takes *)
(* the batch, any of it if it does not and is sent the documents one by    *)
(* one.                                                                    *)
Failures(i) == SUBSET Batch(i)

Embed(i) ==
    /\ At(i, "embedding")
    /\ job[i].todo # {}
    /\ \E failed \in Failures(i) :
           job' = [job EXCEPT
               ![i].todo = @ \ Batch(i), ![i].batches = @ + 1,
               ![i].rows = [d \in DOMAIN @ |->
                   IF d \in Batch(i) \ failed
                     THEN [content |-> @[d].content, batch |-> job[i].batches + 1,
                           vector |-> [of |-> @[d].content, by |-> job[i].model]]
                     ELSE @[d]]]
    /\ UNCHANGED <<content, current, database, reader>>

Complete(i) == \A d \in DOMAIN job[i].rows : job[i].rows[d].vector # None

(* Mutant: nothing is retired.                                             *)
RetireBug(i, g) == g

(* The generation the command found current is retired.                    *)
Retire(i, g) ==
    IF job[i].previous = None THEN g ELSE [g EXCEPT ![job[i].previous].status = "retired"]

Ends(i, pc) == job' = [job EXCEPT ![i] = [NotBegun EXCEPT !.pc = pc, !.base = job[i].base]]

(* The commit.  The pointer's row is updated whatever it holds by now; a   *)
(* command that found none inserts it, which the primary key may refuse.   *)
Publish(i) ==
    /\ At(i, "embedding")
    /\ job[i].todo = {} /\ Complete(i)
    /\ job[i].previous = None => pointer = None
    /\ LET new == [status |-> "active", snapshot |-> job[i].snapshot,
                   model |-> job[i].model, rows |-> job[i].rows]
       IN  gen' = Retire(i, [gen EXCEPT ![i] = new])
    /\ pointer' = i
    /\ published' = Append(published, i)
    /\ Ends(i, "done")
    /\ UNCHANGED <<content, current, reader>>

(* A generation that is not complete, or whose pointer is refused, is      *)
(* rolled back, its rag_index_runs row with it: the failure path looks for *)
(* a row that is gone.                                                     *)
Fail(i) ==
    /\ At(i, "embedding")
    /\ job[i].todo = {}
    /\ ~Complete(i) \/ (job[i].previous = None /\ pointer # None)
    /\ Ends(i, "failed")
    /\ UNCHANGED <<content, current, database, reader>>

(* The process ends, or its connection: a rollback.                        *)
Kill(i) ==
    /\ job[i].pc \in {"begun", "embedding"}
    /\ Ends(i, "killed")
    /\ UNCHANGED <<content, current, database, reader>>

(* import_snapshot and switch_current_snapshot (SnapshotSync).             *)
MoveCurrent ==
    /\ \E s \in Snapshots \ {current} : current' = s
    /\ UNCHANGED <<content, database, job, reader>>
-----------------------------------------------------------------------------
(* Agent runs.  _resolve_snapshot pins the snapshot for all searches.      *)
Pin(r) ==
    /\ reader[r].pc = "idle"
    /\ reader' = [reader EXCEPT ![r].pc = "pinned", ![r].snapshot = current]
    /\ UNCHANGED <<content, current, database, job>>

(* search_documents: the pointer, ...                                      *)
SearchPointer(r) ==
    /\ reader[r].pc = "pinned"
    /\ reader' = [reader EXCEPT ![r].pc = "searching", ![r].index = pointer]
    /\ UNCHANGED <<content, current, database, job>>

(* Mutant: whatever the pointer names is searched.                         *)
HitsBug(r) == IF reader[r].index = None THEN NoRows ELSE gen[reader[r].index].rows

(* ... the documents of that generation that are of the pinned snapshot,   *)
(* and of these the ones updated last.                                     *)
Hits(r) ==
    IF reader[r].index = None \/ gen[reader[r].index].snapshot # reader[r].snapshot THEN NoRows
    ELSE gen[reader[r].index].rows

Least(a, b) == IF a < b THEN a ELSE b

Newest(rows, n) ==
    {f \in SUBSET DOMAIN rows :
        /\ Cardinality(f) = Least(n, Cardinality(DOMAIN rows))
        /\ \A d \in f, e \in DOMAIN rows \ f : rows[d].batch >= rows[e].batch}

SearchRows(r) ==
    /\ reader[r].pc = "searching"
    /\ LET rows == Hits(r) IN
       \E f \in Newest(rows, Limit) :
           reader' = [reader EXCEPT ![r].pc = "pinned",
                          ![r].found = {<<d, rows[d].content>> : d \in f}]
    /\ UNCHANGED <<content, current, database, job>>
-----------------------------------------------------------------------------
Init ==
    /\ content \in [Snapshots -> [Documents -> Contents]]
    /\ current \in Snapshots
    /\ gen = [i \in Commands |-> NotPublished]
    /\ pointer = None
    /\ published = <<>>
    /\ job = [i \in Commands |-> NotBegun]
    /\ reader = [r \in Readers |-> NotPinned]

Index(i) ==
    \/ \E model \in Models : Begin(i, model)
    \/ ReadPointer(i) \/ Embed(i) \/ Publish(i) \/ Fail(i) \/ Kill(i)

Search(r) == Pin(r) \/ SearchPointer(r) \/ SearchRows(r)

Next ==
    \/ \E i \in Commands : Index(i)
    \/ \E r \in Readers : Search(r)
    \/ MoveCurrent

Spec == Init /\ [][Next]_vars
-----------------------------------------------------------------------------
(* Properties.                                                             *)

Rows == [Documents -> Row] \union {NoRows}

TypeOK ==
    /\ content \in [Snapshots -> [Documents -> Contents]]
    /\ current \in Snapshots
    /\ gen \in [Commands -> [status : {"none", "active", "retired"},
                             snapshot : Snapshots \union {None},
                             model : Models \union {None}, rows : Rows]]
    /\ pointer \in Commands \union {None}
    /\ published \in Seq(Commands)
    /\ job \in [Commands -> [pc : {"idle", "begun", "embedding", "done", "failed", "killed"},
                             snapshot : Snapshots \union {None}, model : Models \union {None},
                             previous : Commands \union {None}, base : Nat, rows : Rows,
                             todo : SUBSET Documents, batches : Nat]]
    /\ reader \in [Readers -> [pc : {"idle", "pinned", "searching"},
                               snapshot : Snapshots \union {None},
                               index : Commands \union {None},
                               found : SUBSET (Documents \X Contents)]]

Generations == {i \in Commands : gen[i].status # "none"}

(* A generation that others can see has every document of its snapshot,    *)
(* with that snapshot's content and a vector of that content by the        *)
(* generation's model, however long the chain of generations is through    *)
(* which the vector was taken over and whichever models they had.          *)
GenerationIsComplete == \A g \in Generations :
    gen[g].rows = [d \in Documents |->
        [content |-> content[gen[g].snapshot][d], batch |-> gen[g].rows[d].batch,
         vector |-> [of |-> content[gen[g].snapshot][d], by |-> gen[g].model]]]

(* The pointer names an active generation, and another one stays active    *)
(* behind it only when a command that had read the pointer before it was   *)
(* published has published after it: commands retire what they found       *)
(* current some time ago and move the pointer regardless, and those that   *)
(* do not overlap leave one active generation.                             *)
OneActiveUnlessOverlapping ==
    /\ IF pointer = None THEN Generations = {} ELSE gen[pointer].status = "active"
    /\ \A n \in DOMAIN published : gen[published[n]].status = "active" =>
          \/ pointer = published[n]
          \/ \E m \in n + 1..Len(published) : job[published[m]].base < n

(* What a search finds is of the pinned snapshot and of one generation,    *)
(* and is nothing or as much as the limit allows, although the pointer and *)
(* the current snapshot may move between the two reads and between the     *)
(* searches.                                                               *)
SearchIsOfSnapshot == \A r \in Readers :
    LET found == reader[r].found IN
    /\ \A h \in found : h[2] = content[reader[r].snapshot][h[1]]
    /\ found # {} => Cardinality(found) = Least(Limit, Cardinality(Documents))
=============================================================================
