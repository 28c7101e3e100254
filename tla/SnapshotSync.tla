---------------------------- MODULE SnapshotSync ----------------------------
(***************************************************************************)
(* Official data on its way into the API: sync commands                    *)
(* (scripts/sync_jcc_data.py) download a version into an immutable raw     *)
(* directory under a file lock, import the directory into the database     *)
(* under an advisory lock (app/jcc_data/repository.py), and report what is *)
(* new to main; operators switch the current snapshot; requests read it.   *)
(*                                                                         *)
(* A snapshot row stands for itself and its entity rows: one transaction   *)
(* inserts all of them and nothing updates them.  A download may return    *)
(* any content, one mixed from two moments of the origin included.         *)
(***************************************************************************)
EXTENDS Naturals, Sequences, FiniteSetsExt

CONSTANTS
    Syncs,     \* runs of sync-jcc-data
    Switches,  \* calls of switch_current_snapshot
    Readers,   \* GET /jcc/...
    Versions,  \* <version>-<season>
    Contents,  \* canonical hashes of the payloads
    Invalid,   \* contents that build_structured_snapshot rejects
    NoOne

Writers == Syncs \union Switches
Procs == Writers \union Readers

ASSUME ProcsAssumption ==
    /\ NoOne \notin Procs
    /\ Syncs \cap (Switches \union Readers) = {} /\ Switches \cap Readers = {}
    /\ Invalid \subseteq Contents

VARIABLES
    raw,      \* published directories: version, revision, content
    flock,    \* holder of .sync.lock
    snaps,    \* jcc_snapshots, by id: the directories imported
    current,  \* jcc_current_snapshots.snapshot_id, 0 without a row
    dblock,   \* holder of the advisory lock of the mode
    audits,   \* snapshot ids reported to main, in order
    proc,     \* each process: where it is and what it has read
    ended     \* how each process ended; "conflict" is a name or key that was taken

vars == <<raw, flock, snaps, current, dblock, audits, proc, ended>>
files == <<raw, flock>>
database == <<snaps, current, dblock>>

Ids == DOMAIN snaps

PCs == {"idle", "locked", "discovered", "downloaded", "synced", "released",
        "begun", "committed", "pointed", "done"}
Endings == {"none", "succeeded", "failed", "conflict"}
Successes == {"updated", "matched", "skipped"}

NotBegun == [pc |-> "idle", force |-> FALSE, seen |-> {}, pick |-> <<>>,
             pointer |-> 0, match |-> 0, status |-> "none", got |-> <<>>]

At(p, pc) == proc[p].pc = pc
GoTo(p, pc) == proc' = [proc EXCEPT ![p].pc = pc]

(* A process that has ended remembers nothing; what it imported is kept    *)
(* for the properties.                                                     *)
Gone(local) ==
    IF local.status = "updated"
      THEN [NotBegun EXCEPT !.pc = "done", !.status = "updated", !.match = local.match]
      ELSE [NotBegun EXCEPT !.pc = "done"]

(* Mutant: the transaction of a process that ends stays open.              *)
EndBug(p, how) ==
    /\ proc' = [proc EXCEPT ![p] = Gone(@)]
    /\ ended' = [ended EXCEPT ![p] = how]
    /\ flock' = IF flock = p THEN NoOne ELSE flock
    /\ UNCHANGED dblock

(* A process ends; the system and the database release its locks.          *)
End(p, how) ==
    /\ proc' = [proc EXCEPT ![p] = Gone(@)]
    /\ ended' = [ended EXCEPT ![p] = how]
    /\ flock' = IF flock = p THEN NoOne ELSE flock
    /\ dblock' = IF dblock = p THEN NoOne ELSE dblock
-----------------------------------------------------------------------------
(* sync_latest                                                             *)

(* Mutant: the lock file is opened and not locked.                         *)
AcquireBug(s) ==
    /\ s \in Syncs
    /\ At(s, "idle")
    /\ \E force \in BOOLEAN : proc' = [proc EXCEPT ![s].pc = "locked", ![s].force = force]
    /\ UNCHANGED <<files, database, audits, ended>>

(* acquire_lock does not wait: LockUnavailable ends the command with 0.    *)
Acquire(s) ==
    /\ s \in Syncs
    /\ At(s, "idle")
    /\ \/ /\ flock = NoOne
          /\ flock' = s
          /\ \E force \in BOOLEAN :
                proc' = [proc EXCEPT ![s].pc = "locked", ![s].force = force]
          /\ UNCHANGED <<dblock, ended>>
       \/ flock # NoOne /\ End(s, "succeeded")
    /\ UNCHANGED <<raw, snaps, current, audits>>

Newest(dirs) == CHOOSE d \in dirs : \A e \in dirs : e.rev <= d.rev

(* The origin names the current version; without --force-refresh its       *)
(* newest directory is reused.                                             *)
Discover(s) ==
    /\ At(s, "locked")
    /\ \E v \in Versions :
          LET existing == {d \in raw : d.version = v} IN
          proc' = [proc EXCEPT ![s] =
              IF existing # {} /\ ~@.force
                THEN [@ EXCEPT !.pc = "synced", !.pick = Newest(existing)]
                ELSE [@ EXCEPT !.pc = "discovered", !.force = TRUE, !.seen = existing,
                               !.pick = [version |-> v]]]
    /\ UNCHANGED <<files, database, audits, ended>>

NextRevision(dirs) == Max({d.rev : d \in dirs} \union {0}) + 1

(* Mutant: the content is compared with that of the newest revision only.  *)
DownloadBug(s) ==
    /\ At(s, "discovered")
    /\ \E c \in Contents :
          LET seen == proc[s].seen
              same == {d \in seen : d.hash = c /\ d = Newest(seen)}
          IN  proc' = [proc EXCEPT ![s] =
                 IF same # {}
                   THEN [@ EXCEPT !.pc = "synced", !.seen = {}, !.pick = CHOOSE d \in same : TRUE]
                   ELSE [@ EXCEPT !.pc = "downloaded", !.seen = {},
                            !.pick = [version |-> proc[s].pick.version, rev |-> NextRevision(seen),
                                      hash |-> c]]]
    /\ UNCHANGED <<files, database, audits, ended>>

(* Content that some revision has is that revision's.                      *)
Download(s) ==
    /\ At(s, "discovered")
    /\ \E c \in Contents :
          LET seen == proc[s].seen
              same == {d \in seen : d.hash = c}
          IN  proc' = [proc EXCEPT ![s] =
                 IF same # {}
                   THEN [@ EXCEPT !.pc = "synced", !.seen = {}, !.pick = CHOOSE d \in same : TRUE]
                   ELSE [@ EXCEPT !.pc = "downloaded", !.seen = {},
                            !.pick = [version |-> proc[s].pick.version, rev |-> NextRevision(seen),
                                      hash |-> c]]]
    /\ UNCHANGED <<files, database, audits, ended>>

Target(d) == {e \in raw : e.version = d.version /\ e.rev = d.rev}

(* _publish_snapshot renames the temporary directory, unless its name is   *)
(* taken.                                                                  *)
Publish(s) ==
    /\ At(s, "downloaded")
    /\ \/ /\ Target(proc[s].pick) = {}
          /\ raw' = raw \union {proc[s].pick}
          /\ GoTo(s, "synced")
          /\ UNCHANGED <<flock, dblock, ended>>
       \/ /\ Target(proc[s].pick) # {}
          /\ End(s, "conflict")
          /\ UNCHANGED raw
    /\ UNCHANGED <<snaps, current, audits>>

Release(s) ==
    /\ At(s, "synced")
    /\ flock' = IF flock = s THEN NoOne ELSE flock
    /\ GoTo(s, "released")
    /\ UNCHANGED <<raw, database, audits, ended>>
-----------------------------------------------------------------------------
(* import_snapshot                                                         *)

Imported(d) == {i \in Ids : snaps[i].version = d.version /\ snaps[i].hash = d.hash}

(* The directory is parsed first; the transaction takes the lock, reads    *)
(* the pointer and looks for a snapshot with this content.                 *)
ImportBegin(s) ==
    /\ At(s, "released")
    /\ \/ /\ proc[s].pick.hash \notin Invalid
          /\ dblock = NoOne
          /\ dblock' = s
          /\ proc' = [proc EXCEPT ![s].pc = "begun", ![s].pointer = current,
                                  ![s].match = Max(Imported(proc[s].pick) \union {0})]
          /\ UNCHANGED <<flock, ended>>
       \/ proc[s].pick.hash \in Invalid /\ End(s, "failed")
    /\ UNCHANGED <<raw, snaps, current, audits>>

(* A pointer that was absent is inserted, and a second insert fails; so    *)
(* does a second snapshot with this revision or content.                   *)
NewRow(d) == \A i \in Ids : snaps[i].version = d.version =>
                 snaps[i].rev # d.rev /\ snaps[i].hash # d.hash

Ready(s) ==
    /\ proc[s].pointer = 0 => current = 0
    /\ proc[s].match = 0 => NewRow(proc[s].pick)

(* What the command knows of its import when it comes to the report.       *)
Committed(status, id) ==
    [NotBegun EXCEPT !.pc = "committed", !.status = status, !.match = id]

(* "skipped" when the snapshot is current, "matched" when it is there and   *)
(* becomes current, "updated" when it is new.                              *)
Import(s) ==
    LET match == proc[s].match IN
    \/ /\ match # 0 /\ proc[s].pointer = match
       /\ proc' = [proc EXCEPT ![s] = Committed("skipped", 0)]
       /\ UNCHANGED <<snaps, current>>
    \/ /\ match # 0 /\ proc[s].pointer # match
       /\ current' = match
       /\ proc' = [proc EXCEPT ![s] = Committed("matched", 0)]
       /\ UNCHANGED snaps
    \/ /\ match = 0
       /\ snaps' = Append(snaps, proc[s].pick)
       /\ current' = Len(snaps) + 1
       /\ proc' = [proc EXCEPT ![s] = Committed("updated", Len(snaps) + 1)]

(* The transaction commits, or a constraint fails and it rolls back.       *)
ImportCommit(s) ==
    /\ s \in Syncs
    /\ At(s, "begun")
    /\ \/ /\ Ready(s)
          /\ Import(s)
          /\ dblock' = IF dblock = s THEN NoOne ELSE dblock
          /\ UNCHANGED <<flock, ended>>
       \/ /\ ~Ready(s)
          /\ End(s, "conflict")
          /\ UNCHANGED <<snaps, current>>
    /\ UNCHANGED <<raw, audits>>

(* Mutant: whatever was imported is reported.                              *)
ReportBug(s) ==
    /\ At(s, "committed")
    /\ audits' = Append(audits, proc[s].match)
    /\ End(s, "succeeded")
    /\ UNCHANGED <<raw, snaps, current>>

(* main: a new snapshot is reported once, and an answer that does not come *)
(* leaves open whether main has recorded it.                               *)
Report(s) ==
    /\ At(s, "committed")
    /\ \/ /\ proc[s].status # "updated"
          /\ End(s, "succeeded")
          /\ UNCHANGED audits
       \/ /\ proc[s].status = "updated"
          /\ \E how \in {"succeeded", "failed"} : End(s, how)
          /\ audits' = Append(audits, proc[s].match)
       \/ /\ proc[s].status = "updated"
          /\ End(s, "failed")
          /\ UNCHANGED audits
    /\ UNCHANGED <<raw, snaps, current>>
-----------------------------------------------------------------------------
(* Operators and readers.                                                  *)

(* switch_current_snapshot of a snapshot that exists; an id that does not  *)
(* is refused without effect.                                              *)
SwitchBegin(o) ==
    /\ o \in Switches
    /\ At(o, "idle")
    /\ dblock = NoOne
    /\ dblock' = o
    /\ \E id \in Ids : proc' = [proc EXCEPT ![o].pc = "begun", ![o].match = id]
    /\ UNCHANGED <<files, snaps, current, audits, ended>>

SwitchCommit(o) ==
    /\ o \in Switches
    /\ At(o, "begun")
    /\ current' = proc[o].match
    /\ End(o, "succeeded")
    /\ UNCHANGED <<raw, snaps, audits>>

(* A request reads the pointer, and 503 is its answer when there is none;  *)
ReadPointer(r) ==
    /\ r \in Readers
    /\ At(r, "idle")
    /\ \/ /\ current = 0 /\ End(r, "failed")
       \/ /\ current # 0
          /\ proc' = [proc EXCEPT ![r].pc = "pointed", ![r].pointer = current]
          /\ UNCHANGED <<flock, dblock, ended>>
    /\ UNCHANGED <<raw, snaps, current, audits>>

(* Mutant: each statement follows the pointer again.                       *)
ReadRowsBug(r) ==
    /\ At(r, "pointed")
    /\ proc' = [proc EXCEPT ![r].got = Append(@, snaps[current]),
                            ![r].pc = IF Len(proc[r].got) = 1 THEN "done" ELSE "pointed"]
    /\ ended' = [ended EXCEPT ![r] = IF Len(proc[r].got) = 1 THEN "succeeded" ELSE "none"]
    /\ UNCHANGED <<files, database, audits>>

(* then the snapshot and its rows, a statement each.                       *)
ReadRows(r) ==
    /\ At(r, "pointed")
    /\ LET last == Len(proc[r].got) = 1 IN
       /\ proc' = [proc EXCEPT ![r].got = Append(@, snaps[proc[r].pointer]),
                               ![r].pc = IF last THEN "done" ELSE "pointed"]
       /\ ended' = [ended EXCEPT ![r] = IF last THEN "succeeded" ELSE "none"]
    /\ UNCHANGED <<files, database, audits>>
-----------------------------------------------------------------------------
(* Mutant: the directory of a command that fails is removed as well.       *)
FailBug(s) ==
    /\ s \in Syncs
    /\ proc[s].pc \in {"locked", "discovered", "downloaded", "released", "begun"}
    /\ End(s, "failed")
    /\ raw' = raw \ {proc[s].pick}
    /\ UNCHANGED <<snaps, current, audits>>

(* An error before the import commits: the origin, the disk or the         *)
(* database fails, and temporary directory and transaction are discarded.  *)
Fail(s) ==
    /\ s \in Syncs
    /\ proc[s].pc \in {"locked", "discovered", "downloaded", "released", "begun"}
    /\ End(s, "failed")
    /\ UNCHANGED <<raw, snaps, current, audits>>

(* The process is killed, between any two statements.                      *)
Kill(p) ==
    /\ p \in Writers
    /\ proc[p].pc \notin {"idle", "done"}
    /\ End(p, "failed")
    /\ UNCHANGED <<raw, snaps, current, audits>>

Init ==
    /\ raw = {}
    /\ flock = NoOne
    /\ snaps = <<>>
    /\ current = 0
    /\ dblock = NoOne
    /\ audits = <<>>
    /\ proc = [p \in Procs |-> NotBegun]
    /\ ended = [p \in Procs |-> "none"]

Begin(p) == Acquire(p) \/ SwitchBegin(p) \/ ReadPointer(p)

Step(p) ==
    \/ Discover(p) \/ Download(p) \/ Publish(p) \/ Release(p)
    \/ ImportBegin(p) \/ ImportCommit(p) \/ Report(p)
    \/ SwitchCommit(p) \/ ReadRows(p)

Next == \E p \in Procs : Begin(p) \/ Step(p) \/ Fail(p) \/ Kill(p)

Spec == Init /\ [][Next]_vars

(* Some process that can go on does.  An import that waits for the         *)
(* advisory lock cannot; nothing is assumed of commands that have not      *)
(* begun.                                                                  *)
FairSpec == Spec /\ WF_vars(\E p \in Procs : Step(p))
-----------------------------------------------------------------------------
(* Properties.                                                             *)

Directories == [version : Versions, rev : Nat \ {0}, hash : Contents]

Local == [pc : PCs, force : BOOLEAN, seen : SUBSET Directories,
          pick : Directories \union {<<>>} \union [version : Versions],
          pointer : Ids \union {0}, match : Ids \union {0},
          status : Successes \union {"none"}, got : Seq(Directories)]

TypeOK ==
    /\ raw \subseteq Directories
    /\ flock \in Syncs \union {NoOne}
    /\ snaps \in Seq(Directories)
    /\ current \in Ids \union {0}
    /\ dblock \in Writers \union {NoOne}
    /\ audits \in Seq(Ids)
    /\ proc \in [Procs -> Local]
    /\ ended \in [Procs -> Endings]

(* A version's directories are its revisions 1, 2, ..., each another       *)
(* content, whatever commands overlap or die.                              *)
RevisionsDiffer == \A d, e \in raw :
    /\ d.version = e.version /\ (d.rev = e.rev \/ d.hash = e.hash) => d = e
    /\ d.rev > 1 => \E f \in raw : f.version = d.version /\ f.rev = d.rev - 1

(* What is in the database is a published directory, once.                 *)
DatabaseMatchesRaw ==
    /\ \A i \in Ids : snaps[i] \in raw /\ snaps[i].hash \notin Invalid
    /\ \A i, j \in Ids : snaps[i] = snaps[j] => i = j

(* No command finds its directory or its row taken: the file lock          *)
(* serialises the numbering of revisions, the advisory lock the imports.   *)
NoConflict == \A p \in Procs : ended[p] # "conflict"

(* A snapshot is reported at most once, and one that is not has a command  *)
(* that ended with an error, was killed or has yet to report.              *)
ReportedOnce ==
    /\ \A i, j \in DOMAIN audits : audits[i] = audits[j] => i = j
    /\ \A i \in Ids :
          (\A j \in DOMAIN audits : audits[j] # i) =>
             \E s \in Syncs : /\ proc[s].status = "updated" /\ proc[s].match = i
                              /\ At(s, "done") => ended[s] = "failed"

(* The rows of a response are of the snapshot that it names, however the   *)
(* pointer moves between its statements.                                   *)
OneSnapshot == \A r \in Readers : \A i \in DOMAIN proc[r].got :
    proc[r].got[i] = snaps[proc[r].pointer]

(* Whatever has begun ends: no command, switch or request waits for ever   *)
(* for a lock that a process which ended or died has left behind.          *)
Busy == {p \in Procs : proc[p].pc \notin {"idle", "done"}}
CommandsEnd == Busy # {} ~> Busy = {}
=============================================================================
