------------------------- MODULE SnapshotSyncProofs -------------------------
(* Theorems about SnapshotSync, for any sets of commands, switches,        *)
(* readers, versions and contents.                                         *)
EXTENDS SnapshotSync, TLAPS

(* Who can be where.                                                       *)
Roles ==
    /\ \A s \in Syncs : proc[s].pc # "pointed"
    /\ \A o \in Switches : proc[o].pc \in {"idle", "begun", "done"}
    /\ \A r \in Readers : proc[r].pc \in {"idle", "pointed", "done"}

(* Between Acquire and Release a command holds the file lock, and between  *)
(* the begin and the end of its transaction the lock of the mode.          *)
Numbering == {"locked", "discovered", "downloaded", "synced"}

Exclusion ==
    /\ \A s \in Syncs : proc[s].pc \in Numbering => flock = s
    /\ \A p \in Writers : proc[p].pc = "begun" => dblock = p

Existing(v) == {d \in raw : d.version = v}

(* The revisions of a version are 1, 2, ..., n.                            *)
Numbered == \A v \in Versions : \E n \in Nat : {d.rev : d \in Existing(v)} = 1..n

(* What a command that numbers or imports has found is still so.           *)
Found == \A s \in Syncs : LET pick == proc[s].pick IN
    /\ proc[s].pc = "discovered" =>
          pick \in [version : Versions] /\ proc[s].seen = Existing(pick.version)
    /\ proc[s].pc = "downloaded" =>
          /\ pick \in Directories
          /\ pick.rev = NextRevision(Existing(pick.version))
          /\ \A d \in Existing(pick.version) : d.hash # pick.hash
    /\ proc[s].pc \in {"synced", "released", "begun"} => pick \in raw

(* The pointer and the snapshot with its content are what the open         *)
(* transaction of a command has read.                                      *)
Read == \A s \in Syncs : proc[s].pc = "begun" =>
    /\ proc[s].pick.hash \notin Invalid
    /\ proc[s].pointer = current
    /\ IF proc[s].match = 0 THEN Imported(proc[s].pick) = {}
                            ELSE proc[s].match \in Imported(proc[s].pick)

(* A snapshot has one command that imported it, which has it to report     *)
(* until it ends.                                                          *)
Importers ==
    /\ \A p \in Procs : proc[p].status = "updated" =>
          p \in Syncs /\ proc[p].pc \in {"committed", "done"} /\ proc[p].match \in Ids
    /\ \A s, t \in Syncs :
          proc[s].status = "updated" /\ proc[t].status = "updated"
             /\ proc[s].match = proc[t].match => s = t
    /\ \A s \in Syncs : proc[s].status = "updated" /\ proc[s].pc = "committed" =>
          \A j \in DOMAIN audits : audits[j] # proc[s].match

(* A reader that has read the pointer reads the rows of a snapshot.        *)
Pointed == \A r \in Readers :
    proc[r].pc = "pointed" \/ proc[r].got # <<>> => proc[r].pointer \in Ids

NotStarted == \A p \in Procs : proc[p].pc = "idle" => proc[p] = NotBegun

FilesInv == Numbered /\ RevisionsDiffer /\ Found
DatabaseInv == Read /\ DatabaseMatchesRaw
ReportsInv == Importers /\ ReportedOnce
ReadersInv == Pointed /\ OneSnapshot

IInv ==
    /\ TypeOK /\ Roles /\ NotStarted /\ Exclusion /\ NoConflict
    /\ FilesInv /\ DatabaseInv /\ ReportsInv /\ ReadersInv
-----------------------------------------------------------------------------
(* Operators of the model.                                                 *)

LEMMA NextRevisionIs ==
  ASSUME NEW dirs, NEW n \in Nat, {d.rev : d \in dirs} = 1..n
  PROVE  NextRevision(dirs) = n + 1
  <1>1. {d.rev : d \in dirs} \union {0} = 0..n
    OBVIOUS
  <1>2. Max(0..n) = n
    BY DEF Max
  <1> QED BY <1>1, <1>2 DEF NextRevision

LEMMA NotBegunType == NotBegun \in Local /\ NotBegun.pc = "idle" /\ NotBegun.status = "none"
                      /\ NotBegun.got = <<>> /\ NotBegun.seen = {}
  BY DEF NotBegun, Local, PCs

LEMMA GoneType ==
  ASSUME NEW l \in Local
  PROVE  /\ Gone(l) \in Local
         /\ Gone(l).pc = "done" /\ Gone(l).got = <<>>
         /\ Gone(l).status = IF l.status = "updated" THEN "updated" ELSE "none"
         /\ l.status = "updated" => Gone(l).match = l.match
  <1> HIDE DEF NotBegun
  <1>1. CASE l.status = "updated"
    BY <1>1, NotBegunType DEF Gone, Local, PCs, Successes
  <1>2. CASE l.status # "updated"
    BY <1>2, NotBegunType DEF Gone, Local, PCs
  <1> QED BY <1>1, <1>2

(* What the end of a process changes.                                      *)
LEMMA EndEffect ==
  ASSUME TypeOK, NEW p \in Procs, NEW how \in Endings, End(p, how)
  PROVE  /\ proc' = [proc EXCEPT ![p] = Gone(proc[p])]
         /\ proc' \in [Procs -> Local] /\ ended' \in [Procs -> Endings]
         /\ proc'[p].pc = "done" /\ proc'[p].got = <<>>
         /\ proc'[p].status = IF proc[p].status = "updated" THEN "updated" ELSE "none"
         /\ proc[p].status = "updated" => proc'[p].match = proc[p].match
         /\ ended' = [ended EXCEPT ![p] = how]
         /\ flock' = (IF flock = p THEN NoOne ELSE flock)
         /\ dblock' = (IF dblock = p THEN NoOne ELSE dblock)
         /\ flock' \in Syncs \union {NoOne} /\ dblock' \in Writers \union {NoOne}
  BY GoneType DEF End, TypeOK
-----------------------------------------------------------------------------
(* Type correctness.                                                       *)

(* The memory of one process and what it shares are replaced.              *)
LEMMA StepType ==
  ASSUME TypeOK, NEW p \in Procs, NEW x \in Local, proc' = [proc EXCEPT ![p] = x],
         raw' \subseteq Directories, flock' \in Syncs \union {NoOne}, UNCHANGED snaps,
         current' \in Ids \union {0}, dblock' \in Writers \union {NoOne},
         audits' \in Seq(Ids), ended' \in [Procs -> Endings]
  PROVE  TypeOK'
  <1>1. Ids' = Ids /\ Local' = Local
    BY DEF Ids, Local
  <1> QED BY <1>1 DEF TypeOK

LEMMA EndTypeOK ==
  ASSUME TypeOK, NEW p \in Procs, NEW how \in Endings, End(p, how),
         UNCHANGED <<raw, snaps>>, current' \in Ids \union {0}, audits' \in Seq(Ids)
  PROVE  TypeOK'
  <1>1. Ids' = Ids /\ Local' = Local
    BY DEF Ids, Local
  <1> QED BY <1>1, EndEffect DEF TypeOK

-----------------------------------------------------------------------------
(* What a step of p preserves by leaving it alone.                         *)

Others(p) == \A q \in Procs \ {p} : proc'[q] = proc[q] /\ ended'[q] = ended[q]

LEMMA FilesKept ==
  ASSUME IInv, TypeOK', NEW p \in Procs, Others(p), raw' = raw,
         p \in Syncs =>
            \/ proc'[p].pc \notin {"discovered", "downloaded", "synced", "released", "begun"}
            \/ /\ proc[p].pc \in {"synced", "released", "begun"}
               /\ proc'[p].pc \in {"released", "begun"} /\ proc'[p].pick = proc[p].pick
  PROVE  FilesInv'
  <1>1. Numbered' /\ RevisionsDiffer' /\ \A v : Existing(v)' = Existing(v)
    BY DEF IInv, FilesInv, Numbered, RevisionsDiffer, Existing
  <1>2. Found'
    BY <1>1 DEF IInv, FilesInv, Found, Others, Procs, Writers
  <1> QED BY <1>1, <1>2 DEF FilesInv

LEMMA DatabaseKept ==
  ASSUME IInv, TypeOK', NEW p \in Procs, Others(p), UNCHANGED <<raw, snaps, current>>,
         p \in Syncs => proc'[p].pc # "begun"
  PROVE  DatabaseInv'
  BY DEF IInv, DatabaseInv, Read, DatabaseMatchesRaw, Others, Procs, Writers, Imported, Ids

LEMMA ReportsKept ==
  ASSUME IInv, TypeOK', NEW p \in Procs, Others(p), UNCHANGED <<snaps, audits>>,
         \/ proc[p].status # "updated" /\ proc'[p].status # "updated"
         \/ /\ proc'[p].status = "updated" /\ proc'[p].match = proc[p].match
            /\ proc[p].pc = "committed" /\ proc[p].status = "updated"
            /\ proc'[p].pc = "done" /\ ended'[p] = "failed"
  PROVE  ReportsInv'
  <1> USE DEF IInv, ReportsInv, Ids, Procs, Writers
  <1>1. Importers'
    BY DEF Importers, Others
  <1>2. ReportedOnce'
    BY DEF Importers, ReportedOnce, Others, At
  <1> QED BY <1>1, <1>2

LEMMA ReadersKept ==
  ASSUME IInv, TypeOK', NEW p \in Procs, Others(p), snaps' = snaps,
         p \in Readers => proc'[p].got = <<>> /\ proc'[p].pc # "pointed"
  PROVE  ReadersInv'
  <1> USE DEF IInv, ReadersInv, Ids, Procs, Others
  <1>1. Pointed'
    BY DEF Pointed
  <1>2. OneSnapshot'
    BY DEF OneSnapshot
  <1> QED BY <1>1, <1>2

(* A process that ends and has left the data alone.                        *)
LEMMA EndKeeps ==
  ASSUME IInv, NEW p \in Procs, NEW how \in Endings \ {"conflict"}, End(p, how),
         UNCHANGED <<raw, snaps, current, audits>>, proc[p].pc # "done",
         proc[p].status = "updated" => how = "failed"
  PROVE  IInv'
  <1> USE EndEffect DEF IInv
  <1>1. TypeOK'
    BY EndTypeOK DEF TypeOK
  <1>2. Others(p)
    BY DEF Others, TypeOK
  <1>3. Roles' /\ NotStarted'
    BY <1>2 DEF Roles, NotStarted, Others, Procs, Writers
  <1>4. Exclusion'
    BY <1>2 DEF Exclusion, Others, Numbering, Procs, Writers
  <1>5. NoConflict'
    BY DEF NoConflict, TypeOK
  <1>6. FilesInv'
    BY <1>1, <1>2, FilesKept
  <1>7. DatabaseInv'
    BY <1>1, <1>2, DatabaseKept
  <1>8. ReportsInv'
    <2>1. proc[p].status = "updated" => proc[p].pc = "committed" /\ ended'[p] = "failed"
      BY DEF ReportsInv, Importers, TypeOK
    <2> QED BY <1>1, <1>2, <2>1, ReportsKept
  <1>9. ReadersInv'
    BY <1>1, <1>2, ReadersKept
  <1> QED BY <1>1, <1>3, <1>4, <1>5, <1>6, <1>7, <1>8, <1>9
-----------------------------------------------------------------------------
(* The steps of a command up to its import.                                *)

LEMMA AcquireKeeps == ASSUME IInv, NEW s \in Procs, Acquire(s) PROVE IInv'
  <1> USE DEF IInv
  <1>1. CASE End(s, "succeeded")
    BY <1>1, EndKeeps DEF Acquire, At, Endings, NotStarted, NotBegun
  <1>2. CASE ~End(s, "succeeded")
    <2>1. PICK force \in BOOLEAN :
             proc' = [proc EXCEPT ![s].pc = "locked", ![s].force = force]
      BY <1>2 DEF Acquire
    <2> DEFINE x == [proc[s] EXCEPT !.pc = "locked", !.force = force]
    <2>2. proc' = [proc EXCEPT ![s] = x] /\ proc[s] = NotBegun
      BY <2>1 DEF TypeOK, Acquire, At, NotStarted
    <2>3. /\ x \in Local /\ x.pc = "locked" /\ x.status = "none"
      BY <2>2, NotBegunType DEF Local, PCs
    <2> HIDE DEF x
    <2>4. TypeOK'
      BY <1>2, <2>2, <2>3, StepType DEF Acquire, TypeOK
    <2>5. /\ s \in Syncs /\ flock = NoOne /\ flock' = s
          /\ UNCHANGED <<raw, snaps, current, audits, dblock, ended>>
      BY <1>2 DEF Acquire
    <2>6. Others(s) /\ proc'[s] = x
      BY <2>2, <2>5 DEF Others, TypeOK
    <2>7. Roles' /\ NotStarted'
      BY <2>3, <2>5, <2>6, ProcsAssumption DEF Roles, NotStarted, Others, Procs, Writers
    <2>8. Exclusion'
      BY <2>3, <2>5, <2>6, ProcsAssumption DEF Exclusion, Others, Numbering, Procs, Writers
    <2>9. NoConflict'
      BY <2>5 DEF NoConflict
    <2>10. FilesInv' /\ DatabaseInv'
      BY <2>3, <2>4, <2>5, <2>6, FilesKept, DatabaseKept
    <2>11. ReportsInv' /\ ReadersInv'
      BY <2>2, <2>3, <2>4, <2>5, <2>6, NotBegunType, ReportsKept, ReadersKept,
         ProcsAssumption
    <2> QED BY <2>4, <2>7, <2>8, <2>9, <2>10, <2>11
  <1> QED BY <1>1, <1>2

(* The newest directory of a version exists when there is one.             *)
LEMMA NewestExists ==
  ASSUME IInv, NEW v \in Versions, Existing(v) # {}
  PROVE  Newest(Existing(v)) \in Existing(v)
  <1>1. PICK n \in Nat : {d.rev : d \in Existing(v)} = 1..n
    BY DEF IInv, FilesInv, Numbered
  <1>2. \A e \in Existing(v) : e.rev \in 1..n
    BY <1>1
  <1>3. n \in 1..n
    BY <1>2
  <1>4. PICK d \in Existing(v) : d.rev = n
    BY <1>1, <1>3
  <1>5. \A e \in Existing(v) : e.rev <= d.rev
    BY <1>2, <1>4
  <1> QED BY <1>5 DEF Newest

LEMMA DiscoverKeeps == ASSUME IInv, NEW s \in Procs, Discover(s) PROVE IInv'
  <1> USE DEF IInv
  <1>1. s \in Syncs /\ flock = s
    BY ProcsAssumption DEF Discover, At, Roles, Exclusion, Numbering, Procs, Writers
  <1>2. PICK v \in Versions : proc' = [proc EXCEPT ![s] =
              IF Existing(v) # {} /\ ~proc[s].force
                THEN [proc[s] EXCEPT !.pc = "synced", !.pick = Newest(Existing(v))]
                ELSE [proc[s] EXCEPT !.pc = "discovered", !.force = TRUE, !.seen = Existing(v),
                               !.pick = [version |-> v]]]
    BY DEF Discover, Existing
  <1>3. PICK x \in Local : /\ proc' = [proc EXCEPT ![s] = x]
                           /\ x.status = proc[s].status
                           /\ \/ /\ x.pc = "synced" /\ x.pick \in raw
                              \/ /\ x.pc = "discovered" /\ x.pick \in [version : Versions]
                                 /\ x.seen = Existing(x.pick.version)
    <2>1. CASE Existing(v) # {} /\ ~proc[s].force
      <3> DEFINE x == [proc[s] EXCEPT !.pc = "synced", !.pick = Newest(Existing(v))]
      <3>1. Newest(Existing(v)) \in raw
        BY <2>1, NewestExists DEF Existing
      <3>2. x \in Local /\ x.status = proc[s].status /\ x.pc = "synced" /\ x.pick \in raw
        BY <3>1 DEF TypeOK, Local, PCs
      <3> QED BY <1>2, <2>1, <3>2
    <2>2. CASE ~(Existing(v) # {} /\ ~proc[s].force)
      <3> DEFINE x == [proc[s] EXCEPT !.pc = "discovered", !.force = TRUE,
                                      !.seen = Existing(v), !.pick = [version |-> v]]
      <3>1. /\ x \in Local /\ x.status = proc[s].status /\ x.pc = "discovered"
            /\ x.pick \in [version : Versions] /\ x.seen = Existing(x.pick.version)
        BY DEF TypeOK, Local, PCs, Existing
      <3> QED BY <1>2, <2>2, <3>1
    <2> QED BY <2>1, <2>2
  <1>4. UNCHANGED <<raw, flock, snaps, current, dblock, audits, ended>> /\ At(s, "locked")
    BY DEF Discover, files, database
  <1>5. TypeOK' /\ Others(s) /\ proc'[s] = x
    BY <1>3, <1>4, StepType DEF TypeOK, Others
  <1>6. proc[s].status # "updated"
    BY <1>4 DEF At, ReportsInv, Importers
  <1>7. Roles' /\ NotStarted' /\ NoConflict'
    BY <1>1, <1>3, <1>4, <1>5, ProcsAssumption
       DEF Roles, NotStarted, NoConflict, Others, Procs, Writers
  <1>8. Exclusion'
    BY <1>1, <1>3, <1>4, <1>5 DEF Exclusion, Others, Numbering, Procs, Writers
  <1>9. FilesInv'
    <2>1. Numbered' /\ RevisionsDiffer' /\ \A w : Existing(w)' = Existing(w)
      BY <1>4 DEF FilesInv, Numbered, RevisionsDiffer, Existing
    <2>2. Found'
      BY <1>3, <1>4, <1>5, <2>1 DEF FilesInv, Found, Others, Procs, Writers
    <2> QED BY <2>1, <2>2 DEF FilesInv
  <1>10. DatabaseInv' /\ ReportsInv' /\ ReadersInv'
    BY <1>1, <1>3, <1>4, <1>5, <1>6, DatabaseKept, ReportsKept, ReadersKept, ProcsAssumption
  <1> QED BY <1>5, <1>7, <1>8, <1>9, <1>10

LEMMA DownloadKeeps == ASSUME IInv, NEW s \in Procs, Download(s) PROVE IInv'
  <1> USE DEF IInv
  <1>1. s \in Syncs /\ flock = s /\ proc[s].pc = "discovered"
    BY ProcsAssumption DEF Download, At, Roles, Exclusion, Numbering, Procs, Writers
  <1> DEFINE v == proc[s].pick.version
  <1>2. /\ v \in Versions /\ proc[s].pick \in [version : Versions]
        /\ proc[s].seen = Existing(v)
    BY <1>1 DEF FilesInv, Found
  <1>3. PICK n \in Nat : {d.rev : d \in Existing(v)} = 1..n
    BY <1>2 DEF FilesInv, Numbered
  <1>4. NextRevision(Existing(v)) = n + 1
    BY <1>3, NextRevisionIs
  <1>5. PICK c \in Contents :
           LET same == {d \in proc[s].seen : d.hash = c} IN
           proc' = [proc EXCEPT ![s] =
               IF same # {}
                 THEN [proc[s] EXCEPT !.pc = "synced", !.seen = {}, !.pick = CHOOSE d \in same : TRUE]
                 ELSE [proc[s] EXCEPT !.pc = "downloaded", !.seen = {},
                         !.pick = [version |-> v, rev |-> NextRevision(proc[s].seen),
                                   hash |-> c]]]
    BY DEF Download
  <1> HIDE DEF v
  <1>6. PICK x \in Local :
           /\ proc' = [proc EXCEPT ![s] = x]
           /\ x.status = proc[s].status
           /\ \/ x.pc = "synced" /\ x.pick \in raw
              \/ /\ x.pc = "downloaded" /\ x.pick \in Directories
                 /\ x.pick.rev = NextRevision(Existing(x.pick.version))
                 /\ \A d \in Existing(x.pick.version) : d.hash # x.pick.hash
    <2>1. CASE {d \in Existing(v) : d.hash = c} # {}
      <3>1. PICK e \in Existing(v) : proc' = [proc EXCEPT ![s] =
                 [proc[s] EXCEPT !.pc = "synced", !.seen = {}, !.pick = e]]
        BY <1>2, <1>5, <2>1
      <3> DEFINE x == [proc[s] EXCEPT !.pc = "synced", !.seen = {}, !.pick = e]
      <3>2. x \in Local /\ x.status = proc[s].status /\ x.pc = "synced" /\ x.pick \in raw
        BY DEF TypeOK, Local, PCs, Existing
      <3> QED BY <3>1, <3>2
    <2>2. CASE {d \in Existing(v) : d.hash = c} = {}
      <3> DEFINE p == [version |-> v, rev |-> n + 1, hash |-> c]
                 x == [proc[s] EXCEPT !.pc = "downloaded", !.seen = {}, !.pick = p]
      <3>1. p \in Directories
        BY <1>2 DEF Directories
      <3>2. /\ x \in Local /\ x.status = proc[s].status /\ x.pc = "downloaded"
            /\ x.pick = p
        BY <3>1 DEF TypeOK, Local, PCs
      <3>3. proc' = [proc EXCEPT ![s] = x]
        BY <1>2, <1>4, <1>5, <2>2
      <3>4. p.version = v /\ p.rev = n + 1 /\ p.hash = c
        OBVIOUS
      <3> HIDE DEF p, x
      <3> QED BY <1>4, <2>2, <3>1, <3>2, <3>3, <3>4
    <2> QED BY <2>1, <2>2
  <1>7. UNCHANGED <<raw, flock, snaps, current, dblock, audits, ended>>
    BY DEF Download, files, database
  <1>8. TypeOK' /\ Others(s) /\ proc'[s] = x
    BY <1>6, <1>7, StepType DEF TypeOK, Others
  <1>9. proc[s].status # "updated"
    BY <1>1 DEF ReportsInv, Importers
  <1>10. Roles' /\ NotStarted' /\ NoConflict'
    BY <1>1, <1>6, <1>7, <1>8, ProcsAssumption
       DEF Roles, NotStarted, NoConflict, Others, Procs, Writers
  <1>11. Exclusion'
    BY <1>1, <1>6, <1>7, <1>8 DEF Exclusion, Others, Numbering, Procs, Writers
  <1>12. FilesInv'
    <2>1. Numbered' /\ RevisionsDiffer' /\ \A w : Existing(w)' = Existing(w)
      BY <1>7 DEF FilesInv, Numbered, RevisionsDiffer, Existing
    <2>2. Found'
      BY <1>6, <1>7, <1>8, <2>1 DEF FilesInv, Found, Others, Procs, Writers
    <2> QED BY <2>1, <2>2 DEF FilesInv
  <1>13. DatabaseInv' /\ ReportsInv' /\ ReadersInv'
    BY <1>1, <1>6, <1>7, <1>8, <1>9, DatabaseKept, ReportsKept, ReadersKept, ProcsAssumption
  <1> QED BY <1>8, <1>10, <1>11, <1>12, <1>13

(* The number a command has chosen is still free when it publishes.        *)
LEMMA TargetIsFree ==
  ASSUME IInv, NEW s \in Syncs, proc[s].pc = "downloaded"
  PROVE  Target(proc[s].pick) = {}
  <1> DEFINE pick == proc[s].pick
  <1>1. /\ pick \in Directories
        /\ pick.rev = NextRevision(Existing(pick.version))
    BY DEF IInv, FilesInv, Found
  <1>2. PICK n \in Nat : {d.rev : d \in Existing(pick.version)} = 1..n
    BY <1>1 DEF IInv, FilesInv, Numbered, Directories
  <1>3. pick.rev = n + 1
    BY <1>1, <1>2, NextRevisionIs
  <1>4. \A d \in Existing(pick.version) : d.rev \in 1..n
    BY <1>2
  <1> QED BY <1>3, <1>4 DEF Target, Existing

LEMMA PublishKeeps == ASSUME IInv, NEW s \in Procs, Publish(s) PROVE IInv'
  <1> USE DEF IInv
  <1>1. s \in Syncs /\ flock = s /\ proc[s].pc = "downloaded"
    BY ProcsAssumption DEF Publish, At, Roles, Exclusion, Numbering, Procs, Writers
  <1> DEFINE pick == proc[s].pick
             x == [proc[s] EXCEPT !.pc = "synced"]
  <1>2. /\ raw' = raw \union {pick} /\ proc' = [proc EXCEPT ![s] = x]
        /\ UNCHANGED <<flock, snaps, current, dblock, audits, ended>>
    BY <1>1, TargetIsFree DEF Publish, GoTo
  <1>3. /\ pick \in Directories
        /\ pick.rev = NextRevision(Existing(pick.version))
        /\ \A d \in Existing(pick.version) : d.hash # pick.hash
    BY <1>1 DEF FilesInv, Found
  <1>4. x \in Local /\ x.pc = "synced" /\ x.pick = pick /\ x.status = proc[s].status
    BY DEF TypeOK, Local, PCs
  <1> HIDE DEF x
  <1>5. TypeOK' /\ Others(s) /\ proc'[s] = x
    BY <1>2, <1>3, <1>4, StepType DEF TypeOK, Others
  <1>6. proc[s].status # "updated"
    BY <1>1 DEF ReportsInv, Importers
  <1>7. Roles' /\ NotStarted' /\ NoConflict'
    BY <1>1, <1>2, <1>4, <1>5, ProcsAssumption
       DEF Roles, NotStarted, NoConflict, Others, Procs, Writers
  <1>8. Exclusion'
    BY <1>1, <1>2, <1>4, <1>5 DEF Exclusion, Others, Numbering, Procs, Writers
  <1>9. PICK n \in Nat : {d.rev : d \in Existing(pick.version)} = 1..n
    BY <1>3 DEF FilesInv, Numbered, Directories
  <1>10. pick.rev = n + 1
    BY <1>3, <1>9, NextRevisionIs
  <1>11. \A v : Existing(v)' = IF v = pick.version THEN Existing(v) \union {pick} ELSE Existing(v)
    BY <1>2 DEF Existing
  <1>12. Numbered'
    <2> SUFFICES ASSUME NEW v \in Versions
                 PROVE  \E k \in Nat : {d.rev : d \in Existing(v)'} = 1..k
      BY DEF Numbered
    <2>1. CASE v = pick.version
      <3>1. {d.rev : d \in Existing(v)'} = {d.rev : d \in Existing(v)} \union {pick.rev}
        BY <1>11, <2>1
      <3>2. {d.rev : d \in Existing(v)'} = 1..(n + 1)
        BY <1>9, <1>10, <2>1, <3>1
      <3> QED BY <3>2
    <2>2. CASE v # pick.version
      BY <1>11, <2>2 DEF FilesInv, Numbered
    <2> QED BY <2>1, <2>2
  <1>13. RevisionsDiffer'
    <2>1. \A d \in raw : d.version = pick.version => d.rev \in 1..n /\ d.hash # pick.hash
      BY <1>3, <1>9 DEF Existing
    <2>2. \A d, e \in raw' :
             d.version = e.version /\ (d.rev = e.rev \/ d.hash = e.hash) => d = e
      BY <1>2, <1>10, <2>1 DEF FilesInv, RevisionsDiffer
    <2>3. pick.rev > 1 => \E f \in raw : f.version = pick.version /\ f.rev = pick.rev - 1
      <3> SUFFICES ASSUME pick.rev > 1
                   PROVE  \E f \in Existing(pick.version) : f.rev = n
        BY <1>10 DEF Existing
      <3>1. n \in {d.rev : d \in Existing(pick.version)}
        BY <1>9, <1>10
      <3> QED BY <3>1
    <2>4. \A d \in raw' : d.rev > 1 => \E f \in raw' : f.version = d.version /\ f.rev = d.rev - 1
      BY <1>2, <2>3 DEF FilesInv, RevisionsDiffer
    <2> QED BY <2>2, <2>4 DEF RevisionsDiffer
  <1>14. Found'
    <2> SUFFICES ASSUME NEW t \in Syncs \ {s}
                 PROVE  /\ proc[t].pc \notin {"discovered", "downloaded"}
                        /\ proc[t].pc \in {"synced", "released", "begun"} => proc[t].pick \in raw
      BY <1>2, <1>4, <1>5 DEF Found, Others, Procs, Writers
    <2> QED BY <1>1 DEF FilesInv, Found, Exclusion, Numbering, Procs, Writers
  <1>15. DatabaseInv'
    <2>1. Read'
      BY <1>1, <1>2, <1>4, <1>5
         DEF DatabaseInv, Read, Others, Imported, Ids, Procs, Writers
    <2>2. DatabaseMatchesRaw'
      BY <1>2 DEF DatabaseInv, DatabaseMatchesRaw, Ids
    <2> QED BY <2>1, <2>2 DEF DatabaseInv
  <1>16. ReportsInv' /\ ReadersInv'
    BY <1>1, <1>2, <1>4, <1>5, <1>6, ReportsKept, ReadersKept, ProcsAssumption
  <1> QED BY <1>5, <1>7, <1>8, <1>12, <1>13, <1>14, <1>15, <1>16 DEF FilesInv

LEMMA ReleaseKeeps == ASSUME IInv, NEW s \in Procs, Release(s) PROVE IInv'
  <1> USE DEF IInv
  <1>1. s \in Syncs /\ flock = s /\ proc[s].pc = "synced"
    BY ProcsAssumption DEF Release, At, Roles, Exclusion, Numbering, Procs, Writers
  <1> DEFINE x == [proc[s] EXCEPT !.pc = "released"]
  <1>2. /\ flock' = NoOne /\ proc' = [proc EXCEPT ![s] = x]
        /\ UNCHANGED <<raw, snaps, current, dblock, audits, ended>>
    BY <1>1 DEF Release, GoTo, database
  <1>3. /\ x \in Local /\ x.pc = "released" /\ x.pick = proc[s].pick
        /\ x.status = proc[s].status
    BY DEF TypeOK, Local, PCs
  <1> HIDE DEF x
  <1>4. TypeOK' /\ Others(s) /\ proc'[s] = x
    BY <1>2, <1>3, StepType DEF TypeOK, Others
  <1>5. proc[s].status # "updated"
    BY <1>1 DEF ReportsInv, Importers
  <1>6. Roles' /\ NotStarted' /\ NoConflict'
    BY <1>1, <1>2, <1>3, <1>4, ProcsAssumption
       DEF Roles, NotStarted, NoConflict, Others, Procs, Writers
  <1>7. Exclusion'
    BY <1>1, <1>2, <1>3, <1>4 DEF Exclusion, Others, Numbering, Procs, Writers
  <1>8. FilesInv' /\ DatabaseInv' /\ ReportsInv' /\ ReadersInv'
    BY <1>1, <1>2, <1>3, <1>4, <1>5, FilesKept, DatabaseKept, ReportsKept, ReadersKept,
       ProcsAssumption
  <1> QED BY <1>4, <1>6, <1>7, <1>8
-----------------------------------------------------------------------------
(* The import.                                                             *)

(* The snapshots with the content of a directory are at most one.          *)
LEMMA ImportedIs ==
  ASSUME IInv, NEW d \in raw
  PROVE  LET m == Max(Imported(d) \union {0}) IN
         /\ m \in Ids \union {0}
         /\ IF m = 0 THEN Imported(d) = {} ELSE m \in Imported(d)
  <1> USE DEF IInv
  <1>1. Ids \subseteq Nat \ {0}
    BY DEF TypeOK, Ids
  <1>2. \A i, j \in Imported(d) : i = j
    BY DEF Imported, DatabaseInv, DatabaseMatchesRaw, FilesInv, RevisionsDiffer
  <1>3. CASE Imported(d) = {}
    <2>1. Imported(d) \union {0} = {0}
      BY <1>3
    <2>2. Max({0}) = 0
      BY DEF Max
    <2> QED BY <1>3, <2>1, <2>2
  <1>4. CASE Imported(d) # {}
    <2>1. PICK i \in Imported(d) : TRUE
      BY <1>4
    <2>2. Imported(d) = {i} /\ i \in Nat \ {0} /\ i \in Ids
      BY <1>1, <1>2, <2>1 DEF Imported
    <2>3. Max({i, 0}) = i
      BY <2>2 DEF Max
    <2>4. Imported(d) \union {0} = {i, 0}
      BY <2>2
    <2> QED BY <2>2, <2>3, <2>4
  <1> QED BY <1>3, <1>4

LEMMA ImportBeginKeeps == ASSUME IInv, NEW s \in Procs, ImportBegin(s) PROVE IInv'
  <1> USE DEF IInv
  <1>1. s \in Syncs /\ proc[s].pc = "released" /\ proc[s].pick \in raw
    BY ProcsAssumption DEF ImportBegin, At, Roles, FilesInv, Found, Procs, Writers
  <1>2. proc[s].status # "updated"
    BY <1>1 DEF ReportsInv, Importers
  <1>3. CASE End(s, "failed")
    BY <1>1, <1>2, <1>3, EndKeeps DEF ImportBegin, Endings
  <1>4. CASE ~End(s, "failed")
    <2> DEFINE m == Max(Imported(proc[s].pick) \union {0})
               x == [proc[s] EXCEPT !.pc = "begun", !.pointer = current, !.match = m]
    <2>1. /\ proc[s].pick.hash \notin Invalid /\ dblock = NoOne /\ dblock' = s
          /\ proc' = [proc EXCEPT ![s] = x]
          /\ UNCHANGED <<raw, flock, snaps, current, audits, ended>>
      BY <1>4 DEF ImportBegin
    <2>2. /\ m \in Ids \union {0}
          /\ IF m = 0 THEN Imported(proc[s].pick) = {} ELSE m \in Imported(proc[s].pick)
      BY <1>1, ImportedIs
    <2> HIDE DEF m
    <2>3. /\ x \in Local /\ x.pc = "begun" /\ x.pick = proc[s].pick
          /\ x.status = proc[s].status /\ x.pointer = current /\ x.match = m
      BY <2>2 DEF TypeOK, Local, PCs
    <2> HIDE DEF x
    <2>4. TypeOK' /\ Others(s) /\ proc'[s] = x
      BY <1>1, <2>1, <2>3, StepType DEF TypeOK, Others, Writers
    <2>5. Roles' /\ NotStarted' /\ NoConflict'
      BY <1>1, <2>1, <2>3, <2>4, ProcsAssumption
         DEF Roles, NotStarted, NoConflict, Others, Procs, Writers
    <2>6. Exclusion'
      BY <1>1, <2>1, <2>3, <2>4, ProcsAssumption
         DEF Exclusion, Others, Numbering, Procs, Writers
    <2>7. Read'
      BY <1>1, <2>1, <2>2, <2>3, <2>4
         DEF DatabaseInv, Read, Others, Imported, Ids, Procs, Writers
    <2>8. DatabaseMatchesRaw'
      BY <2>1 DEF DatabaseInv, DatabaseMatchesRaw, Ids
    <2>9. FilesInv' /\ ReportsInv' /\ ReadersInv'
      BY <1>1, <1>2, <2>1, <2>3, <2>4, FilesKept, ReportsKept, ReadersKept, ProcsAssumption
    <2> QED BY <2>4, <2>5, <2>6, <2>7, <2>8, <2>9 DEF DatabaseInv
  <1> QED BY <1>3, <1>4

(* No constraint of the database fails.                                    *)
LEMMA ImportIsReady ==
  ASSUME IInv, NEW s \in Syncs, proc[s].pc = "begun"
  PROVE  Ready(s)
  <1> USE DEF IInv
  <1>1. proc[s].pick \in raw
    BY DEF FilesInv, Found
  <1>2. ASSUME Imported(proc[s].pick) = {} PROVE NewRow(proc[s].pick)
    <2> SUFFICES ASSUME NEW i \in Ids, snaps[i].version = proc[s].pick.version
                 PROVE  snaps[i].rev # proc[s].pick.rev /\ snaps[i].hash # proc[s].pick.hash
      BY DEF NewRow
    <2>1. snaps[i].hash # proc[s].pick.hash
      BY <1>2 DEF Imported
    <2>2. snaps[i] \in raw
      BY DEF DatabaseInv, DatabaseMatchesRaw
    <2> QED BY <1>1, <2>1, <2>2 DEF FilesInv, RevisionsDiffer
  <1> QED BY <1>2 DEF Ready, DatabaseInv, Read

(* The end of the transaction of a command, with what it then knows.       *)
LEMMA CommitKeeps ==
  ASSUME IInv, NEW s \in Syncs, proc[s].pc = "begun", NEW x \in Local, x.pc = "committed",
         x.status # "updated", proc' = [proc EXCEPT ![s] = x],
         dblock' = (IF dblock = s THEN NoOne ELSE dblock), current' \in Ids,
         UNCHANGED <<raw, flock, snaps, audits, ended>>
  PROVE  IInv'
  <1> USE DEF IInv
  <1>1. s \in Procs /\ dblock = s /\ dblock' = NoOne
    BY DEF Exclusion, Procs, Writers
  <1>2. TypeOK' /\ Others(s) /\ proc'[s] = x
    BY <1>1, StepType DEF TypeOK, Others
  <1>3. proc[s].status # "updated"
    BY <1>1 DEF ReportsInv, Importers
  <1>4. Roles' /\ NotStarted' /\ NoConflict'
    BY <1>1, <1>2, ProcsAssumption DEF Roles, NotStarted, NoConflict, Others, Procs, Writers
  <1>5. Exclusion'
    BY <1>1, <1>2, ProcsAssumption DEF Exclusion, Others, Numbering, Procs, Writers
  <1>6. Read'
    <2> SUFFICES ASSUME NEW t \in Syncs PROVE proc'[t].pc # "begun"
      BY DEF Read
    <2> QED BY <1>1, <1>2 DEF Exclusion, Others, Procs, Writers
  <1>7. DatabaseMatchesRaw'
    BY DEF DatabaseInv, DatabaseMatchesRaw, Ids
  <1>8. FilesInv' /\ ReportsInv' /\ ReadersInv'
    BY <1>1, <1>2, <1>3, FilesKept, ReportsKept, ReadersKept, ProcsAssumption
  <1> QED BY <1>2, <1>4, <1>5, <1>6, <1>7, <1>8 DEF DatabaseInv

LEMMA CommittedType ==
  ASSUME NEW status \in Successes, NEW id \in Ids \union {0}
  PROVE  LET x == Committed(status, id) IN
         /\ x \in Local /\ x.pc = "committed" /\ x.status = status /\ x.match = id
         /\ x.got = <<>>
  <1> HIDE DEF NotBegun
  <1> QED BY NotBegunType DEF Committed, Local, PCs, Successes

(* A new snapshot.                                                         *)
LEMMA InsertKeeps ==
  ASSUME IInv, NEW s \in Syncs, proc[s].pc = "begun", proc[s].match = 0,
         snaps' = Append(snaps, proc[s].pick), current' = Len(snaps) + 1,
         proc' = [proc EXCEPT ![s] = Committed("updated", Len(snaps) + 1)],
         dblock' = (IF dblock = s THEN NoOne ELSE dblock),
         UNCHANGED <<raw, flock, audits, ended>>
  PROVE  IInv'
  <1> USE DEF IInv
  <1> DEFINE d == proc[s].pick
             n == Len(snaps) + 1
             x == Committed("updated", n)
  <1>1. s \in Procs /\ s \in Writers /\ dblock = s /\ dblock' = NoOne
    BY DEF Exclusion, Procs, Writers
  <1>2. d \in raw /\ d \in Directories /\ d.hash \notin Invalid /\ Imported(d) = {}
    BY DEF TypeOK, FilesInv, Found, DatabaseInv, Read
  <1>3. /\ Ids = 1..Len(snaps) /\ Len(snaps) \in Nat /\ Ids' = 1..n
        /\ \A i \in Ids : snaps'[i] = snaps[i] /\ snaps[i] # d
        /\ snaps'[n] = d /\ snaps' \in Seq(Directories)
    <2>1. snaps \in Seq(Directories)
      BY DEF TypeOK
    <2>2. Ids = 1..Len(snaps) /\ Len(snaps) \in Nat /\ Ids' = 1..n
      BY <1>2, <2>1 DEF Ids
    <2>3. \A i \in Ids : snaps[i] # d
      BY <1>2 DEF Imported
    <2> QED BY <1>2, <2>1, <2>2, <2>3
  <1>4. Ids \subseteq Ids' /\ Ids' = Ids \union {n} /\ n \notin Ids
    BY <1>3
  <1>5. Local \subseteq Local'
    BY <1>4 DEF Local
  <1>6. x \in Local' /\ x.pc = "committed" /\ x.status = "updated" /\ x.match = n /\ x.got = <<>>
    <2>1. n \in Ids' \union {0} /\ NotBegun \in Local'
      BY <1>4, <1>5, NotBegunType
    <2>2. x = [NotBegun EXCEPT !.pc = "committed", !.status = "updated", !.match = n]
      BY DEF Committed
    <2> HIDE DEF x, n, NotBegun
    <2> QED BY <2>1, <2>2, NotBegunType DEF Local, PCs, Successes
  <1> HIDE DEF x
  <1>7. Others(s) /\ proc'[s] = x
    BY <1>1 DEF TypeOK, Others, x
  <1>8. TypeOK'
    <2>1. proc' \in [Procs -> Local']
      BY <1>1, <1>5, <1>6 DEF TypeOK, x
    <2>2. audits' \in Seq(Ids')
      BY <1>4 DEF TypeOK
    <2> QED BY <1>1, <1>3, <2>1, <2>2 DEF TypeOK
  <1>9. Roles' /\ NotStarted' /\ NoConflict'
    BY <1>1, <1>6, <1>7, ProcsAssumption DEF Roles, NotStarted, NoConflict, Others, Procs, Writers
  <1>10. Exclusion'
    BY <1>1, <1>6, <1>7, ProcsAssumption DEF Exclusion, Others, Numbering, Procs, Writers
  <1>11. FilesInv'
    BY <1>1, <1>6, <1>7, <1>8, FilesKept
  <1>12. Read'
    <2> SUFFICES ASSUME NEW t \in Syncs PROVE proc'[t].pc # "begun"
      BY DEF Read
    <2> QED BY <1>1, <1>6, <1>7 DEF Exclusion, Others, Procs, Writers
  <1>13. DatabaseMatchesRaw'
    BY <1>2, <1>3, <1>4 DEF DatabaseInv, DatabaseMatchesRaw
  <1>14. \A q \in Procs : proc[q].status = "updated" => q # s /\ proc[q].match \in Ids
    BY DEF ReportsInv, Importers
  <1>15. \A j \in DOMAIN audits : audits[j] \in Ids
    BY DEF TypeOK
  <1>16. Importers'
    BY <1>1, <1>4, <1>6, <1>7, <1>14, <1>15
       DEF ReportsInv, Importers, Others, Procs, Writers
  <1>17. ReportedOnce'
    BY <1>1, <1>4, <1>6, <1>7, <1>14
       DEF ReportsInv, ReportedOnce, Others, At, Procs, Writers
  <1>18. ReadersInv'
    <2>1. \A r \in Readers : proc'[r] = proc[r]
      BY <1>7, ProcsAssumption DEF Others, Procs, Writers
    <2>2. OneSnapshot'
      <3> SUFFICES ASSUME NEW r \in Readers, NEW i \in DOMAIN proc'[r].got
                   PROVE  proc'[r].got[i] = snaps'[proc'[r].pointer]
        BY DEF OneSnapshot
      <3>1. proc[r].got # <<>> /\ proc[r].got[i] = snaps[proc[r].pointer]
        BY <2>1 DEF ReadersInv, OneSnapshot
      <3> QED BY <1>3, <2>1, <3>1 DEF ReadersInv, Pointed
    <2> QED BY <1>4, <2>1, <2>2 DEF ReadersInv, Pointed
  <1> QED BY <1>8, <1>9, <1>10, <1>11, <1>12, <1>13, <1>16, <1>17, <1>18
          DEF DatabaseInv, ReportsInv

LEMMA ImportCommitKeeps == ASSUME IInv, NEW s \in Procs, ImportCommit(s) PROVE IInv'
  <1>1. s \in Syncs /\ proc[s].pc = "begun" /\ proc[s].match \in Ids \union {0}
    BY DEF ImportCommit, At, IInv, TypeOK, Local
  <1>2. /\ Import(s)
        /\ dblock' = IF dblock = s THEN NoOne ELSE dblock
        /\ UNCHANGED <<raw, flock, audits, ended>>
    BY <1>1, ImportIsReady DEF ImportCommit
  <1>3. CASE proc[s].match = 0
    BY <1>1, <1>2, <1>3, InsertKeeps DEF Import
  <1>4. CASE proc[s].match # 0
    <2>1. PICK status \in {"skipped", "matched"} : proc' = [proc EXCEPT ![s] = Committed(status, 0)]
      BY <1>2, <1>4 DEF Import
    <2>2. current' = proc[s].match /\ UNCHANGED snaps
      BY <1>1, <1>2, <1>4 DEF Import, IInv, DatabaseInv, Read
    <2>3. LET x == Committed(status, 0) IN
          x \in Local /\ x.pc = "committed" /\ x.status # "updated"
      BY CommittedType DEF Successes
    <2> QED BY <1>1, <1>2, <1>4, <2>1, <2>2, <2>3, CommitKeeps
  <1> QED BY <1>3, <1>4

LEMMA ReportKeeps == ASSUME IInv, NEW s \in Procs, Report(s) PROVE IInv'
  <1> USE DEF IInv
  <1>1. s \in Syncs /\ proc[s].pc = "committed"
    BY ProcsAssumption DEF Report, At, Roles, Procs, Writers
  <1>2. CASE audits' = audits
    <2>1. PICK how \in {"succeeded", "failed"} :
             /\ End(s, how) /\ UNCHANGED <<raw, snaps, current>>
             /\ proc[s].status = "updated" => how = "failed"
      <3>1. CASE proc[s].status # "updated"
        BY <3>1 DEF Report
      <3>2. CASE proc[s].status = "updated"
        <4>1. audits \in Seq(Ids) /\ proc[s].match \in Ids
          BY <1>1, <3>2 DEF TypeOK, ReportsInv, Importers
        <4>2. Append(audits, proc[s].match) # audits
          BY <4>1
        <4> QED BY <1>2, <3>2, <4>2 DEF Report
      <3> QED BY <3>1, <3>2
    <2> QED BY <1>1, <1>2, <2>1, EndKeeps DEF Endings
  <1>3. CASE audits' # audits
    <2> DEFINE id == proc[s].match
    <2>1. proc[s].status = "updated" /\ audits' = Append(audits, id)
      BY <1>3 DEF Report
    <2>2. PICK how \in {"succeeded", "failed"} : End(s, how) /\ UNCHANGED <<raw, snaps, current>>
      BY <1>3 DEF Report
    <2>3. how \in Endings /\ how # "conflict"
      BY DEF Endings
    <2>4. /\ id \in Ids /\ \A j \in DOMAIN audits : audits[j] # id
      BY <1>1, <2>1 DEF ReportsInv, Importers
    <2>5. /\ DOMAIN audits' = DOMAIN audits \union {Len(audits) + 1}
          /\ Len(audits) + 1 \notin DOMAIN audits
          /\ \A j \in DOMAIN audits : audits'[j] = audits[j]
          /\ audits'[Len(audits) + 1] = id /\ audits' \in Seq(Ids)
      BY <2>1, <2>4 DEF TypeOK
    <2> USE EndEffect
    <2>6. TypeOK'
      BY <2>2, <2>3, <2>5, EndTypeOK DEF TypeOK
    <2>7. Others(s)
      BY <2>2, <2>3 DEF Others, TypeOK
    <2>8. Roles' /\ NotStarted' /\ NoConflict'
      BY <2>2, <2>3, <2>7 DEF Roles, NotStarted, NoConflict, Others, Procs, Writers, TypeOK
    <2>9. Exclusion'
      BY <1>1, <2>2, <2>3, <2>7 DEF Exclusion, Others, Numbering, Procs, Writers
    <2>10. FilesInv' /\ DatabaseInv' /\ ReadersInv'
      BY <1>1, <2>2, <2>3, <2>6, <2>7, FilesKept, DatabaseKept, ReadersKept
    <2>11. proc'[s].status = "updated" /\ proc'[s].match = id /\ proc'[s].pc = "done"
      BY <2>1, <2>2, <2>3
    <2>12. Ids' = Ids
      BY <2>2 DEF Ids
    <2>13. Importers'
      <3>1. \A t \in Syncs \ {s} : proc[t].status = "updated" => proc[t].match # id
        BY <1>1, <2>1 DEF ReportsInv, Importers
      <3> QED BY <1>1, <2>1, <2>5, <2>7, <2>11, <2>12, <3>1
              DEF ReportsInv, Importers, Others, Procs, Writers
    <2>14. ReportedOnce'
      <3>1. \A i, j \in DOMAIN audits' : audits'[i] = audits'[j] => i = j
        BY <2>4, <2>5 DEF ReportsInv, ReportedOnce
      <3>2. ASSUME NEW i \in Ids, \A j \in DOMAIN audits' : audits'[j] # i
            PROVE  \E t \in Syncs : /\ proc'[t].status = "updated" /\ proc'[t].match = i
                                    /\ At(t, "done")' => ended'[t] = "failed"
        <4>1. i # id /\ \A j \in DOMAIN audits : audits[j] # i
          BY <2>5, <3>2
        <4>2. PICK t \in Syncs : /\ proc[t].status = "updated" /\ proc[t].match = i
                                 /\ At(t, "done") => ended[t] = "failed"
          BY <4>1 DEF ReportsInv, ReportedOnce
        <4>3. t # s /\ t \in Procs
          BY <4>1, <4>2 DEF Procs, Writers
        <4> QED BY <2>7, <4>2, <4>3 DEF Others, At
      <3> QED BY <2>12, <3>1, <3>2 DEF ReportedOnce
    <2> QED BY <2>6, <2>8, <2>9, <2>10, <2>13, <2>14 DEF ReportsInv
  <1> QED BY <1>2, <1>3
-----------------------------------------------------------------------------
(* Switches, readers, and the end of a process.                            *)

LEMMA SwitchBeginKeeps == ASSUME IInv, NEW o \in Procs, SwitchBegin(o) PROVE IInv'
  <1> USE DEF IInv
  <1>1. o \in Switches /\ o \notin Syncs /\ o \notin Readers /\ o \in Writers /\ proc[o] = NotBegun
    BY ProcsAssumption DEF SwitchBegin, At, NotStarted, Writers
  <1>2. /\ dblock = NoOne /\ dblock' = o
        /\ UNCHANGED <<raw, flock, snaps, current, audits, ended>>
    BY DEF SwitchBegin, files
  <1>3. PICK id \in Ids : proc' = [proc EXCEPT ![o].pc = "begun", ![o].match = id]
    BY DEF SwitchBegin
  <1> DEFINE x == [proc[o] EXCEPT !.pc = "begun", !.match = id]
  <1>4. proc' = [proc EXCEPT ![o] = x]
    BY <1>3 DEF TypeOK
  <1>5. x \in Local /\ x.pc = "begun" /\ x.status = "none" /\ proc[o].status = "none"
    BY <1>1, NotBegunType DEF Local, PCs
  <1> HIDE DEF x
  <1>6. TypeOK' /\ Others(o) /\ proc'[o] = x
    BY <1>1, <1>2, <1>4, <1>5, StepType DEF TypeOK, Others
  <1>7. Roles' /\ NotStarted' /\ NoConflict'
    BY <1>1, <1>2, <1>5, <1>6 DEF Roles, NotStarted, NoConflict, Others, Procs, Writers
  <1>8. Exclusion'
    BY <1>1, <1>2, <1>5, <1>6, ProcsAssumption DEF Exclusion, Others, Numbering, Procs, Writers
  <1>9. FilesInv' /\ DatabaseInv' /\ ReportsInv' /\ ReadersInv'
    BY <1>1, <1>2, <1>5, <1>6, FilesKept, DatabaseKept, ReportsKept, ReadersKept
  <1> QED BY <1>6, <1>7, <1>8, <1>9

LEMMA SwitchCommitKeeps == ASSUME IInv, NEW o \in Procs, SwitchCommit(o) PROVE IInv'
  <1> USE EndEffect DEF IInv
  <1>1. o \in Switches /\ o \notin Syncs /\ o \notin Readers /\ o \in Writers
        /\ proc[o].pc = "begun" /\ dblock = o /\ proc[o].match \in Ids \union {0}
    BY ProcsAssumption DEF SwitchCommit, At, Exclusion, Writers, TypeOK, Local
  <1>2. /\ End(o, "succeeded") /\ "succeeded" \in Endings /\ current' = proc[o].match
        /\ UNCHANGED <<raw, snaps, audits>>
    BY DEF SwitchCommit, Endings
  <1>3. TypeOK'
    BY <1>1, <1>2, EndTypeOK DEF TypeOK
  <1>4. Others(o)
    BY <1>2 DEF Others, TypeOK
  <1>5. proc[o].status # "updated"
    BY <1>1 DEF ReportsInv, Importers
  <1>6. Roles' /\ NotStarted' /\ NoConflict'
    <2>1. Roles'
      BY <1>1, <1>2, <1>4 DEF Roles, Others, Procs, Writers, TypeOK
    <2>2. NotStarted'
      BY <1>1, <1>2, <1>4 DEF NotStarted, Others, Procs, TypeOK
    <2>3. NoConflict'
      BY <1>1, <1>2, <1>4 DEF NoConflict, Others, Procs, Writers, TypeOK
    <2> QED BY <2>1, <2>2, <2>3
  <1>7. Exclusion'
    BY <1>1, <1>2, <1>4 DEF Exclusion, Others, Numbering, Procs, Writers
  <1>8. DatabaseInv'
    <2>1. \A t \in Syncs : proc'[t].pc # "begun"
      BY <1>1, <1>2, <1>4 DEF Exclusion, Others, Procs, Writers
    <2>2. Read'
      BY <2>1 DEF Read
    <2> QED BY <1>2, <2>2 DEF DatabaseInv, DatabaseMatchesRaw, Ids
  <1>9. FilesInv' /\ ReportsInv' /\ ReadersInv'
    BY <1>1, <1>2, <1>3, <1>4, <1>5, FilesKept, ReportsKept, ReadersKept
  <1> QED BY <1>3, <1>6, <1>7, <1>8, <1>9

LEMMA ReadPointerKeeps == ASSUME IInv, NEW r \in Procs, ReadPointer(r) PROVE IInv'
  <1> USE DEF IInv
  <1>1. r \in Readers /\ r \notin Syncs /\ r \notin Writers /\ proc[r] = NotBegun
        /\ proc[r].pc = "idle" /\ proc[r].status = "none"
    BY ProcsAssumption, NotBegunType DEF ReadPointer, At, NotStarted, Writers
  <1>2. UNCHANGED <<raw, snaps, current, audits>>
    BY DEF ReadPointer
  <1>3. CASE End(r, "failed")
    BY <1>1, <1>2, <1>3, EndKeeps DEF Endings
  <1>4. CASE ~End(r, "failed")
    <2> DEFINE x == [proc[r] EXCEPT !.pc = "pointed", !.pointer = current]
    <2>1. /\ current # 0 /\ proc' = [proc EXCEPT ![r] = x]
          /\ UNCHANGED <<flock, dblock, ended>>
      BY <1>4 DEF ReadPointer
    <2>2. x \in Local /\ x.pc = "pointed" /\ x.status = "none" /\ x.got = <<>>
          /\ x.pointer = current /\ current \in Ids
      BY <1>1, <2>1, NotBegunType DEF TypeOK, Local, PCs
    <2> HIDE DEF x
    <2>3. TypeOK' /\ Others(r) /\ proc'[r] = x
      BY <1>2, <2>1, <2>2, StepType DEF TypeOK, Others
    <2>4. Roles' /\ NotStarted' /\ NoConflict'
      BY <1>1, <2>1, <2>2, <2>3, ProcsAssumption
         DEF Roles, NotStarted, NoConflict, Others, Procs, Writers
    <2>5. Exclusion'
      BY <1>1, <2>1, <2>2, <2>3 DEF Exclusion, Others, Numbering, Procs, Writers
    <2>6. FilesInv' /\ DatabaseInv' /\ ReportsInv'
      BY <1>1, <1>2, <2>1, <2>2, <2>3, FilesKept, DatabaseKept, ReportsKept
    <2>7. ReadersInv'
      BY <1>2, <2>2, <2>3 DEF ReadersInv, Pointed, OneSnapshot, Others, Procs, Ids
    <2> QED BY <2>3, <2>4, <2>5, <2>6, <2>7
  <1> QED BY <1>3, <1>4

LEMMA ReadRowsKeeps == ASSUME IInv, NEW r \in Procs, ReadRows(r) PROVE IInv'
  <1> USE DEF IInv
  <1>1. r \in Readers /\ r \notin Syncs /\ r \notin Writers /\ proc[r].pc = "pointed"
    BY ProcsAssumption DEF ReadRows, At, Roles, Procs, Writers
  <1> DEFINE last == Len(proc[r].got) = 1
             x == [proc[r] EXCEPT !.got = Append(@, snaps[proc[r].pointer]),
                                  !.pc = IF last THEN "done" ELSE "pointed"]
  <1>2. /\ proc' = [proc EXCEPT ![r] = x]
        /\ ended' = [ended EXCEPT ![r] = IF last THEN "succeeded" ELSE "none"]
        /\ UNCHANGED <<raw, flock, snaps, current, dblock, audits>>
    BY DEF ReadRows, files, database
  <1>3. /\ proc[r].pointer \in Ids /\ snaps[proc[r].pointer] \in Directories
        /\ proc[r] \in Local
    BY <1>1 DEF TypeOK, Ids, ReadersInv, Pointed
  <1>4. /\ x \in Local /\ x.pc \in {"pointed", "done"} /\ x.status = proc[r].status
        /\ x.pointer = proc[r].pointer
        /\ x.got = Append(proc[r].got, snaps[proc[r].pointer])
    <2>1. Append(proc[r].got, snaps[proc[r].pointer]) \in Seq(Directories)
      BY <1>3 DEF Local
    <2> QED BY <1>3, <2>1 DEF Local, PCs
  <1> HIDE DEF x
  <1>5. ended' \in [Procs -> Endings] /\ ended'[r] # "conflict"
    BY <1>2 DEF TypeOK, Endings
  <1>6. TypeOK' /\ Others(r) /\ proc'[r] = x
    BY <1>2, <1>4, <1>5, StepType DEF TypeOK, Others
  <1>7. Roles' /\ NotStarted' /\ NoConflict'
    BY <1>1, <1>4, <1>5, <1>6, ProcsAssumption
       DEF Roles, NotStarted, NoConflict, Others, Procs, Writers
  <1>8. Exclusion'
    BY <1>1, <1>2, <1>6 DEF Exclusion, Others, Numbering, Procs, Writers
  <1>9. proc[r].status # "updated"
    BY <1>1 DEF ReportsInv, Importers
  <1>10. FilesInv' /\ DatabaseInv' /\ ReportsInv'
    BY <1>1, <1>2, <1>4, <1>6, <1>9, FilesKept, DatabaseKept, ReportsKept
  <1>11. \A i \in DOMAIN x.got : x.got[i] = snaps[x.pointer]
    <2> DEFINE got == proc[r].got
               row == snaps[proc[r].pointer]
    <2>1. got \in Seq(Directories) /\ \A i \in DOMAIN got : got[i] = row
      BY <1>1, <1>3 DEF Local, ReadersInv, OneSnapshot
    <2> HIDE DEF got, row
    <2>2. \A i \in DOMAIN Append(got, row) : Append(got, row)[i] = row
      BY <2>1
    <2> QED BY <1>4, <2>2 DEF got, row
  <1>12. ReadersInv'
    BY <1>2, <1>3, <1>4, <1>6, <1>11 DEF ReadersInv, Pointed, OneSnapshot, Others, Procs, Ids
  <1> QED BY <1>6, <1>7, <1>8, <1>10, <1>12

LEMMA FailKeeps == ASSUME IInv, NEW s \in Procs, Fail(s) PROVE IInv'
  BY EndKeeps DEF Fail, Endings

LEMMA KillKeeps == ASSUME IInv, NEW p \in Procs, Kill(p) PROVE IInv'
  BY EndKeeps DEF Kill, Endings

LEMMA InitIInv == Init => IInv
  <1> SUFFICES ASSUME Init PROVE IInv
    OBVIOUS
  <1> USE NotBegunType DEF Init
  <1> HIDE DEF NotBegun
  <1>1. TypeOK
    BY DEF TypeOK, Ids, Endings
  <1>2. Roles /\ NotStarted /\ Exclusion /\ NoConflict
    BY DEF Roles, NotStarted, Exclusion, NoConflict, Numbering, Procs, Writers
  <1>3. FilesInv
    <2>1. \A v \in Versions : {d.rev : d \in Existing(v)} = 1..0
      BY DEF Existing
    <2>2. Numbered
      BY <2>1 DEF Numbered
    <2> QED BY <2>2 DEF FilesInv, RevisionsDiffer, Found, Procs, Writers
  <1>4. DatabaseInv
    BY DEF DatabaseInv, Read, DatabaseMatchesRaw, Ids, Procs, Writers
  <1>5. ReportsInv
    BY DEF ReportsInv, Importers, ReportedOnce, Ids, Procs, Writers
  <1>6. ReadersInv
    BY DEF ReadersInv, Pointed, OneSnapshot, Procs
  <1> QED BY <1>1, <1>2, <1>3, <1>4, <1>5, <1>6 DEF IInv

LEMMA StepIInv == IInv /\ [Next]_vars => IInv'
  <1> SUFFICES ASSUME IInv, [Next]_vars PROVE IInv'
    OBVIOUS
  <1>1. CASE Next
    <2>1. PICK p \in Procs : Begin(p) \/ Step(p) \/ Fail(p) \/ Kill(p)
      BY <1>1 DEF Next
    <2>2. CASE Begin(p)
      BY <2>2, AcquireKeeps, SwitchBeginKeeps, ReadPointerKeeps DEF Begin
    <2>3. CASE Step(p)
      BY <2>3, DiscoverKeeps, DownloadKeeps, PublishKeeps, ReleaseKeeps, ImportBeginKeeps,
         ImportCommitKeeps, ReportKeeps, SwitchCommitKeeps, ReadRowsKeeps DEF Step
    <2>4. CASE Fail(p) \/ Kill(p)
      BY <2>4, FailKeeps, KillKeeps
    <2> QED BY <2>1, <2>2, <2>3, <2>4
  <1>2. CASE UNCHANGED vars
    <2> USE <1>2 DEF vars, IInv
    <2>1. TypeOK'
      BY DEF TypeOK, Local, Ids
    <2>2. Roles' /\ NotStarted' /\ Exclusion' /\ NoConflict'
      BY DEF Roles, NotStarted, Exclusion, NoConflict
    <2>3. FilesInv'
      BY DEF FilesInv, Numbered, RevisionsDiffer, Found, Existing
    <2>4. DatabaseInv'
      BY DEF DatabaseInv, Read, DatabaseMatchesRaw, Ids, Imported
    <2>5. ReportsInv'
      BY DEF ReportsInv, Importers, ReportedOnce, Ids, At
    <2>6. ReadersInv'
      BY DEF ReadersInv, Pointed, OneSnapshot, Ids
    <2> QED BY <2>1, <2>2, <2>3, <2>4, <2>5, <2>6
  <1> QED BY <1>1, <1>2

THEOREM Invariance == Spec => []IInv
  BY InitIInv, StepIInv, PTL DEF Spec
-----------------------------------------------------------------------------
(* What follows.                                                           *)

(* Every variable keeps its type: what a process remembers of directories  *)
(* and snapshots exists, wherever it is stopped.                           *)
THEOREM TypeCorrect == Spec => []TypeOK
  BY Invariance, PTL DEF IInv

(* No command ever finds the name of its directory or a row of its import  *)
(* taken: neither _publish_snapshot nor a unique constraint of the         *)
(* database ends one, however many commands overlap, fail or are killed.   *)
THEOREM NoCommandConflicts == Spec => []NoConflict
  BY Invariance, PTL DEF IInv

(* The directories of a version are its revisions 1, 2, ..., and no two    *)
(* have the same content.                                                  *)
THEOREM RevisionsAreDistinct == Spec => []RevisionsDiffer
  BY Invariance, PTL DEF IInv, FilesInv

(* A snapshot of the database is a published directory that the parser     *)
(* accepts, and no directory is imported twice.                            *)
THEOREM DatabaseIsPublished == Spec => []DatabaseMatchesRaw
  BY Invariance, PTL DEF IInv, DatabaseInv

(* main is told of a snapshot at most once, and a snapshot of which it is  *)
(* not told is the import of a command that failed or still has to report. *)
THEOREM ReportsAreUnique == Spec => []ReportedOnce
  BY Invariance, PTL DEF IInv, ReportsInv

(* A response holds the rows of the one snapshot that it names, whatever   *)
(* is imported and wherever the pointer is moved between its statements.   *)
THEOREM ResponsesAreOfOneSnapshot == Spec => []OneSnapshot
  BY Invariance, PTL DEF IInv, ReadersInv
=============================================================================
