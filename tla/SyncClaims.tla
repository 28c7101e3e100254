----------------------------- MODULE SyncClaims -----------------------------
(***************************************************************************)
(* What the repository's documents say of data synchronisation and the     *)
(* code does not do.  TLC finds a counterexample to each.                  *)
(***************************************************************************)
EXTENDS SnapshotSync

Commits(s) == At(s, "begun") /\ proc'[s].pc = "committed"

(* The file lock makes overlapping commands safe: what a normal run        *)
(* imports is no older than the revision that is current.  The import runs *)
(* after the lock is released, so that a command that is behind turns the  *)
(* current snapshot back to the directory it had read before.              *)
ImportIsNotStale ==
    [][\A s \in Syncs :
          Commits(s) /\ ~proc[s].force /\ current # 0
                     /\ snaps[current].version = proc[s].pick.version
             => snaps'[current'].rev >= snaps[current].rev]_vars

(* A normal run that finds its directory complete and imported leaves the  *)
(* current snapshot alone.  import_snapshot switches to any that matches.  *)
NormalRunKeepsCurrent ==
    [][\A s \in Syncs :
          Commits(s) /\ ~proc[s].force /\ proc[s].match # 0 /\ current # 0
             => current' = current]_vars
=============================================================================
