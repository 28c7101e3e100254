-------------------------- MODULE ConversationClaims --------------------------
(***************************************************************************)
(* What the repository's documents say of conversations and the code does  *)
(* not do.  TLC finds a counterexample to each.                            *)
(***************************************************************************)
EXTENDS Conversations

(* An archived conversation takes no message and no change.  The services  *)
(* test a status that was loaded before the advisory lock was granted.     *)
ArchivedIsReadOnly ==
    [][status = "archived" =>
          /\ mode' = mode
          /\ rows' # rows => rows'[Len(rows')].by \notin Posts]_vars

(* Archiving twice is idempotent: the time of archiving is written once.   *)
ArchiveOnce == stamps <= 1

(* The advisory lock serialises the allocation of sequence numbers, so no  *)
(* POST fails over one.  create_assistant_message does not take the lock.  *)
SequenceSerialised == \A t \in Posts : reply[t].kind # "error"

(* 409 is answered to a request id that was used with another payload.     *)
(* _same_request compares the effective mode of a request without          *)
(* strategy_mode, which a PATCH changes.                                   *)
ConflictIsAnotherPayload == \A t \in Posts :
    reply[t].kind = "conflict" =>
        \E i \in Existing(tx[t].key) :
            LET u == rows[i].by IN tx[u].body # tx[t].body \/ tx[u].asks # tx[t].asks
=============================================================================
