----------------------------- MODULE EventClaims -----------------------------
(***************************************************************************)
(* What the repository's documents say of the event stream and the code    *)
(* does not do; README.md has the counterexamples.                         *)
(***************************************************************************)
EXTENDS EventStream

(* A bounded history is kept for each run: what a request replays belongs  *)
(* to its run.  The history is one for the conversation, and the stored    *)
(* events are those of current_run_id, whichever message was asked for.    *)
ReplayIsOfTheRun == \A c \in Clients :
    At(c, "replay") => \A i \in DOMAIN client[c].rows : client[c].rows[i].run = client[c].msg

(* A stream ends with the final status of its message.  It ends with the   *)
(* final event of any run of the conversation.                             *)
EndsWithItsMessage ==
    [][\A c \in Clients : (Receive(c) \/ SendReplay(c)) /\ client'[c].pc = "closed"
           => status[client[c].msg] = "final"]_vars

(* A request for a final message is sent its final event before it ends.   *)
(* When events are stored and the final one is not yet, it ends without.   *)
TerminalIsReplayed ==
    [][\A c \in Clients : EndReplay(c) /\ client'[c].pc = "closed"
           => \E i \in DOMAIN client[c].got : client[c].got[i].kind = "final"]_vars

(* The id of an event is stable: with the run it names one event.  A new   *)
(* process counts from 1 again, and the unique key drops what it repeats.  *)
IdsAreStable ==
    \A e \in saving, r \in stored : e.run = r.run /\ e.id = r.id => e = r
=============================================================================
