---------------------------- MODULE RunLifecycle ----------------------------
(***************************************************************************)
(* What the runtime promises of the status of each run, as a client that   *)
(* polls GET .../messages sees it: which transitions exist, and which of   *)
(* them only a new process may take before it serves requests.             *)
(***************************************************************************)
CONSTANT Messages

VARIABLES
    status,  \* agent_runs.status of each message
    serving  \* is the process up and serving requests?

vars == <<status, serving>>

Final == {"completed", "failed", "cancelled"}

Becomes(m, s) == status' = [status EXCEPT ![m] = s]

Init == status = [m \in Messages |-> "none"] /\ serving = TRUE

(* Requests of a client.                                                   *)
Submit(m) ==
    /\ serving
    /\ status[m] = "none"
    /\ Becomes(m, "queued")
    /\ UNCHANGED serving

RequestCancel(m) ==
    /\ serving
    /\ status[m] \in {"queued", "running"}
    /\ Becomes(m, "cancelling")
    /\ UNCHANGED serving

(* Newer messages replace queued ones, any number of them at once.         *)
Supersede(S) ==
    /\ \A m \in S : status[m] = "queued"
    /\ status' = [m \in Messages |-> IF m \in S THEN "cancelled" ELSE status[m]]
    /\ UNCHANGED serving

Start(m) ==
    /\ status[m] = "queued"
    /\ Becomes(m, "running")
    /\ UNCHANGED serving

(* Only a run nobody asked to cancel is completed.                         *)
Complete(m) ==
    /\ status[m] = "running"
    /\ Becomes(m, "completed")
    /\ UNCHANGED serving

Fail(m) ==
    /\ status[m] \in {"running", "cancelling"}
    /\ Becomes(m, "failed")
    /\ UNCHANGED serving

Cancel(m) ==
    /\ status[m] \in {"queued", "running", "cancelling"}
    /\ Becomes(m, "cancelled")
    /\ UNCHANGED serving

(* A run goes back to the queue only before the new process serves.        *)
Requeue(m) ==
    /\ ~serving
    /\ status[m] \in {"running", "cancelling"}
    /\ Becomes(m, "queued")
    /\ UNCHANGED serving

ProcessChanges == serving' = ~serving /\ UNCHANGED status

RunStep(m) ==
    \/ Submit(m) \/ RequestCancel(m) \/ Start(m) \/ Complete(m) \/ Fail(m)
    \/ Cancel(m) \/ Requeue(m)

Next ==
    \/ \E m \in Messages : RunStep(m)
    \/ \E S \in SUBSET Messages : Supersede(S)
    \/ ProcessChanges

Spec == Init /\ [][Next]_vars
=============================================================================
