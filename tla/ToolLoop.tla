------------------------------ MODULE ToolLoop ------------------------------
(* The tool loop of one run (app/agent/orchestrator.py): the snapshot the  *)
(* run is pinned to, the rounds of tool calls the model asks for, and the  *)
(* rows of agent_tool_calls and agent_message_sources they leave behind.   *)
(* It is the inside of the step "llm" of AgentRuntime.  Every transaction  *)
(* runs in a worker thread the loop awaits; a cancellation, a newer        *)
(* message or the timeout raises CancelledError at that await, and a       *)
(* transaction whose thread has begun commits all the same, later.         *)
EXTENDS FiniteSets, Integers, Sequences

CONSTANTS
    Ids,            \* tool_use_id, chosen by the model provider
    Snapshots,      \* jcc_snapshots of the run's mode
    None,           \* no snapshot, no verdict
    MaxIterations,  \* agent_max_tool_iterations
    MaxCalls,       \* bound on the calls of one response
    MaxInterrupts,  \* bounds on what the environment does: cancellations,
    MaxCrashes,     \* crashes,
    MaxFaults,      \* database errors,
    MaxMoves        \* moves of the current snapshot

ASSUME IterationsAssumption == MaxIterations \in Nat /\ MaxCalls \in Nat \ {0}
ASSUME NoneAssumption == None \notin Snapshots \union {"completed", "cancelled", "failed"}

VARIABLES
    run,       \* agent_runs.status
    pin,       \* agent_runs.snapshot_id
    current,   \* jcc_current_snapshots.snapshot_id
    audits,    \* agent_tool_calls: status and snapshot by tool_use_id
    sources,   \* agent_message_sources: tool_use_id and snapshot
    loop,      \* the execution: where it is suspended and what it holds
    told,      \* what the model was told of each call in this execution
    late,      \* transactions of threads the loop no longer awaits
    executed,  \* history: calls whose tool was given to a thread
    clean,     \* history: nothing crashed, failed or was dropped so far
    spent      \* use of the bounds

vars == <<run, pin, current, audits, sources, loop, told, late, executed, clean, spent>>

Active == {"queued", "running", "cancelling"}
Verdicts == {"completed", "cancelled", "failed"}
Ended == {"succeeded", "failed", "timeout", "rejected", "cancelled"}

NoAudit == [status |-> "none", snap |-> None]

(* at: the await; round: range(max_tool_iterations + 1); calls: what is    *)
(* left of response.tool_calls, the current one first; write: the status   *)
(* _finish_tool_audit is writing; guarded: inside the try of the tool;     *)
(* verdict: how execute() ends.                                            *)
Off == [at |-> "off", snap |-> None, round |-> 0, calls |-> <<>>, write |-> "none",
        guarded |-> FALSE, verdict |-> None]

Lists == UNION {[1..n -> Ids] : n \in 0..MaxCalls}

TypeOK ==
    /\ run \in Active \union Verdicts
    /\ pin \in Snapshots \union {None}
    /\ current \in Snapshots \union {None}
    /\ audits \in [Ids -> [status : Ended \union {"none", "running"},
                           snap : Snapshots \union {None}]]
    /\ sources \subseteq [id : Ids, snap : Snapshots]
    /\ loop \in [at : {"off", "pin", "model", "audit", "tool", "finish", "sources", "end"},
                 snap : Snapshots \union {None}, round : 0..MaxIterations,
                 calls : Lists, write : Ended \union {"none"}, guarded : BOOLEAN,
                 verdict : Verdicts \union {None}]
    /\ told \in [Ids -> {"nothing", "ok", "error"}]
    /\ late \subseteq [kind : {"pin", "audit", "finish", "sources"},
                       id : Ids \union {None}, write : Ended \union {"none"},
                       snap : Snapshots \union {None}]
    /\ executed \subseteq Ids
    /\ clean \in BOOLEAN
    /\ spent \in [{"interrupt", "crash", "fault", "move"} -> Nat]

Init ==
    /\ run = "queued"
    /\ pin = None
    /\ current \in Snapshots \union {None}
    /\ audits = [i \in Ids |-> NoAudit]
    /\ sources = {}
    /\ loop = Off
    /\ told = [i \in Ids |-> "nothing"]
    /\ late = {}
    /\ executed = {}
    /\ clean = TRUE
    /\ spent = [x \in {"interrupt", "crash", "fault", "move"} |-> 0]

Bound(x) == CASE x = "interrupt" -> MaxInterrupts
              [] x = "crash"     -> MaxCrashes
              [] x = "fault"     -> MaxFaults
              [] x = "move"      -> MaxMoves

Spend(x) ==
    /\ spent[x] < Bound(x)
    /\ spent' = [spent EXCEPT ![x] = @ + 1]

At(place) == loop.at = place
Call == Head(loop.calls)
-----------------------------------------------------------------------------
(* The transactions.                                                       *)

(* Mutant: the run reads the current snapshot again when it is re-executed.*)
SnapshotOfRunBug == current

(* _resolve_snapshot keeps the snapshot the run has.                       *)
SnapshotOfRun == IF pin # None THEN pin ELSE current

(* ... and pins it, unless the run is no longer running.                   *)
PinTo(s) == pin' = IF run = "running" /\ pin = None THEN s ELSE pin

(* Mutant: a row with the same tool_use_id is used again.                  *)
CreateAuditBug(i, s) == audits' = [audits EXCEPT ![i] = [status |-> "running", snap |-> s]]

(* The unique key (run_id, tool_use_id) refuses a second row.              *)
CreateAudit(i, s) ==
    /\ audits[i] = NoAudit
    /\ audits' = [audits EXCEPT ![i] = [status |-> "running", snap |-> s]]

(* Mutant: the UPDATE has no condition on the old status.                  *)
FinishAuditBug(i, status) == audits' = [audits EXCEPT ![i].status = status]

(* update_tool_call: only a row that is still running is moved.            *)
FinishAudit(i, status) ==
    audits' = [audits EXCEPT ![i].status = IF @ = "running" THEN status ELSE @]

(* Every tool reads rows of the snapshot of its context, and names it.     *)
SourceOf(i) == [id |-> i, snap |-> loop.snap]

SaveSources(source) == sources' = sources \union {source}
-----------------------------------------------------------------------------
(* How the loop proceeds.                                                  *)

Goto(place) == loop' = [loop EXCEPT !.at = place]

Finish(status, guarded) ==
    loop' = [loop EXCEPT !.at = "finish", !.write = status, !.guarded = guarded]

End(verdict) == loop' = [loop EXCEPT !.at = "end", !.verdict = verdict, !.guarded = FALSE]

(* The result of the call goes to the next request of the model.           *)
NextCall(result) ==
    /\ told' = [told EXCEPT ![Call] = result]
    /\ loop' = [loop EXCEPT !.calls = Tail(@), !.write = "none", !.guarded = FALSE,
                            !.at = IF Len(loop.calls) = 1 THEN "model" ELSE "audit",
                            !.round = IF Len(loop.calls) = 1 THEN @ + 1 ELSE @]

(* The consumer starts execute(); _mark_running succeeds.                  *)
Begin ==
    /\ At("off")
    /\ run = "queued"
    /\ run' = "running"
    /\ loop' = [Off EXCEPT !.at = "pin"]
    /\ told' = [i \in Ids |-> "nothing"]
    /\ UNCHANGED <<pin, current, audits, sources, late, executed, clean, spent>>

(* No snapshot: agent_error "jcc_snapshot_unavailable".                    *)
ResolveSnapshot ==
    /\ At("pin")
    /\ PinTo(SnapshotOfRun)
    /\ IF SnapshotOfRun = None
         THEN End("failed")
         ELSE loop' = [loop EXCEPT !.at = "model", !.snap = SnapshotOfRun]
    /\ UNCHANGED <<run, current, audits, sources, told, late, executed, clean, spent>>

(* The model answers without tool calls: the loop returns.                 *)
ModelAnswers ==
    /\ At("model")
    /\ End("completed")
    /\ UNCHANGED <<run, pin, current, audits, sources, told, late, executed, clean, spent>>

(* It asks for tools, unless it has had max_tool_iterations rounds.        *)
ModelCalls(calls) ==
    /\ At("model")
    /\ calls # <<>>
    /\ IF loop.round >= MaxIterations
         THEN End("failed")
         ELSE loop' = [loop EXCEPT !.at = "audit", !.calls = calls]
    /\ UNCHANGED <<run, pin, current, audits, sources, told, late, executed, clean, spent>>

(* LLMError of the provider, or the save of its text fails.                *)
ModelFails ==
    /\ At("model")
    /\ End("failed")
    /\ UNCHANGED <<run, pin, current, audits, sources, told, late, executed, clean, spent>>

(* The audit row exists: look the tool up and validate its arguments.  An  *)
(* unknown tool and arguments it does not accept are rejected; otherwise   *)
(* the tool is given to a thread.  Publishing an event does not suspend.   *)
AuditCreated(accepted) ==
    /\ At("audit")
    /\ CreateAudit(Call, loop.snap)
    /\ IF accepted
         THEN /\ loop' = [loop EXCEPT !.at = "tool", !.guarded = TRUE]
              /\ executed' = executed \union {Call}
         ELSE /\ Finish("rejected", FALSE)
              /\ UNCHANGED executed
    /\ UNCHANGED <<run, pin, current, sources, told, late, clean, spent>>

(* IntegrityError: a call with this id was made before, in this execution  *)
(* or in the one a crash ended.                                            *)
AuditRefused ==
    /\ At("audit")
    /\ audits[Call] # NoAudit
    /\ End("failed")
    /\ UNCHANGED <<run, pin, current, audits, sources, told, late, executed, clean, spent>>

(* wait_for: the tool returns, returns too much, raises, or its time is    *)
(* over (its thread goes on, but tools only read).                         *)
ToolReturns(status, guarded) ==
    /\ At("tool")
    /\ Finish(status, guarded)
    /\ UNCHANGED <<run, pin, current, audits, sources, told, late, executed, clean, spent>>

ToolOutcome ==
    \/ ToolReturns("succeeded", TRUE)
    \/ ToolReturns("failed", TRUE)
    \/ ToolReturns("failed", FALSE)
    \/ ToolReturns("timeout", FALSE)

(* _finish_tool_audit has committed.                                       *)
AuditFinished ==
    /\ At("finish")
    /\ FinishAudit(Call, loop.write)
    /\ IF loop.verdict # None
         THEN End(loop.verdict) /\ UNCHANGED told
         ELSE IF loop.write = "succeeded"
                THEN Goto("sources") /\ UNCHANGED told
                ELSE NextCall("error")
    /\ UNCHANGED <<run, pin, current, sources, late, executed, clean, spent>>

(* _save_tool_sources has committed.                                       *)
SourcesSaved ==
    /\ At("sources")
    /\ SaveSources(SourceOf(Call))
    /\ NextCall("ok")
    /\ UNCHANGED <<run, pin, current, audits, late, executed, clean, spent>>
-----------------------------------------------------------------------------
(* Errors.                                                                 *)

(* Mutant: the result has been made, so the error is only logged.          *)
TransactionRaisesBug ==
    /\ loop.at \in {"pin", "audit", "finish", "sources"}
    /\ Spend("fault")
    /\ IF loop.guarded
         THEN NextCall(IF At("sources") THEN "ok" ELSE "error")
         ELSE End("failed") /\ UNCHANGED told
    /\ clean' = FALSE
    /\ UNCHANGED <<run, pin, current, audits, sources, late, executed>>

(* A transaction fails and rolls back.  Inside the try of the tool the     *)
(* call is recorded as failed and the model is told so; elsewhere the      *)
(* error ends the run.                                                     *)
TransactionRaises ==
    /\ loop.at \in {"pin", "audit", "finish", "sources"}
    /\ Spend("fault")
    /\ IF loop.guarded
         THEN Finish("failed", FALSE)
         ELSE End("failed")
    /\ clean' = FALSE
    /\ UNCHANGED <<run, pin, current, audits, sources, told, late, executed>>

(* The transaction the loop awaits when it is interrupted.                 *)
Awaited ==
    LET Thread(kind, id, snap) ==
            {[kind |-> kind, id |-> id, write |-> loop.write, snap |-> snap]}
    IN CASE At("pin")     -> Thread("pin", None, None)
         [] At("audit")   -> Thread("audit", Call, loop.snap)
         [] At("finish")  -> Thread("finish", Call, None)
         [] At("sources") -> Thread("sources", Call, SourceOf(Call).snap)
         [] OTHER         -> {}

(* Mutant: the try of the tool has no clause for CancelledError.           *)
UnwindBug(verdict) == End(verdict)

(* CancelledError: inside the try of the tool the call is recorded as      *)
(* cancelled before the error goes on.                                     *)
Unwind(verdict) ==
    IF loop.guarded
      THEN loop' = [loop EXCEPT !.at = "finish", !.write = "cancelled",
                                !.guarded = FALSE, !.verdict = verdict]
      ELSE End(verdict)

(* request_cancel and cancel(), a newer message or stop(), or the timeout  *)
(* of the run.  kept: the thread of the transaction has begun; otherwise   *)
(* it is dropped.  Of two reasons the timeout is the one that is forgotten.   *)
Interrupt(why, kept) ==
    /\ loop.at \notin {"off", "end"}
    /\ why = "timeout" => loop.verdict # "failed"
    /\ Spend("interrupt")
    /\ run' = IF why = "cancel" /\ run \in Active THEN "cancelling" ELSE run
    /\ IF loop.verdict # None
         THEN End("cancelled")
         ELSE Unwind(IF why = "timeout" THEN "failed" ELSE "cancelled")
    /\ late' = IF kept THEN late \union Awaited ELSE late
    /\ clean' = (clean /\ (kept \/ Awaited = {}))
    /\ UNCHANGED <<pin, current, audits, sources, told, executed>>

(* A thread nobody awaits commits, or its INSERT is refused.               *)
LateCommits(t) ==
    /\ t \in late
    /\ late' = late \ {t}
    /\ \/ t.kind = "pin" /\ PinTo(SnapshotOfRun) /\ UNCHANGED <<audits, sources>>
       \/ t.kind = "audit" /\ CreateAudit(t.id, t.snap) /\ UNCHANGED <<pin, sources>>
       \/ t.kind = "audit" /\ audits[t.id] # NoAudit /\ UNCHANGED <<pin, audits, sources>>
       \/ t.kind = "finish" /\ FinishAudit(t.id, t.write) /\ UNCHANGED <<pin, sources>>
       \/ /\ t.kind = "sources"
          /\ SaveSources([id |-> t.id, snap |-> t.snap])
          /\ UNCHANGED <<pin, audits>>
    /\ UNCHANGED <<run, current, loop, told, executed, clean, spent>>

(* cancel() writes the terminal status without waiting for the execution.  *)
MarkCancelled ==
    /\ run = "cancelling"
    /\ run' = "cancelled"
    /\ UNCHANGED <<pin, current, audits, sources, loop, told, late, executed, clean, spent>>

(* _complete, _cancel or _fail.  What interrupts these is in AgentRuntime. *)
ExecutionEnds ==
    /\ At("end")
    /\ run' = IF run \in (IF loop.verdict = "completed" THEN {"running"} ELSE Active)
                THEN loop.verdict ELSE run
    /\ loop' = Off
    /\ UNCHANGED <<pin, current, audits, sources, told, late, executed, clean, spent>>

(* The process dies; the next one requeues the run that was in execution.  *)
CrashAndRestart ==
    /\ run \in Active
    /\ Spend("crash")
    /\ run' = "queued"
    /\ loop' = Off
    /\ late' = {}
    /\ clean' = FALSE
    /\ UNCHANGED <<pin, current, audits, sources, told, executed>>

(* A sync command or an operator moves jcc_current_snapshots.              *)
MoveCurrent(s) ==
    /\ s # current
    /\ Spend("move")
    /\ current' = s
    /\ UNCHANGED <<run, pin, audits, sources, loop, told, late, executed, clean>>

Next ==
    \/ Begin
    \/ ResolveSnapshot
    \/ ModelAnswers
    \/ \E calls \in Lists : ModelCalls(calls)
    \/ ModelFails
    \/ \E accepted \in BOOLEAN : AuditCreated(accepted)
    \/ AuditRefused
    \/ ToolOutcome
    \/ AuditFinished
    \/ SourcesSaved
    \/ TransactionRaises
    \/ \E why \in {"cancel", "newer", "timeout"}, kept \in BOOLEAN : Interrupt(why, kept)
    \/ \E t \in late : LateCommits(t)
    \/ MarkCancelled
    \/ ExecutionEnds
    \/ CrashAndRestart
    \/ \E s \in Snapshots : MoveCurrent(s)

Spec == Init /\ [][Next]_vars
-----------------------------------------------------------------------------
(* The model is told "ok" only of a call whose audit says succeeded and    *)
(* whose sources are saved, and it is told nothing of a call that has no   *)
(* ended audit, whatever failed or was cancelled in between.               *)
ToldIsRecorded == \A i \in Ids :
    /\ told[i] = "ok" => audits[i].status = "succeeded" /\ \E s \in sources : s.id = i
    /\ told[i] = "error" => audits[i].status \in Ended

(* Sources belong to calls that succeeded: no thread that comes late saves *)
(* those of a call that was recorded as cancelled.                         *)
SourcesAreOfSuccesses == \A s \in sources : audits[s.id].status = "succeeded"

(* Every call and every source of a run is of the snapshot the run is      *)
(* pinned to, although the current snapshot moves and the run is executed  *)
(* again after a crash.                                                    *)
OneSnapshot ==
    /\ \A i \in Ids : audits[i] # NoAudit => audits[i].snap = pin
    /\ \A s \in sources : s.snap = pin

(* A call that has ended is not touched again: not by the thread that      *)
(* comes late, nor by a call of a later execution with the same id.        *)
EndedStaysEnded == [][\A i \in Ids :
    audits[i].status \in Ended => audits'[i] = audits[i]]_vars

(* When nothing crashed, failed or was dropped, every call whose tool ran  *)
(* has an ended audit once the execution and its threads are over.         *)
ExecutedCallsEnd ==
    clean /\ At("off") /\ late = {} => \A i \in executed : audits[i].status \in Ended
=============================================================================
