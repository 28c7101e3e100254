---------------------------- MODULE AgentRuntime ----------------------------
(***************************************************************************)
(* The latest-wins runtime of one conversation: ConversationRuntimeManager *)
(* (app/agent/runtime.py), AgentOrchestrator (app/agent/orchestrator.py)   *)
(* and the HTTP handlers that drive them (app/api/agent.py), over the rows *)
(* of agent_runs and agent_messages.  Conversations share no lock, queue   *)
(* or row, so one conversation is enough.                                  *)
(*                                                                         *)
(* One step is either what the event loop does between two suspension      *)
(* points, or the commit of one transaction in a worker thread.  Every     *)
(* transaction updates the run row, then the message row, then commits;    *)
(* the conditional UPDATE ... WHERE status IN (...) holds the run's row    *)
(* lock until the commit, so a transaction is one step.                    *)
(***************************************************************************)
EXTENDS Integers, Sequences, FiniteSets

CONSTANTS
    N,           \* how many user messages are posted at most
    MaxRetries,  \* bound on idempotent retries of a POST
    MaxCancels,  \* bound on calls of the cancel endpoint
    MaxCrashes,  \* bound on crashes and orderly stops of the process
    MaxFaults    \* bound on database errors inside the runtime

ASSUME NAssumption == N \in Nat \ {0}
ASSUME BoundsAssumption ==
    /\ MaxRetries \in Nat /\ MaxCancels \in Nat
    /\ MaxCrashes \in Nat /\ MaxFaults \in Nat

(* Messages are numbered in the order they are created (created_at).       *)
Messages == 1..N
NoMessage == 0

Terminal == {"completed", "failed", "cancelled"}
Active == {"queued", "running", "cancelling"}

(* agent_messages.status also allows "streaming", which no code assigns.   *)
Statuses == {"none"} \union Active \union Terminal

VARIABLES
    run,       \* agent_runs.status of each message ("none": no run row)
    msg,       \* agent_messages.status of each user message
    answers,   \* assistant messages inserted for each message
    mode,      \* the process: "starting", "up", "stopping", "down"
    recover,   \* runs listed by start() and not enqueued yet
    waiters,   \* enqueue() calls at runtime.lock, FIFO; the head holds it
    enq,       \* where the head of waiters is inside the lock
    queue,     \* runtime.queue
    consumer,  \* the task _consume
    exec,      \* runtime.current_message_id and its task execute()
    jobs,      \* worker-thread transactions that no coroutine awaits
    asked,     \* messages whose cancellation the API accepted
    published, \* terminal message.* events published for each message
    spent      \* how much of each bound has been used

db == <<run, msg, answers>>
process == <<recover, waiters, enq, queue, consumer, exec, jobs>>
vars == <<run, msg, answers, mode, recover, waiters, enq, queue, consumer,
          exec, jobs, asked, published, spent>>

JobKinds == {"mark_running", "complete", "cancel", "fail",
             "mark_cancelled", "cancel_queued_message"}
Jobs == [kind : JobKinds, m : Messages]

(* The points where the coroutine execute() can be suspended.              *)
ExecPCs == {"none", "fresh", "marking", "history", "llm", "completing",
            "cancelling", "failing", "done"}
Idle == [m |-> NoMessage, pc |-> "none"]
Live == exec.pc \notin {"none", "done"}

EnqPCs == {"free", "await", "select", "update", "put"}
Unlocked == [pc |-> "free", on |-> NoMessage, sel |-> {}]
-----------------------------------------------------------------------------
(* Status updates.                                                         *)

Move(status, S, from, to) ==
    [k \in Messages |-> IF k \in S /\ status[k] \in from THEN to ELSE status[k]]

(* update_run_status and update_message_status in one transaction          *)
UpdateStatus(S, from, to) ==
    /\ run' = Move(run, S, from, to)
    /\ msg' = Move(msg, S, from, to)

Publish(S, status) ==
    published' = [k \in Messages |->
        IF k \in S THEN published[k] \union {status} ELSE published[k]]

(* What the environment may do only so many times.                         *)
Budgets == {"retry", "cancel", "crash", "fault"}

Bound(what) ==
    CASE what = "retry"  -> MaxRetries
      [] what = "cancel" -> MaxCancels
      [] what = "crash"  -> MaxCrashes
      [] what = "fault"  -> MaxFaults

Spend(what) ==
    /\ spent[what] < Bound(what)
    /\ spent' = [spent EXCEPT ![what] = @ + 1]

Fault == Spend("fault")

(* Task.cancel() on current_task: CancelledError is raised at the await    *)
(* where execute() is suspended.  Before its try block nothing handles it. *)
(* A transaction it awaited is left to its thread (kept) or, when no       *)
(* thread has picked it up yet, dropped with its future.                   *)
AwaitedJob(pc) ==
    CASE pc = "marking"    -> {"mark_running"}
      [] pc = "completing" -> {"complete"}
      [] pc = "cancelling" -> {"cancel"}
      [] pc = "failing"    -> {"fail"}
      [] OTHER             -> {}

(* Mutant: the save of the answer is begun again when it is interrupted.   *)
AfterCancelBug(pc) ==
    IF pc = "llm" THEN "cancelling" ELSE IF pc = "completing" THEN pc ELSE "done"

AfterCancel(pc) == IF pc \in {"llm", "completing"} THEN "cancelling" ELSE "done"

Abandoned(kept) ==
    IF kept /\ Live THEN [kind : AwaitedJob(exec.pc), m : {exec.m}] ELSE {}

CancelledTask == IF Live THEN [exec EXCEPT !.pc = AfterCancel(@)] ELSE exec
-----------------------------------------------------------------------------
(* HTTP handlers.  They are coroutines that use the database without       *)
(* suspending, so each runs up to its first await in one step.             *)

(* POST .../messages with a new request id: create_message, ensure_run,    *)
(* then enqueue() up to the acquisition of runtime.lock.                   *)
CreateMessage(m) ==
    /\ mode = "up"
    /\ msg[m] = "none"
    /\ \A k \in 1..(m - 1) : msg[k] # "none"
    /\ msg' = [msg EXCEPT ![m] = "queued"]
    /\ run' = [run EXCEPT ![m] = "queued"]
    /\ waiters' = Append(waiters, m)
    /\ UNCHANGED <<answers, mode, recover, enq, queue, consumer, exec, jobs,
                   asked, published, spent>>

(* The same POST again: create_message finds the row, ensure_run finds or  *)
(* creates the run, and the handler enqueues it when it is still queued.   *)
RetryMessage(m) ==
    /\ mode = "up"
    /\ msg[m] # "none"
    /\ run[m] \in {"none", "queued"}
    /\ run' = [run EXCEPT ![m] = "queued"]
    /\ waiters' = Append(waiters, m)
    /\ Spend("retry")
    /\ UNCHANGED <<msg, answers, mode, recover, enq, queue, consumer, exec,
                   jobs, asked, published>>

(* The transaction of request_cancel, accepted unless the run is terminal. *)
RequestCancel(m) ==
    /\ UpdateStatus({m}, Active, "cancelling")
    /\ asked' = IF run[m] \in Active THEN asked \union {m} ELSE asked

(* POST .../cancel: request_cancel, then cancel() up to its to_thread.     *)
CancelMessage(m, kept) ==
    /\ mode = "up"
    /\ run[m] # "none"
    /\ RequestCancel(m)
    /\ IF exec.m = m
         THEN /\ exec' = CancelledTask
              /\ jobs' = jobs \union Abandoned(kept)
                              \union {[kind |-> "mark_cancelled", m |-> m]}
         ELSE /\ jobs' = jobs \union {[kind |-> "cancel_queued_message", m |-> m]}
              /\ UNCHANGED exec
    /\ Spend("cancel")
    /\ UNCHANGED <<answers, mode, recover, waiters, enq, queue, consumer,
                   published>>
-----------------------------------------------------------------------------
(* enqueue() of the message at the head of waiters, inside runtime.lock.   *)

Locked == waiters # <<>> /\ mode # "down"
Enqueued == Head(waiters)

(* Cancel the current task, if it has not finished, and await it.          *)
EnqueueStart(kept) ==
    /\ Locked
    /\ enq.pc = "free"
    /\ exec' = CancelledTask
    /\ jobs' = jobs \union Abandoned(kept)
    /\ enq' = IF Live THEN [enq EXCEPT !.pc = "await", !.on = exec.m]
                      ELSE [enq EXCEPT !.pc = "select"]
    /\ UNCHANGED <<run, msg, answers, mode, recover, waiters, queue, consumer,
                   asked, published, spent>>

EnqueueAwaited ==
    /\ Locked
    /\ enq.pc = "await"
    /\ ~ (exec.m = enq.on /\ Live)
    /\ enq' = [enq EXCEPT !.pc = "select"]
    /\ UNCHANGED <<run, msg, answers, mode, recover, waiters, queue, consumer,
                   exec, jobs, asked, published, spent>>

(* The transaction _cancel_queued reads the queued runs ...                *)
CancelQueuedSelect ==
    /\ Locked
    /\ enq.pc = "select"
    /\ enq' = [enq EXCEPT !.pc = "update",
                          !.sel = {k \in Messages \ {Enqueued} : run[k] = "queued"}]
    /\ UNCHANGED <<run, msg, answers, mode, recover, waiters, queue, consumer,
                   exec, jobs, asked, published, spent>>

(* Mutant: the UPDATE of _cancel_queued has no condition on the old status.*)
CancelQueuedUpdateBug ==
    /\ Locked
    /\ enq.pc = "update"
    /\ UpdateStatus(enq.sel, Active, "cancelled")
    /\ enq' = [enq EXCEPT !.pc = "put"]
    /\ UNCHANGED <<answers, mode, recover, waiters, queue, consumer, exec, jobs,
                   asked, published, spent>>

(* ... and cancels those of them that are queued when it updates them.     *)
CancelQueuedUpdate ==
    /\ Locked
    /\ enq.pc = "update"
    /\ UpdateStatus(enq.sel, {"queued"}, "cancelled")
    /\ enq' = [enq EXCEPT !.pc = "put"]
    /\ UNCHANGED <<answers, mode, recover, waiters, queue, consumer, exec, jobs,
                   asked, published, spent>>

(* Mutant: the queue is not emptied first.                                 *)
EnqueuePutBug ==
    /\ Locked
    /\ enq.pc = "put"
    /\ Publish(enq.sel, "cancelled")
    /\ queue' = Append(queue, Enqueued)
    /\ waiters' = Tail(waiters)
    /\ enq' = Unlocked
    /\ UNCHANGED <<run, msg, answers, mode, recover, consumer, exec, jobs,
                   asked, spent>>

(* Publish the superseded messages, empty the queue, put the new message   *)
(* and release the lock, without suspending.                               *)
EnqueuePut ==
    /\ Locked
    /\ enq.pc = "put"
    /\ Publish(enq.sel, "cancelled")
    /\ queue' = <<Enqueued>>
    /\ waiters' = Tail(waiters)
    /\ enq' = Unlocked
    /\ UNCHANGED <<run, msg, answers, mode, recover, consumer, exec, jobs,
                   asked, spent>>
-----------------------------------------------------------------------------
(* _consume.                                                               *)

(* Take an entry; unless its run is still queued, go back to get().        *)
ConsumerTake ==
    /\ mode # "down"
    /\ consumer = "get"
    /\ queue # <<>>
    /\ queue' = Tail(queue)
    /\ IF run[Head(queue)] = "queued"
         THEN /\ exec' = [m |-> Head(queue), pc |-> "fresh"]
              /\ consumer' = "exec"
         ELSE UNCHANGED <<exec, consumer>>
    /\ UNCHANGED <<run, msg, answers, mode, recover, waiters, enq, jobs, asked,
                   published, spent>>

(* Mutant: the CancelledError of a superseded execution ends the consumer. *)
ConsumerResumeBug ==
    /\ mode # "down"
    /\ consumer = "exec"
    /\ exec.pc = "done"
    /\ exec' = Idle
    /\ consumer' = IF enq.pc # "free" THEN "off" ELSE "get"
    /\ UNCHANGED <<run, msg, answers, mode, recover, waiters, enq, queue, jobs,
                   asked, published, spent>>

(* The awaited execution has ended: clear current_*, loop unless stopping. *)
ConsumerResume ==
    /\ mode # "down"
    /\ consumer = "exec"
    /\ exec.pc = "done"
    /\ exec' = Idle
    /\ consumer' = IF mode = "stopping" THEN "off" ELSE "get"
    /\ UNCHANGED <<run, msg, answers, mode, recover, waiters, enq, queue, jobs,
                   asked, published, spent>>
-----------------------------------------------------------------------------
(* execute().  Everything but LLM work is a transaction it awaits: the     *)
(* step is the commit and the resumption up to the next await.             *)

ExecAt(pc) == mode # "down" /\ exec.pc = pc

ExecGoesTo(pc) ==
    /\ exec' = [exec EXCEPT !.pc = pc]
    /\ UNCHANGED <<mode, recover, waiters, enq, queue, consumer, jobs, asked>>

ExecStart ==
    /\ ExecAt("fresh")
    /\ ExecGoesTo("marking")
    /\ UNCHANGED <<run, msg, answers, published, spent>>

(* _mark_running is all or nothing: it rolls back unless it moved the run  *)
(* and the message.                                                        *)
Startable(m) == run[m] = "queued" /\ msg[m] = "queued"

(* Mutant: a run that is being cancelled is started all the same.          *)
MarkRunningBug(m) == UpdateStatus({m}, {"queued", "cancelling"}, "running")

MarkRunning(m) ==
    UpdateStatus(IF Startable(m) THEN {m} ELSE {}, {"queued"}, "running")

ExecMark ==
    /\ ExecAt("marking")
    /\ MarkRunning(exec.m)
    /\ ExecGoesTo(IF Startable(exec.m) THEN "history" ELSE "done")
    /\ UNCHANGED <<answers, published, spent>>

(* _history returns; execute() enters its try block.                       *)
ExecHistory ==
    /\ ExecAt("history")
    /\ ExecGoesTo("llm")
    /\ UNCHANGED <<run, msg, answers, published, spent>>

(* _stream_text or _run_tool_loop returns.  Its saves go from "running" to *)
(* "running".                                                              *)
LlmAnswers ==
    /\ ExecAt("llm")
    /\ ExecGoesTo("completing")
    /\ UNCHANGED <<run, msg, answers, published, spent>>

(* LLMError, no snapshot, output or tool limit, or asyncio.timeout.        *)
LlmFails ==
    /\ ExecAt("llm")
    /\ ExecGoesTo("failing")
    /\ UNCHANGED <<run, msg, answers, published, spent>>

(* Mutant: the UPDATE of _complete has no condition on the old status.     *)
CompleteRunBug(m) ==
    /\ UpdateStatus({m}, Active \union {"cancelled"}, "completed")
    /\ answers' = [answers EXCEPT ![m] = @ + 1]

(* _complete inserts the answer whether or not it moved the run.           *)
CompleteRun(m) ==
    /\ UpdateStatus({m}, {"running"}, "completed")
    /\ answers' = [answers EXCEPT ![m] = @ + 1]

ExecComplete ==
    /\ ExecAt("completing")
    /\ CompleteRun(exec.m)
    /\ Publish({exec.m}, "completed")
    /\ ExecGoesTo("done")
    /\ UNCHANGED spent

(* A database error in _complete, handled by "except Exception".           *)
CompleteRaises ==
    /\ ExecAt("completing")
    /\ Fault
    /\ ExecGoesTo("failing")
    /\ UNCHANGED <<run, msg, answers, published>>

(* Mutant: a cancelled run goes back to the queue.                         *)
FinishRunBug(m, status) ==
    UpdateStatus({m}, Active, IF status = "cancelled" THEN "queued" ELSE status)

FinishRun(m, status) == UpdateStatus({m}, Active, status)

(* Mutant: the clean-up of execute() needs runtime.lock.                   *)
ExecFinishBug(pc, status) ==
    /\ ExecAt(pc)
    /\ waiters = <<>>
    /\ FinishRun(exec.m, status)
    /\ Publish({exec.m}, status)
    /\ ExecGoesTo("done")
    /\ UNCHANGED <<answers, spent>>

ExecFinish(pc, status) ==
    /\ ExecAt(pc)
    /\ FinishRun(exec.m, status)
    /\ Publish({exec.m}, status)
    /\ ExecGoesTo("done")
    /\ UNCHANGED <<answers, spent>>

ExecCancel == ExecFinish("cancelling", "cancelled")
ExecFail == ExecFinish("failing", "failed")
-----------------------------------------------------------------------------
(* The transactions of worker threads that execute() no longer awaits, and *)
(* those of the cancel endpoint with what it publishes after them.         *)

(* Mutant: the run is moved from "queued" only.                            *)
CancelQueuedMessageBug(m) ==
    /\ run' = Move(run, {m}, {"queued"}, "cancelled")
    /\ msg' = Move(msg, {m}, {"queued", "cancelling"}, "cancelled")

(* _cancel_queued_message spares a run that is running.                    *)
CancelQueuedMessage(m) == UpdateStatus({m}, {"queued", "cancelling"}, "cancelled")

ThreadCommits(j) ==
    /\ mode # "down"
    /\ j \in jobs
    /\ jobs' = jobs \ {j}
    /\ \/ /\ j.kind = "mark_running"
          /\ MarkRunning(j.m)
          /\ UNCHANGED <<answers, published>>
       \/ /\ j.kind = "complete"
          /\ CompleteRun(j.m)
          /\ UNCHANGED published
       \/ /\ j.kind = "cancel"
          /\ FinishRun(j.m, "cancelled")
          /\ UNCHANGED <<answers, published>>
       \/ /\ j.kind = "fail"
          /\ FinishRun(j.m, "failed")
          /\ UNCHANGED <<answers, published>>
       \/ /\ j.kind = "mark_cancelled"
          /\ FinishRun(j.m, "cancelled")
          /\ Publish({j.m}, "cancelled")
          /\ UNCHANGED answers
       \/ /\ j.kind = "cancel_queued_message"
          /\ CancelQueuedMessage(j.m)
          /\ Publish({k \in {j.m} : {run[k], msg[k]} \cap {"queued", "cancelling"} # {}},
                     "cancelled")
          /\ UNCHANGED answers
    /\ UNCHANGED <<mode, recover, waiters, enq, queue, consumer, exec, asked, spent>>

(* The transaction fails and rolls back.                                   *)
ThreadRaises(j) ==
    /\ mode # "down"
    /\ j \in jobs
    /\ Fault
    /\ jobs' = jobs \ {j}
    /\ UNCHANGED <<db, mode, recover, waiters, enq, queue, consumer, exec, asked,
                   published>>
-----------------------------------------------------------------------------
(* The process ends: crashes and stop().                                   *)

LoseProcess ==
    /\ mode' = "down"
    /\ recover' = {}
    /\ waiters' = <<>>
    /\ enq' = Unlocked
    /\ queue' = <<>>
    /\ consumer' = "off"
    /\ exec' = Idle
    /\ jobs' = {}
    /\ UNCHANGED <<answers, asked, published>>

Crash ==
    /\ mode # "down"
    /\ Spend("crash")
    /\ LoseProcess
    /\ UNCHANGED <<run, msg>>

(* The crash falls between create_message and ensure_run, which commit     *)
(* separately: the message exists without a run.                           *)
CrashInCreateMessage(m) ==
    /\ mode = "up"
    /\ msg[m] = "none"
    /\ \A k \in 1..(m - 1) : msg[k] # "none"
    /\ Spend("crash")
    /\ msg' = [msg EXCEPT ![m] = "queued"]
    /\ LoseProcess
    /\ UNCHANGED run

(* stop(), when every request has been answered: cancel the execution and  *)
(* the consumer.                                                           *)
Stop(kept) ==
    /\ mode = "up"
    /\ waiters = <<>>
    /\ \A j \in jobs : j.kind \notin {"mark_cancelled", "cancel_queued_message"}
    /\ Spend("crash")
    /\ mode' = "stopping"
    /\ exec' = CancelledTask
    /\ jobs' = jobs \union Abandoned(kept)
    /\ consumer' = IF consumer = "get" THEN "off" ELSE consumer
    /\ UNCHANGED <<run, msg, answers, recover, waiters, enq, queue, asked, published>>

(* The grace period is over: cancel what is still pending.                 *)
StopTimesOut(kept) ==
    /\ mode = "stopping"
    /\ Live
    /\ exec' = CancelledTask
    /\ jobs' = jobs \union Abandoned(kept)
    /\ UNCHANGED <<db, mode, recover, waiters, enq, queue, consumer, asked,
                   published, spent>>

(* The process exits when its tasks are over and its threads joined.       *)
Exit ==
    /\ mode = "stopping"
    /\ consumer = "off"
    /\ jobs = {}
    /\ waiters = <<>>
    /\ LoseProcess
    /\ UNCHANGED <<run, msg, spent>>

-----------------------------------------------------------------------------
(* Database errors nothing in the runtime handles.                         *)

(* The error leaves the enqueue() that holds the lock: its message is      *)
(* neither put nor cancelled.  Raised inside start(), it ends the process. *)
EnqueueFails ==
    IF mode = "starting"
      THEN LoseProcess
      ELSE /\ waiters' = Tail(waiters)
           /\ enq' = Unlocked
           /\ UNCHANGED <<mode, recover, queue, jobs, answers, asked, published>>

(* _cancel_queued fails and rolls back.                                    *)
CancelQueuedRaises ==
    /\ Locked
    /\ enq.pc \in {"select", "update"}
    /\ Fault
    /\ EnqueueFails
    /\ UNCHANGED <<run, msg>>
    /\ mode # "starting" => UNCHANGED <<consumer, exec>>

(* The check of _consume fails: the task ends, the entry it took is lost.  *)
ConsumerRaises ==
    /\ mode # "down"
    /\ consumer = "get"
    /\ queue # <<>>
    /\ Fault
    /\ queue' = Tail(queue)
    /\ consumer' = "off"
    /\ UNCHANGED <<db, mode, recover, waiters, enq, exec, jobs, asked, published>>

(* A transaction of execute() outside its try block fails: the error ends  *)
(* execute() and then _consume, and reaches an enqueue() that awaits it.   *)
ExecRaises ==
    /\ \E pc \in {"marking", "history", "cancelling", "failing"} : ExecAt(pc)
    /\ Fault
    /\ exec' = Idle
    /\ consumer' = "off"
    /\ IF waiters # <<>> /\ enq.pc = "await" /\ enq.on = exec.m
         THEN EnqueueFails
         ELSE UNCHANGED <<mode, recover, waiters, enq, queue, jobs, answers,
                          asked, published>>
    /\ UNCHANGED <<run, msg>>

-----------------------------------------------------------------------------
(* start().                                                                *)

(* Mutant: start() lists only the runs that are queued or running.         *)
RestartBug ==
    /\ mode = "down"
    /\ mode' = "starting"
    /\ recover' = {m \in Messages : run[m] \in {"queued", "running"}}
    /\ consumer' = "get"
    /\ UNCHANGED <<run, msg, answers, waiters, enq, queue, exec, jobs, asked,
                   published, spent>>

(* A new process: start() lists the recoverable runs before HTTP is served.*)
Restart ==
    /\ mode = "down"
    /\ mode' = "starting"
    /\ recover' = {m \in Messages : run[m] \in Active}
    /\ consumer' = "get"
    /\ UNCHANGED <<run, msg, answers, waiters, enq, queue, exec, jobs, asked,
                   published, spent>>

(* _enqueue_existing of the oldest run listed: requeue it when a previous  *)
(* process left it running or cancelling, then enqueue it.                 *)
EnqueueExisting(m) ==
    /\ mode = "starting"
    /\ waiters = <<>>
    /\ m \in recover
    /\ \A k \in recover : m <= k
    /\ recover' = recover \ {m}
    /\ UpdateStatus({m}, {"running", "cancelling"}, "queued")
    /\ waiters' = <<m>>
    /\ UNCHANGED <<answers, mode, enq, queue, consumer, exec, jobs, asked,
                   published, spent>>

Started ==
    /\ mode = "starting"
    /\ recover = {}
    /\ waiters = <<>>
    /\ mode' = "up"
    /\ UNCHANGED <<db, process, asked, published, spent>>
-----------------------------------------------------------------------------
Init ==
    /\ run = [m \in Messages |-> "none"]
    /\ msg = [m \in Messages |-> "none"]
    /\ answers = [m \in Messages |-> 0]
    /\ mode = "up"
    /\ recover = {}
    /\ waiters = <<>>
    /\ enq = Unlocked
    /\ queue = <<>>
    /\ consumer = "get"
    /\ exec = Idle
    /\ jobs = {}
    /\ asked = {}
    /\ published = [m \in Messages |-> {}]
    /\ spent = [b \in Budgets |-> 0]

Http == \E m \in Messages :
    \/ CreateMessage(m)
    \/ RetryMessage(m)
    \/ \E kept \in BOOLEAN : CancelMessage(m, kept)

Enqueue ==
    \/ \E kept \in BOOLEAN : EnqueueStart(kept)
    \/ EnqueueAwaited
    \/ CancelQueuedSelect
    \/ CancelQueuedUpdate
    \/ EnqueuePut

Consume == ConsumerTake \/ ConsumerResume

Execute ==
    \/ ExecStart \/ ExecMark \/ ExecHistory \/ LlmAnswers \/ LlmFails
    \/ ExecComplete \/ ExecCancel \/ ExecFail

Threads == \E j \in jobs : ThreadCommits(j)

Faults ==
    \/ CompleteRaises \/ ExecRaises \/ ConsumerRaises \/ CancelQueuedRaises
    \/ \E j \in jobs : ThreadRaises(j)

Lifespan ==
    \/ Crash
    \/ \E m \in Messages : CrashInCreateMessage(m)
    \/ \E kept \in BOOLEAN : Stop(kept) \/ StopTimesOut(kept)
    \/ Exit
    \/ Restart
    \/ \E m \in Messages : EnqueueExisting(m)
    \/ Started

Next == Http \/ Enqueue \/ Consume \/ Execute \/ Threads \/ Faults \/ Lifespan

Spec == Init /\ [][Next]_vars

(* The event loop runs every ready task, the pool every submitted job, and *)
(* asyncio.timeout ends LLM work.  A supervisor restarts the process, and  *)
(* the loop reaches the end of start() and of stop().                      *)
Fairness ==
    /\ WF_vars(Enqueue)
    /\ WF_vars(Consume)
    /\ WF_vars(Execute)
    /\ \A k \in JobKinds, m \in Messages :
           WF_vars(ThreadCommits([kind |-> k, m |-> m]))
    /\ WF_vars(Exit \/ Restart \/ Started \/ \E m \in Messages : EnqueueExisting(m))

FairSpec == Spec /\ Fairness
-----------------------------------------------------------------------------
(* Properties.                                                             *)

(* Types, and the capacity of runtime.queue: put_nowait never finds it     *)
(* full, so enqueue() never raises QueueFull.                              *)
TypeOK ==
    /\ run \in [Messages -> Statuses]
    /\ msg \in [Messages -> Statuses]
    /\ answers \in [Messages -> Nat]
    /\ mode \in {"starting", "up", "stopping", "down"}
    /\ recover \in SUBSET Messages
    /\ waiters \in Seq(Messages)
    /\ enq \in [pc : EnqPCs, on : Messages \union {NoMessage}, sel : SUBSET Messages]
    /\ queue \in Seq(Messages) /\ Len(queue) <= 1
    /\ consumer \in {"get", "exec", "off"}
    /\ exec \in [m : Messages \union {NoMessage}, pc : ExecPCs]
    /\ jobs \in SUBSET Jobs
    /\ asked \in SUBSET Messages
    /\ published \in [Messages -> SUBSET Terminal]
    /\ spent \in [Budgets -> Nat]
    /\ \A b \in Budgets : spent[b] <= Bound(b)

(* The run and its user message always have the same status, although each *)
(* transaction updates two tables with conditions of their own.            *)
RunMessageAgree == \A m \in Messages :
    IF run[m] = "none" THEN msg[m] \in {"none", "queued"} ELSE msg[m] = run[m]

(* execute() between _mark_running and the end of its run, not cancelled.  *)
Working == {"history", "llm", "completing", "failing"}

(* From the moment _mark_running succeeds until execute() is cancelled or  *)
(* finishes, nobody else moves its run: whoever cancels a run also cancels *)
(* its task, in the same step of the event loop.                           *)
ExecutingIsRunning ==
    exec.pc \in Working => run[exec.m] = "running"

(* Who may still write to a run: no thread is left with a transaction that *)
(* could move a run that is queued or executing, and no run is listed for  *)
(* requeueing while it is waiting, queued, executing or in a thread.       *)
JobsOwnNothing == \A j \in jobs : j.kind # "mark_running" =>
    /\ run[j.m] \notin {"none", "queued"}
    /\ ~ (exec.m = j.m /\ exec.pc \in Working)
    /\ j.kind \in {"mark_cancelled", "cancel_queued_message"} => run[j.m] # "running"

RecoverOwnsNothing == \A m \in recover :
    /\ mode = "starting"
    /\ run[m] # "none"
    /\ exec.m # m
    /\ \A j \in jobs : j.m # m
    /\ \A i \in DOMAIN waiters : waiters[i] # m
    /\ \A i \in DOMAIN queue : queue[i] # m

ExecShape ==
    /\ exec.pc = "none" <=> exec.m = NoMessage
    /\ exec.pc # "none" => run[exec.m] # "none"
    /\ exec.pc = "cancelling" => run[exec.m] # "queued"
    /\ \A m \in enq.sel : run[m] # "none"
    /\ mode = "down" => exec = Idle /\ jobs = {} /\ waiters = <<>> /\ queue = <<>>

Ownership == JobsOwnNothing /\ RecoverOwnsNothing /\ ExecShape

(* A terminal status is final, whatever transaction commits late.          *)
TerminalStable == [][\A m \in Messages :
    run[m] \in Terminal => run'[m] = run[m] /\ msg'[m] = msg[m]]_vars

(* A message whose cancellation was accepted is never completed.           *)
AskedNeverCompletes == \A m \in asked : run[m] # "completed"

(* Whatever is cancelled, retried or superseded, one process inserts one   *)
(* answer at most for a message, and one for every completed message.      *)
AnsweredOnce == \A m \in Messages :
    /\ answers[m] <= 1
    /\ run[m] = "completed" => answers[m] = 1

(* A queued message does not stay queued: the consumer takes it or a newer *)
(* message or the user cancels it; and a run that is "cancelling" reaches  *)
(* a terminal status.                                                      *)
WaitingSettles == \A m \in Messages :
    /\ run[m] = "queued" ~> run[m] # "queued"
    /\ run[m] = "cancelling" ~> run[m] \in Terminal

(* A run reaches a terminal status across crashes and restarts, unless the *)
(* database fails; and what a database error leaves behind, a run nobody   *)
(* executes or a consumer that has ended, the next start() settles.        *)
RunSettles == \A m \in Messages :
    /\ run[m] \in Active ~> run[m] \in Terminal \/ spent["fault"] > 0
    /\ mode = "down" /\ run[m] \in Active /\ spent["fault"] = MaxFaults
          ~> run[m] \in Terminal

(* Every enqueue() returns: the lock is never held for ever.               *)
EnqueueReturns == waiters # <<>> ~> waiters = <<>>

(* Each step of the runtime is a transition the status machine allows.     *)
Lifecycle == INSTANCE RunLifecycle WITH status <- run, serving <- mode = "up"
LifecycleSpec == Lifecycle!Spec
=============================================================================
