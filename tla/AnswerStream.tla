---------------------------- MODULE AnswerStream ----------------------------
(***************************************************************************)
(* The text and the token usage of one answer, from the provider to the    *)
(* client and the database: OpenAICompatibleClient (app/agent/llm),        *)
(* _stream_text, the turns of _run_tool_loop, _save_streaming, _complete   *)
(* and _finish (app/agent/orchestrator.py).                                *)
(*                                                                         *)
(* AgentRuntime has the tasks, locks and queues around one execution, and  *)
(* ToolLoop what a turn does with its tool calls.  Here every worker-      *)
(* thread transaction commits in a step of its own, between which the      *)
(* coroutine that awaits it may be cancelled, timed out or lost.           *)
(***************************************************************************)
EXTENDS Integers, SequencesExt

CONSTANTS
    Chunks,     \* pieces of text the provider may send
    Limit,      \* 8000: of a text stream, and of agent_messages.content
    MaxTurns,   \* agent_max_tool_iterations
    MaxUsage,   \* bound: usage counted in one execution
    MaxCancels, \* bound: calls of the cancel endpoint
    MaxNewer,   \* bound: newer messages of the conversation
    MaxCrashes, \* bound: crashes of the process
    MaxFaults   \* bound: transactions that fail

ASSUME AnswerAssumption ==
    {Limit, MaxTurns, MaxUsage, MaxCancels, MaxNewer, MaxCrashes, MaxFaults} \subseteq Nat

VARIABLES
    tools,   \* is there a tool registry?
    run,     \* agent_runs.status
    out,     \* agent_runs.output_content
    tokens,  \* agent_runs.input_tokens
    answers, \* content of the assistant messages inserted
    up,      \* does the process run?
    exec,    \* execute()
    jobs,    \* transactions in worker threads
    sent,    \* text of the text.delta events of this execution
    spent    \* how much of each bound has been used

row == <<run, out, tokens>>
vars == <<tools, run, out, tokens, answers, up, exec, jobs, sent, spent>>

Terminal == {"completed", "failed", "cancelled"}
Active == {"queued", "running", "cancelling"}

(* LLMUsage.  A count the provider has not given is NULL.                  *)
Unknown == -1

(* Mutant: the last report replaces those before it.                       *)
AddBug(u, v) == IF v = Unknown THEN u ELSE v

Add(u, v) == IF u = Unknown THEN v ELSE IF v = Unknown THEN u ELSE u + v

(* text: generated; counted: the usage inside _stream_text and             *)
(* _run_tool_loop; usage: the one execute() holds; delta: what is to be    *)
(* sent after the save; calls: does the turn ask for tools?  reported is   *)
(* what the provider has charged, kept for the properties.                 *)
Fresh == [pc |-> "ask", text |-> <<>>, counted |-> Unknown, usage |-> Unknown,
          delta |-> <<>>, calls |-> FALSE, turn |-> 0, reported |-> 0]
Idle == [Fresh EXCEPT !.pc = "idle"]

(* Where execute() is suspended: at the provider, in a worker thread, or   *)
(* in a tool.                                                              *)
TimedPCs == {"ask", "saving", "tools"}
LivePCs == TimedPCs \union {"completing", "cancelling", "failing"}
Live == exec.pc \in LivePCs

Kinds == {"save", "complete", "cancelled", "failed", "mark_cancelled", "cancel_queued"}
Job(kind, text, usage) == [kind |-> kind, text |-> text, usage |-> usage]

(* The transaction execute() awaits.                                       *)
AwaitedKind ==
    [pc \in LivePCs |-> CASE pc = "saving"     -> "save"
                          [] pc = "completing" -> "complete"
                          [] pc = "cancelling" -> "cancelled"
                          [] pc = "failing"    -> "failed"
                          [] OTHER             -> "none"]
Awaited == {j \in jobs : Live /\ j.kind = AwaitedKind[exec.pc]}

Spend(what, bound) == spent[what] < bound /\ spent' = [spent EXCEPT ![what] = @ + 1]
-----------------------------------------------------------------------------
(* execute() up to its first request to the provider: _mark_running and    *)
(* _history, one step here because what may go wrong between them is       *)
(* AgentRuntime's subject.                                                 *)
Start ==
    /\ up
    /\ run = "queued"
    /\ exec = Idle
    /\ run' = "running"
    /\ exec' = Fresh
    /\ sent' = <<>>
    /\ UNCHANGED <<tools, out, tokens, answers, up, jobs, spent>>

(* Hand a transaction to a thread and await it.                            *)
Await(state, pc, job) == exec' = [state EXCEPT !.pc = pc] /\ jobs' = jobs \union {job}

(* Mutant: only the delta is saved.                                        *)
SaveBug(state) == Await(state, "saving", Job("save", state.delta, Unknown))

Save(state) == Await(state, "saving", Job("save", state.text, Unknown))

(* The handlers of execute(), with the usage it holds.                     *)
FailWith(state) == Await(state, "failing", Job("failed", state.text, state.usage))

(* The stream or the tool loop returns its usage; _complete begins.        *)
Complete(state) ==
    LET done == [state EXCEPT !.usage = state.counted]
    IN  Await(done, "completing", Job("complete", done.text, done.usage))

Counted(usage) == [exec EXCEPT !.counted = Add(@, usage),
                               !.reported = IF usage = Unknown THEN @ ELSE @ + usage]
Usages == {u \in {Unknown, 1} : u = Unknown \/ exec.reported < MaxUsage}

(* A line of the stream with text, usage or both; a line that is not JSON  *)
(* or has neither is skipped.                                              *)
Delta(text, usage) ==
    /\ up /\ ~tools
    /\ exec.pc = "ask"
    /\ usage \in Usages
    /\ text # <<>> \/ usage # Unknown
    /\ LET next == [Counted(usage) EXCEPT !.text = @ \o text, !.delta = text]
       IN  IF Len(next.text) > Limit THEN FailWith(next) ELSE Save(next)
    /\ UNCHANGED <<tools, row, answers, up, sent, spent>>

(* "[DONE]", or the end of the body without it.                            *)
StreamEnds ==
    /\ up /\ ~tools
    /\ exec.pc = "ask"
    /\ Complete(exec)
    /\ UNCHANGED <<tools, row, answers, up, sent, spent>>

(* After the text of a turn: its tools, unless the turns are used up, or   *)
(* the end of the loop.                                                    *)
EndTurn(state) ==
    IF ~state.calls THEN Complete(state)
    ELSE IF state.turn >= MaxTurns THEN FailWith(state)
    ELSE exec' = [state EXCEPT !.pc = "tools"] /\ UNCHANGED jobs

(* complete_with_tools returns; the text of a turn is not limited.         *)
Response(text, usage, calls) ==
    /\ up /\ tools
    /\ exec.pc = "ask"
    /\ usage \in Usages
    /\ LET next == [Counted(usage) EXCEPT !.text = @ \o text, !.delta = text, !.calls = calls]
       IN  IF text # <<>> THEN Save(next) ELSE EndTurn(next)
    /\ UNCHANGED <<tools, row, answers, up, sent, spent>>

(* The audits and results of the turn are written; the next request.       *)
ToolsDone ==
    /\ up
    /\ exec.pc = "tools"
    /\ exec' = [exec EXCEPT !.pc = "ask", !.turn = @ + 1]
    /\ UNCHANGED <<tools, row, answers, up, jobs, sent, spent>>

(* The save is over: the delta is sent.                                    *)
SaveReturns ==
    /\ up
    /\ exec.pc = "saving" /\ Awaited = {}
    /\ sent' = sent \o exec.delta
    /\ IF tools THEN EndTurn(exec)
                ELSE exec' = [exec EXCEPT !.pc = "ask"] /\ UNCHANGED jobs
    /\ UNCHANGED <<tools, row, answers, up, spent>>

(* _complete, _cancel or _fail is over, and so is execute().               *)
FinishReturns ==
    /\ up
    /\ exec.pc \in {"completing", "cancelling", "failing"} /\ Awaited = {}
    /\ exec' = [exec EXCEPT !.pc = "done"]
    /\ UNCHANGED <<tools, row, answers, up, jobs, sent, spent>>

(* An error status, a broken connection, an HTTP timeout or an answer that *)
(* cannot be read: LLMError.                                               *)
ProviderFails ==
    /\ up
    /\ exec.pc = "ask"
    /\ FailWith(exec)
    /\ UNCHANGED <<tools, row, answers, up, sent, spent>>
-----------------------------------------------------------------------------
(* The transactions.                                                       *)

(* Mutant: the UPDATE has no condition on the old status.                  *)
SaveTextBug(j) ==
    /\ out' = j.text
    /\ run' = "running"
    /\ UNCHANGED <<tokens, answers>>

(* _save_streaming goes from "running" to "running".                       *)
SaveText(j) ==
    /\ out' = IF run = "running" THEN j.text ELSE out
    /\ UNCHANGED <<run, tokens, answers>>

(* A value that is None is not assigned.                                   *)
Tokens(usage) == IF usage = Unknown THEN tokens ELSE usage

FinishRow(from, status, j) ==
    IF run \in from
      THEN run' = status /\ out' = j.text /\ tokens' = Tokens(j.usage)
      ELSE UNCHANGED row

(* An empty answer is inserted as a blank; the check on the length of the  *)
(* content refuses one that is too long.                                   *)
Blank == <<" ">>
Content(text) == IF text = <<>> THEN Blank ELSE text
Fits(text) == Len(Content(text)) <= Limit

(* _complete inserts whether or not it has moved the run.                  *)
CompleteRow(j) ==
    /\ FinishRow({"running"}, "completed", j)
    /\ answers' = Append(answers, Content(j.text))

CancelRow(from) ==
    /\ run' = IF run \in from THEN "cancelled" ELSE run
    /\ UNCHANGED <<out, tokens, answers>>

Commits(j) ==
    \/ j.kind = "save" /\ SaveText(j)
    \/ j.kind = "complete" /\ CompleteRow(j)
    \/ j.kind \in {"cancelled", "failed"} /\ FinishRow(Active, j.kind, j) /\ UNCHANGED answers
    \/ j.kind = "mark_cancelled" /\ CancelRow(Active)
    \/ j.kind = "cancel_queued" /\ CancelRow({"queued", "cancelling"})

ThreadCommits(j) ==
    /\ up
    /\ j \in jobs
    /\ j.kind = "complete" => Fits(j.text)
    /\ Commits(j)
    /\ jobs' = jobs \ {j}
    /\ UNCHANGED <<tools, up, exec, sent, spent>>

(* The transaction rolls back.  execute() handles the error of a save or   *)
(* of _complete; that of a handler ends it.                                *)
RollsBack(j) ==
    /\ up
    /\ j \in jobs
    /\ IF j \notin Awaited
         THEN jobs' = jobs \ {j} /\ UNCHANGED exec
       ELSE IF j.kind \in {"save", "complete"}
         THEN /\ exec' = [exec EXCEPT !.pc = "failing"]
              /\ jobs' = (jobs \ {j}) \union {Job("failed", exec.text, exec.usage)}
         ELSE jobs' = jobs \ {j} /\ exec' = [exec EXCEPT !.pc = "done"]
    /\ UNCHANGED <<tools, row, answers, up, sent>>

ThreadRefused(j) ==
    /\ j.kind = "complete" /\ ~Fits(j.text)
    /\ RollsBack(j)
    /\ UNCHANGED spent

ThreadRaises(j) == RollsBack(j) /\ Spend("faults", MaxFaults)
-----------------------------------------------------------------------------
(* What interrupts an execution.  The transaction it awaits is left to its *)
(* thread (kept), or dropped when no thread has begun it.                  *)

LeftJobs(kept) == IF kept THEN jobs ELSE jobs \ Awaited

Interrupt(kept, how, others) ==
    IF exec.pc \in TimedPCs \union {"completing"}
      THEN /\ exec' = [exec EXCEPT !.pc = IF how = "cancelled" THEN "cancelling" ELSE "failing"]
           /\ jobs' = LeftJobs(kept) \union others
                          \union {Job(how, exec.text, exec.usage)}
      ELSE /\ exec' = [exec EXCEPT !.pc = "done"]
           /\ jobs' = LeftJobs(kept) \union others

(* Mutant: the provider and the tools are awaited outside the timeout.     *)
TimeoutBug(kept) ==
    /\ up
    /\ exec.pc = "saving"
    /\ Interrupt(kept, "failed", {})
    /\ UNCHANGED <<tools, row, answers, up, sent, spent>>

(* asyncio.timeout                                                         *)
Timeout(kept) ==
    /\ up
    /\ exec.pc \in TimedPCs
    /\ Interrupt(kept, "failed", {})
    /\ UNCHANGED <<tools, row, answers, up, sent, spent>>

(* POST .../cancel                                                         *)
UserCancels(kept) ==
    /\ up
    /\ Spend("cancels", MaxCancels)
    /\ run' = IF run \in Active THEN "cancelling" ELSE run
    /\ IF Live
         THEN Interrupt(kept, "cancelled", {Job("mark_cancelled", <<>>, Unknown)})
         ELSE /\ jobs' = jobs \union {Job("cancel_queued", <<>>, Unknown)}
              /\ UNCHANGED exec
    /\ UNCHANGED <<tools, out, tokens, answers, up, sent>>

(* enqueue() of a newer message: it cancels the execution, or the run that *)
(* waits for one.                                                          *)
NewerMessage(kept) ==
    /\ up
    /\ Spend("newer", MaxNewer)
    /\ \/ Live /\ Interrupt(kept, "cancelled", {}) /\ UNCHANGED run
       \/ ~Live /\ run = "queued" /\ run' = "cancelled" /\ UNCHANGED <<exec, jobs>>
    /\ UNCHANGED <<tools, out, tokens, answers, up, sent>>

Crash ==
    /\ up
    /\ Spend("crashes", MaxCrashes)
    /\ up' = FALSE
    /\ exec' = Idle /\ jobs' = {}
    /\ UNCHANGED <<tools, row, answers, sent>>

(* start() requeues the run; its output stays until the next save.         *)
Requeue ==
    /\ ~up
    /\ run \in {"running", "cancelling"}
    /\ run' = "queued"
    /\ UNCHANGED <<tools, out, tokens, answers, up, exec, jobs, sent, spent>>

Restart ==
    /\ ~up
    /\ run \notin {"running", "cancelling"}
    /\ up' = TRUE
    /\ UNCHANGED <<tools, row, answers, exec, jobs, sent, spent>>
-----------------------------------------------------------------------------
Init ==
    /\ tools \in BOOLEAN
    /\ run = "queued"
    /\ out = <<>> /\ tokens = Unknown /\ answers = <<>>
    /\ up = TRUE
    /\ exec = Idle
    /\ jobs = {}
    /\ sent = <<>>
    /\ spent = [b \in {"cancels", "newer", "crashes", "faults"} |-> 0]

Texts == {<<>>} \union {<<c>> : c \in Chunks}

Provider ==
    \/ \E text \in Texts, usage \in {Unknown, 1} :
          Delta(text, usage) \/ \E calls \in BOOLEAN : Response(text, usage, calls)
    \/ StreamEnds \/ ProviderFails

Resume == Start \/ ToolsDone \/ SaveReturns \/ FinishReturns

Threads == \E j \in jobs : ThreadCommits(j) \/ ThreadRefused(j)

Interrupts == \E kept \in BOOLEAN : UserCancels(kept) \/ NewerMessage(kept)

Next ==
    \/ Provider \/ Resume \/ Threads \/ Interrupts
    \/ \E kept \in BOOLEAN : Timeout(kept)
    \/ \E j \in jobs : ThreadRaises(j)
    \/ Crash \/ Requeue \/ Restart

Spec == Init /\ [][Next]_vars

(* The event loop runs what is ready, threads end, and asyncio.timeout     *)
(* fires.  Nothing is assumed of the provider or of a tool.                *)
FairSpec ==
    /\ Spec
    /\ WF_vars(Start \/ SaveReturns \/ FinishReturns)
    /\ WF_vars(Threads)
    /\ WF_vars(\E kept \in BOOLEAN : Timeout(kept))
-----------------------------------------------------------------------------
(* Properties.                                                             *)

AllTexts == Seq(Chunks)

TypeOK ==
    /\ tools \in BOOLEAN /\ up \in BOOLEAN
    /\ run \in Active \union Terminal
    /\ out \in AllTexts /\ sent \in AllTexts
    /\ tokens \in -1..MaxUsage
    /\ answers \in Seq(AllTexts \union {Blank})
    /\ exec \in [pc : LivePCs \union {"idle", "done"}, text : AllTexts, counted : -1..MaxUsage,
                usage : -1..MaxUsage, delta : AllTexts, calls : BOOLEAN,
                turn : 0..MaxTurns, reported : 0..MaxUsage]
    /\ jobs \subseteq [kind : Kinds, text : AllTexts, usage : -1..MaxUsage]
    /\ spent \in [{"cancels", "newer", "crashes", "faults"} -> Nat]

(* A client has never been sent text that is not stored: a client that     *)
(* reads the run instead of the events, or after they stop, finds at least *)
(* what the events showed it, also when the run ends by cancellation,      *)
(* timeout or an error.                                                    *)
SentIsStored == IsPrefix(sent, out)

(* An answer is whole: what _complete stored for the run, the assistant    *)
(* message and the text sent are the same, within the limit, and the run   *)
(* has all the usage the provider reported for it.                         *)
CompletedIsWhole == run = "completed" =>
    /\ out = sent /\ Len(out) <= Limit
    /\ answers # <<>> /\ Last(answers) = Content(out)
    /\ exec # Idle => tokens = IF exec.reported = 0 THEN Unknown ELSE exec.reported

(* What a run that has ended shows never changes, whatever saves and       *)
(* handlers of its execution are still in worker threads.                  *)
OutputIsFinal == [][(run \in Terminal) => out' = out /\ tokens' = tokens]_vars

(* An execution ends, whatever the provider and the tools do: execute()    *)
(* waits for them inside asyncio.timeout only.                             *)
ExecutionEnds == Live ~> ~Live

(* With every transaction in a step of its own the run still takes only    *)
(* transitions the status machine of the runtime allows.                   *)
Lifecycle == INSTANCE RunLifecycle WITH
    Messages <- {"m"}, status <- [m \in {"m"} |-> run], serving <- up

LifecycleSteps == [][Lifecycle!Next]_<<run, up>>
=============================================================================
