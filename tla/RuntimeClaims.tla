---------------------------- MODULE RuntimeClaims ----------------------------
(***************************************************************************)
(* What the design documents say of the runtime and its code does not do.  *)
(* Each claim is checked on an instance where TLC finds it violated; the   *)
(* README tells the trace.                                                 *)
(***************************************************************************)
EXTENDS AgentRuntime

(* "At most one running run per conversation"                              *)
(* docs/JCC_AI_AGENT_RAG_IMPLEMENTATION_PHASE_2_PLAN.md:64                 *)
SingleRunning == \A k, m \in Messages :
    run[k] = "running" /\ run[m] = "running" => k = m

Newest(m) == msg[m] # "none" /\ \A k \in (m + 1)..N : msg[k] = "none"

(* "A new message cancels the current one and the old queued one; only the *)
(* newest is executed": nobody but the user cancels the newest message.    *)
(* docs/jcc-ai-agent-rag-implementation-plan.md:1278                       *)
NewestNotSuperseded == \A m \in Messages :
    Newest(m) /\ m \notin asked => run[m] # "cancelled"

(* "Even if an old message reaches the executor late, it is skipped because *)
(* its status is cancelled": a message announced as cancelled is not run.  *)
(* docs/jcc-ai-agent-rag-implementation-plan.md:494                        *)
SupersededIsSkipped == \A m \in Messages :
    "cancelled" \in published[m] => run[m] \notin {"running", "completed"}

(* "assistant message completed (on success)": only a completed run has    *)
(* an assistant message.                                                   *)
(* docs/JCC_AI_AGENT_RAG_IMPLEMENTATION_PHASE_2_EXECUTION.md:53            *)
AnswerOnSuccess == \A m \in Messages : answers[m] > 0 => run[m] = "completed"

(* "On shutdown ... keep the recoverable state of the database": an orderly *)
(* stop cancels no run on its own account.                                 *)
(* docs/JCC_AI_AGENT_RAG_IMPLEMENTATION_PHASE_2_PLAN.md:98                 *)
StopKeepsRuns == [][mode = "stopping" =>
    \A m \in Messages \ asked : run[m] = "running" => run'[m] # "cancelled"]_vars

(* "After a restart a queued message that was not cancelled is recovered": *)
(* start() does not cancel the newest message itself.                      *)
(* docs/jcc-ai-agent-rag-implementation-plan.md:1393                       *)
RestartKeepsNewest == [][mode = "starting" =>
    \A m \in Messages \ asked :
        Newest(m) /\ run[m] \in Active => run'[m] # "cancelled"]_vars

(* "Creating a message creates its run in the same transaction"            *)
(* docs/JCC_AI_AGENT_RAG_IMPLEMENTATION_PHASE_2_PLAN.md:88                 *)
MessageHasRun == \A m \in Messages : msg[m] # "none" => run[m] # "none"
=============================================================================
