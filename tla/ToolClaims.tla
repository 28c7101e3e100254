----------------------------- MODULE ToolClaims -----------------------------
(* What a document says of tool calls and the code does not do.            *)
EXTENDS ToolLoop

(* docs/JCC_AI_AGENT_RAG_IMPLEMENTATION_PHASE_3_EXECUTION.md:48: audits    *)
(* are written to their terminal status.  A run that is interrupted while  *)
(* the audit row is being created leaves it running, and nothing looks at  *)
(* it again.                                                               *)
AuditsEnd ==
    run \in Verdicts /\ At("off") /\ late = {} =>
        \A i \in Ids : audits[i].status # "running"

(* docs/JCC_AI_AGENT_RAG_IMPLEMENTATION_PHASE_3_EXECUTION.md:48: calls and *)
(* their sources can be audited.  When the sources cannot be saved, the    *)
(* call keeps "succeeded" and the model is told that it failed.            *)
SuccessesHaveSources ==
    At("off") /\ late = {} => \A i \in Ids :
        told[i] # "nothing" => (audits[i].status = "succeeded") = (told[i] = "ok")
=============================================================================
