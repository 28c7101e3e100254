---------------------------- MODULE AnswerClaims ----------------------------
(***************************************************************************)
(* What the repository's documents say of an answer and the code does not  *)
(* do.  TLC finds a counterexample.                                        *)
(***************************************************************************)
EXTENDS AnswerStream

(* The usage the provider has reported is written to the run when it is    *)
(* completed, failed, cancelled or timed out.  execute() holds it only     *)
(* once _stream_text or _run_tool_loop has returned.                       *)
UsageIsRecorded ==
    run \in Terminal /\ exec # Idle /\ exec.reported > 0 => tokens # Unknown
=============================================================================
