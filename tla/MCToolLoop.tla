----------------------------- MODULE MCToolLoop -----------------------------
(* ToolLoop for TLC.  Ids and snapshots are only compared, so they may be  *)
(* exchanged; the run checks no liveness.                                  *)
EXTENDS ToolLoop, TLC

Exchangeable == Permutations(Ids) \union Permutations(Snapshots)
=============================================================================
