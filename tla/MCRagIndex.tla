----------------------------- MODULE MCRagIndex ------------------------------
(* RagIndex for TLC: only the documents have an order, so the instances of *)
(* everything else may be exchanged.                                       *)
EXTENDS RagIndex, TLC

Symmetry == Permutations(Snapshots) \union Permutations(Contents)
            \union Permutations(Models) \union Permutations(Commands)
=============================================================================
