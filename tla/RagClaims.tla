------------------------------ MODULE RagClaims ------------------------------
(***************************************************************************)
(* What the repository's documents say of the retrieval index and the code *)
(* does not do.  A run finds the counterexample of the first; README.md    *)
(* has the other.                                                          *)
(***************************************************************************)
EXTENDS RagIndex

(* A generation that fails is marked as failed.  The row of the run is of  *)
(* the transaction that is rolled back, so there is nothing to mark.       *)
FailedIsRecorded == \A i \in Commands : At(i, "failed") => gen[i].status = "failed"

(* Results are ranked by the terms of the query.  The limit is applied to  *)
(* the documents in the order of their last update, before they are        *)
(* ranked: a search need not find a document that has the term.            *)
FindsTheMatch == \A r \in Readers, term \in Contents :
    /\ reader[r].found # {}
    /\ \E d \in Documents : content[reader[r].snapshot][d] = term
    => \E h \in reader[r].found : h[2] = term
=============================================================================
