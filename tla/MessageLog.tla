----------------------------- MODULE MessageLog -----------------------------
(***************************************************************************)
(* What a conversation promises its clients: an append-only log of         *)
(* messages, whose positions are the sequence numbers clients page by, and *)
(* one entry for a request id however often it is posted.                  *)
(***************************************************************************)
EXTENDS Naturals, Sequences

CONSTANTS
    Writers,  \* requests and answers that may write, each once
    NoKey     \* the request id of a message posted without one

VARIABLES
    log,      \* sequence of [key, body, mode]
    position  \* for each writer, the position it was told, 0 when none

vars == <<log, position>>

Init == log = <<>> /\ position = [w \in Writers |-> 0]

Fresh(key) == key = NoKey \/ \A i \in DOMAIN log : log[i].key # key

(* A writer appends an entry and is told its position.                     *)
Write(w) ==
    /\ position[w] = 0
    /\ Len(log') = Len(log) + 1
    /\ \A i \in DOMAIN log : log'[i] = log[i]
    /\ Fresh(log'[Len(log')].key)
    /\ position' = [position EXCEPT ![w] = Len(log')]

(* A writer is told the position of an entry that is there already.        *)
Replay(w) ==
    /\ position[w] = 0
    /\ \E i \in DOMAIN log :
           log[i].key # NoKey /\ position' = [position EXCEPT ![w] = i]
    /\ UNCHANGED log

Next == \E w \in Writers : Write(w) \/ Replay(w)

Spec == Init /\ [][Next]_vars
=============================================================================
