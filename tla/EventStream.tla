----------------------------- MODULE EventStream -----------------------------
(***************************************************************************)
(* The server-sent events of one conversation (app/agent/runtime.py and    *)
(* message_events of app/api/agent.py): events are numbered and handed to  *)
(* subscribers on the event loop, each is stored by a worker thread of its *)
(* own, and a client that connects, or comes back with Last-Event-ID, gets *)
(* a replay first and the subscription afterwards.                         *)
(*                                                                         *)
(* How a run gets its statuses is AgentRuntime's subject.  Here a run is   *)
(* open until it is final, and whoever makes it final publishes that       *)
(* later: the executor, the caller that cancelled it, or both.             *)
(***************************************************************************)
EXTENDS Naturals, Sequences, FiniteSets

CONSTANTS
    N,            \* messages, each with its run
    Clients,      \* connections of the owner of the conversation
    HistoryMax,   \* length of event_history
    QueueMax,     \* capacity of a subscriber's queue
    MaxConnects,  \* agent_sse_max_connections_per_user
    MaxDeltas,    \* bound: events between "queued" and the final one
    MaxOpens,     \* bound: connections of each client
    MaxRestarts,  \* bound: processes that end
    MaxFaults     \* bound: transactions that fail

ASSUME EventAssumption ==
    /\ N \in Nat \ {0} /\ IsFiniteSet(Clients)
    /\ HistoryMax \in Nat \ {0} /\ QueueMax \in Nat \ {0} /\ MaxConnects \in Nat \ {0}
    /\ {MaxDeltas, MaxOpens, MaxRestarts, MaxFaults} \subseteq Nat

Messages == 1..N
None == 0

VARIABLES
    status,     \* agent_messages.status: "none", "open", "final"
    phase,      \* where the message is between POST and the end of execute()
    current,    \* current_run_id
    owed,       \* who has still to publish the final event of a run
    deltas,     \* events published by execute() for each run
    sequence,   \* event_sequence
    history,    \* event_history
    saving,     \* events whose _persist_event has not ended
    stored,     \* agent_run_events
    replayRun,  \* replay_run_id
    slots,      \* subscriber_users of the owner
    client,     \* each client: its request, subscription and what it received
    used        \* restarts and faults

runs == <<status, phase, current, owed, deltas>>
events == <<sequence, history, saving>>
vars == <<status, phase, current, owed, deltas, sequence, history, saving,
          stored, replayRun, slots, client, used>>

Kinds == {"queued", "delta", "final", "status"}
Event == [id : Nat, run : Messages, kind : Kinds]

NoRequest == [pc |-> "away", msg |-> None, opens |-> 0, rows |-> <<>>,
              final |-> FALSE, queue |-> <<>>, full |-> FALSE, since |-> 0, got |-> <<>>]

At(c, pc) == client[c].pc = pc
Subscribed(c) == client[c].pc \in {"replay", "live"}
-----------------------------------------------------------------------------
(* _publish                                                                *)

Last(s, n) == SubSeq(s, IF Len(s) > n THEN Len(s) - n + 1 ELSE 1, Len(s))

(* Mutant: a full queue gives up its oldest event for the new one.         *)
ReceivesBug(r, e) ==
    IF Len(r.queue) < QueueMax THEN [r EXCEPT !.queue = Append(@, e)]
                               ELSE [r EXCEPT !.queue = Append(Tail(@), e)]

(* A full queue refuses the event.                                         *)
Receives(r, e) ==
    IF Len(r.queue) < QueueMax THEN [r EXCEPT !.queue = Append(@, e)]
                               ELSE [r EXCEPT !.full = TRUE]

Publish(m, kind) ==
    LET e == [id |-> sequence + 1, run |-> m, kind |-> kind] IN
    /\ sequence' = sequence + 1
    /\ history' = Last(Append(history, e), HistoryMax)
    /\ saving' = saving \union {e}
    /\ client' = [c \in Clients |->
           IF Subscribed(c) THEN Receives(client[c], e) ELSE client[c]]

(* _persist_event: the unique key (run_id, sequence) keeps what is there.  *)
Taken(e) == \E r \in stored : r.run = e.run /\ r.id = e.id

Persist(e) ==
    /\ e \in saving
    /\ saving' = saving \ {e}
    /\ stored' = IF Taken(e) THEN stored ELSE stored \union {e}
    /\ UNCHANGED <<runs, sequence, history, replayRun, slots, client, used>>

PersistFails(e) ==
    /\ e \in saving
    /\ used.faults < MaxFaults
    /\ saving' = saving \ {e}
    /\ used' = [used EXCEPT !.faults = @ + 1]
    /\ UNCHANGED <<runs, sequence, history, stored, replayRun, slots, client>>
-----------------------------------------------------------------------------
(* The runs, as far as their events go.                                    *)

Post(m) ==
    /\ status[m] = "none"
    /\ m > 1 => status[m - 1] # "none"
    /\ status' = [status EXCEPT ![m] = "open"]
    /\ phase' = [phase EXCEPT ![m] = "posted"]
    /\ UNCHANGED <<current, owed, deltas, events, stored, replayRun, slots, client, used>>

(* enqueue() puts a message in place of those it has superseded.           *)
EnqueuePut(m) ==
    /\ phase[m] = "posted"
    /\ \A n \in Messages : phase[n] = "queued" => status[n] = "final"
    /\ phase' = [n \in Messages |-> IF n = m THEN "queued"
                                    ELSE IF phase[n] = "queued" THEN "done" ELSE phase[n]]
    /\ Publish(m, "queued")
    /\ UNCHANGED <<status, current, owed, deltas, stored, replayRun, slots, used>>

ConsumerTake(m) ==
    /\ phase[m] = "queued"
    /\ current = None
    /\ IF status[m] = "open"
         THEN phase' = [phase EXCEPT ![m] = "taken"] /\ current' = m
         ELSE phase' = [phase EXCEPT ![m] = "done"] /\ UNCHANGED current
    /\ UNCHANGED <<status, owed, deltas, events, stored, replayRun, slots, client, used>>

ExecPublish(m) ==
    /\ current = m
    /\ status[m] = "open"
    /\ deltas[m] < MaxDeltas
    /\ deltas' = [deltas EXCEPT ![m] = @ + 1]
    /\ Publish(m, "delta")
    /\ UNCHANGED <<status, phase, current, owed, stored, replayRun, slots, used>>

(* The final status is committed.  The run in execution is announced by    *)
(* execute(), by the request that cancelled it, or by both.                *)
Finish(m) ==
    /\ status[m] = "open"
    /\ status' = [status EXCEPT ![m] = "final"]
    /\ \E who \in SUBSET {"executor", "caller"} :
          /\ who # {}
          /\ "executor" \in who => current = m
          /\ owed' = [owed EXCEPT ![m] = who]
    /\ UNCHANGED <<phase, current, deltas, events, stored, replayRun, slots, client, used>>

Announce(m) ==
    \E who \in owed[m] :
        /\ owed' = [owed EXCEPT ![m] = @ \ {who}]
        /\ Publish(m, "final")
        /\ UNCHANGED <<status, phase, current, deltas, stored, replayRun, slots, used>>

ExecEnds(m) ==
    /\ current = m
    /\ status[m] = "final"
    /\ "executor" \notin owed[m]
    /\ current' = None
    /\ phase' = [phase EXCEPT ![m] = "done"]
    /\ UNCHANGED <<status, owed, deltas, events, stored, replayRun, slots, client, used>>
-----------------------------------------------------------------------------
(* message_events.  The request notes its run where the next request will  *)
(* note its own, and awaits a thread; with the thread's result it          *)
(* subscribes and reads the message again, in one step.                    *)

Open(c, m) ==
    /\ client[c].pc \in {"away", "closed"}
    /\ client[c].opens < MaxOpens
    /\ client[c].msg \in {None, m}
    /\ status[m] # "none"
    /\ replayRun' = m
    /\ client' = [client EXCEPT ![c].pc = "loading", ![c].msg = m, ![c].opens = @ + 1]
    /\ UNCHANGED <<runs, events, stored, slots, used>>

(* Last-Event-ID, which an event without an id does not change             *)
Cursor(c) ==
    LET ids == {client[c].got[i].id : i \in DOMAIN client[c].got}
    IN  CHOOSE i \in ids \union {0} : \A j \in ids : j <= i

(* The elements of S, those with a smaller key before the others.          *)
Sorted(S, key) ==
    CHOOSE s \in [1..Cardinality(S) -> S] :
        \A i, j \in 1..Cardinality(S) : i < j => key[s[i]] < key[s[j]]

ById(rows) == Sorted(rows, [r \in rows |-> r.id])

(* Mutant: what was stored is replayed from the start.                     *)
LoadBug(c) ==
    /\ At(c, "loading")
    /\ LET run == IF current # None THEN current ELSE replayRun
           rows == {r \in stored : r.run = run}
       IN  client' = [client EXCEPT ![c].pc = "loaded", ![c].rows = ById(rows)]
    /\ UNCHANGED <<runs, events, stored, replayRun, slots, used>>

Load(c) ==
    /\ At(c, "loading")
    /\ LET run == IF current # None THEN current ELSE replayRun
           rows == {r \in stored : r.run = run /\ r.id > Cursor(c)}
       IN  client' = [client EXCEPT ![c].pc = "loaded", ![c].rows = ById(rows)]
    /\ UNCHANGED <<runs, events, stored, replayRun, slots, used>>

(* _status_event has no id.                                                *)
StatusEvent(m) ==
    [id |-> 0, run |-> m, kind |-> IF status[m] = "final" THEN "final" ELSE "status"]

(* The events of the history after a cursor, in their order there.         *)
Recent(cursor) ==
    LET later == {i \in DOMAIN history : history[i].id > cursor}
        places == Sorted(later, [i \in later |-> i])
    IN  [i \in DOMAIN places |-> history[places[i]]]

(* Without stored events the history of the conversation is replayed, and  *)
(* without that the status is sent.                                        *)
Replay(c) ==
    LET recent == Recent(Cursor(c)) IN
    IF client[c].rows # <<>> THEN client[c].rows
    ELSE IF recent # <<>> THEN recent
    ELSE <<StatusEvent(client[c].msg)>>

(* Mutant: the message is not read again; it was open when the request     *)
(* came, unless nothing is left to be replayed.                            *)
SubscribeBug(c) ==
    /\ At(c, "loaded")
    /\ slots < MaxConnects
    /\ slots' = slots + 1
    /\ client' = [client EXCEPT ![c].pc = "replay", ![c].rows = Replay(c),
                                ![c].final = FALSE, ![c].queue = <<>>, ![c].full = FALSE,
                                ![c].since = sequence]
    /\ UNCHANGED <<runs, events, stored, replayRun, used>>

Subscribe(c) ==
    /\ At(c, "loaded")
    /\ slots < MaxConnects
    /\ slots' = slots + 1
    /\ client' = [client EXCEPT ![c].pc = "replay", ![c].rows = Replay(c),
                                ![c].final = (status[client[c].msg] = "final"),
                                ![c].queue = <<>>, ![c].full = FALSE, ![c].since = sequence]
    /\ UNCHANGED <<runs, events, stored, replayRun, used>>

(* 429                                                                     *)
Refuse(c) ==
    /\ At(c, "loaded")
    /\ slots >= MaxConnects
    /\ client' = [client EXCEPT ![c].pc = "closed"]
    /\ UNCHANGED <<runs, events, stored, replayRun, slots, used>>

(* refresh() fails after subscribe(): nobody will unsubscribe.             *)
RefreshFails(c) ==
    /\ At(c, "loaded")
    /\ slots < MaxConnects
    /\ used.faults < MaxFaults
    /\ slots' = slots + 1
    /\ client' = [client EXCEPT ![c].pc = "closed"]
    /\ used' = [used EXCEPT !.faults = @ + 1]
    /\ UNCHANGED <<runs, events, stored, replayRun>>

(* Mutant: a stream that ends by itself is not unsubscribed.               *)
EndsBug(c, ends) == UNCHANGED slots

(* The finally clause of stream(): unsubscribe.                            *)
Ends(c, ends) == slots' = IF ends THEN slots - 1 ELSE slots

(* stream() sends the replay; a final event ends it, whatever its run, ... *)
SendReplay(c) ==
    /\ At(c, "replay")
    /\ client[c].rows # <<>>
    /\ LET e == Head(client[c].rows)
           ends == e.kind = "final"
       IN  /\ client' = [client EXCEPT ![c].got = Append(@, e), ![c].rows = Tail(@),
                                       ![c].pc = IF ends THEN "closed" ELSE @]
           /\ Ends(c, ends)
    /\ UNCHANGED <<runs, events, stored, replayRun, used>>

(* ... then ends if the message was final, ...                             *)
EndReplay(c) ==
    /\ At(c, "replay")
    /\ client[c].rows = <<>>
    /\ client' = [client EXCEPT ![c].pc = IF client[c].final THEN "closed" ELSE "live"]
    /\ Ends(c, client[c].final)
    /\ UNCHANGED <<runs, events, stored, replayRun, used>>

(* ... and otherwise sends what the subscription receives.                 *)
Receive(c) ==
    /\ At(c, "live")
    /\ client[c].queue # <<>>
    /\ LET e == Head(client[c].queue)
           ends == e.kind = "final"
       IN  /\ client' = [client EXCEPT ![c].got = Append(@, e), ![c].queue = Tail(@),
                                       ![c].pc = IF ends THEN "closed" ELSE @]
           /\ Ends(c, ends)
    /\ UNCHANGED <<runs, events, stored, replayRun, used>>

Disconnect(c) ==
    /\ Subscribed(c)
    /\ client' = [client EXCEPT ![c].pc = "closed"]
    /\ Ends(c, TRUE)
    /\ UNCHANGED <<runs, events, stored, replayRun, used>>
-----------------------------------------------------------------------------
(* The process ends and another one starts: start() enqueues what is open. *)
Restart ==
    /\ used.restarts < MaxRestarts
    /\ used' = [used EXCEPT !.restarts = @ + 1]
    /\ phase' = [m \in Messages |-> IF status[m] = "open" THEN "posted"
                                    ELSE IF status[m] = "final" THEN "done" ELSE phase[m]]
    /\ current' = None
    /\ owed' = [m \in Messages |-> {}]
    /\ sequence' = 0 /\ history' = <<>> /\ saving' = {}
    /\ replayRun' = None
    /\ slots' = 0
    /\ client' = [c \in Clients |-> IF At(c, "away") THEN client[c]
                                    ELSE [client[c] EXCEPT !.pc = "closed"]]
    /\ UNCHANGED <<status, deltas, stored>>

Init ==
    /\ status = [m \in Messages |-> "none"]
    /\ phase = [m \in Messages |-> "none"]
    /\ current = None
    /\ owed = [m \in Messages |-> {}]
    /\ deltas = [m \in Messages |-> 0]
    /\ sequence = 0 /\ history = <<>> /\ saving = {}
    /\ stored = {}
    /\ replayRun = None
    /\ slots = 0
    /\ client = [c \in Clients |-> NoRequest]
    /\ used = [restarts |-> 0, faults |-> 0]

Run(m) == \/ Post(m) \/ EnqueuePut(m) \/ ConsumerTake(m) \/ ExecPublish(m)
          \/ Finish(m) \/ Announce(m) \/ ExecEnds(m)

Stream(c) == \/ Load(c) \/ Subscribe(c) \/ Refuse(c)
             \/ SendReplay(c) \/ EndReplay(c) \/ Receive(c)

Next ==
    \/ \E m \in Messages : Run(m)
    \/ \E e \in saving : Persist(e) \/ PersistFails(e)
    \/ \E c \in Clients : \/ \E m \in Messages : Open(c, m)
                          \/ Stream(c) \/ RefreshFails(c) \/ Disconnect(c)
    \/ Restart

Spec == Init /\ [][Next]_vars

(* Who has made a run final goes on to publish it, and a client that is    *)
(* connected reads.  Nobody is obliged to post, finish, connect or store.  *)
FairSpec ==
    /\ Spec
    /\ \A m \in Messages : WF_vars(Announce(m))
    /\ \A c \in Clients : WF_vars(Stream(c))
-----------------------------------------------------------------------------
(* Properties.                                                             *)

Request == [pc : {"away", "loading", "loaded", "replay", "live", "closed"},
            msg : Messages \union {None}, opens : 0..MaxOpens, rows : Seq(Event),
            final : BOOLEAN, queue : Seq(Event), full : BOOLEAN, since : Nat, got : Seq(Event)]

TypeOK ==
    /\ status \in [Messages -> {"none", "open", "final"}]
    /\ phase \in [Messages -> {"none", "posted", "queued", "taken", "done"}]
    /\ current \in Messages \union {None}
    /\ owed \in [Messages -> SUBSET {"executor", "caller"}]
    /\ deltas \in [Messages -> 0..MaxDeltas]
    /\ sequence \in Nat
    /\ history \in Seq(Event) /\ Len(history) <= HistoryMax
    /\ saving \subseteq Event
    /\ stored \subseteq Event /\ IsFiniteSet(stored)
    /\ replayRun \in Messages \union {None}
    /\ slots \in 0..MaxConnects
    /\ client \in [Clients -> Request]
    /\ \A c \in Clients : Len(client[c].queue) <= QueueMax
    /\ used \in [restarts : 0..MaxRestarts, faults : 0..MaxFaults]

(* Of the events with an id none is before one that is older or the same.  *)
InOrder(s) == \A i, j \in DOMAIN s :
    i < j /\ s[i].id # 0 /\ s[j].id # 0 => s[i].id < s[j].id

(* Over all connections of a client no event comes twice and none before   *)
(* an older one, although replay and subscription are two steps and        *)
(* threads store the events in any order; up to a restart, which numbers   *)
(* from 1 again.                                                           *)
IdsIncrease == used.restarts = 0 =>
    \A c \in Clients : InOrder(client[c].got)

(* From the moment of its subscription on, also while it is still sent the *)
(* replay, a client is to receive every event, up to the first one that a  *)
(* full queue refuses.  (since is the event_sequence at the subscription.) *)
NothingIsLost == \A c \in Clients : Subscribed(c) /\ ~client[c].full =>
    \A id \in client[c].since + 1..sequence :
        \/ \E i \in DOMAIN client[c].queue : client[c].queue[i].id = id
        \/ \E i \in DOMAIN client[c].got : client[c].got[i].id = id

(* The slots in use are those of the open streams and of the streams whose *)
(* refresh failed: no ending leaks a slot, and the limit holds although it *)
(* is tested before the subscription.                                      *)
SlotsAreStreams ==
    LET open == Cardinality({c \in Clients : Subscribed(c)}) IN
    open <= slots /\ slots <= open + used.faults

(* The stream of a message that is final ends, also when it became final   *)
(* while the request was waiting for its replay; only a full queue, which  *)
(* may have refused the final event, keeps a stream open.                  *)
StreamEnds == \A c \in Clients, m \in Messages :
    (Subscribed(c) /\ client[c].msg = m /\ status[m] = "final")
        ~> (~Subscribed(c) \/ client[c].full)
=============================================================================
