------------------------- MODULE EventStreamProofs --------------------------
(* Theorems about EventStream, for any number of messages, clients,        *)
(* connections, restarts and faults, and any lengths of the history and of *)
(* the queues.                                                             *)
EXTENDS EventStream, FiniteSetTheorems, SequenceTheorems, TLAPS

(* No event of t that has an id is older than one of s.                    *)
Follows(s, t) == \A i \in DOMAIN s, j \in DOMAIN t : t[j].id # 0 => s[i].id < t[j].id

UpTo(s, n) == \A i \in DOMAIN s : s[i].id <= n

(* What a client has received comes before what it is still sent of its    *)
(* replay, and that before what waits in its queue; a replay is kept while *)
(* its request is not yet subscribed, a queue until the stream has ended.  *)
RequestInOrder(r, n) ==
    /\ InOrder(r.got) /\ UpTo(r.got, n)
    /\ r.pc \in {"loaded", "replay"} =>
          InOrder(r.rows) /\ UpTo(r.rows, n) /\ Follows(r.got, r.rows)
    /\ r.pc \in {"replay", "live"} =>
          InOrder(r.queue) /\ UpTo(r.queue, n) /\ Follows(r.got, r.queue)
    /\ r.pc = "replay" => Follows(r.rows, r.queue)

IdsAreOrdered == used.restarts = 0 =>
    /\ \A e \in saving \union stored : e.id <= sequence
    /\ InOrder(history) /\ UpTo(history, sequence)
    /\ \A c \in Clients : RequestInOrder(client[c], sequence)

(* The unique key of agent_run_events.                                     *)
IdsAreUnique == \A e, f \in stored : e.run = f.run /\ e.id = f.id => e = f

Asked == \A c \in Clients : client[c].pc # "away" => client[c].msg \in Messages

IInv ==
    /\ TypeOK /\ Asked /\ IdsAreOrdered /\ IdsAreUnique
    /\ NothingIsLost /\ SlotsAreStreams

(* The invariant, without what is about the runs only.                     *)
RunTypes ==
    /\ status \in [Messages -> {"none", "open", "final"}]
    /\ phase \in [Messages -> {"none", "posted", "queued", "taken", "done"}]
    /\ current \in Messages \union {None}
    /\ owed \in [Messages -> SUBSET {"executor", "caller"}]
    /\ deltas \in [Messages -> 0..MaxDeltas]

StreamTypes ==
    /\ sequence \in Nat
    /\ history \in Seq(Event) /\ Len(history) <= HistoryMax
    /\ saving \subseteq Event
    /\ stored \subseteq Event /\ IsFiniteSet(stored)
    /\ replayRun \in Messages \union {None}
    /\ slots \in 0..MaxConnects
    /\ client \in [Clients -> Request]
    /\ \A c \in Clients : Len(client[c].queue) <= QueueMax
    /\ used \in [restarts : 0..MaxRestarts, faults : 0..MaxFaults]

StreamInv ==
    /\ StreamTypes /\ Asked /\ IdsAreOrdered /\ IdsAreUnique
    /\ NothingIsLost /\ SlotsAreStreams

LEMMA Parts == IInv <=> RunTypes /\ StreamInv
  BY DEF IInv, TypeOK, RunTypes, StreamTypes, StreamInv

LEMMA PartsPrimed == RunTypes' /\ StreamInv' => IInv'
  BY DEF IInv, TypeOK, RunTypes, StreamTypes, StreamInv
-----------------------------------------------------------------------------
(* Sorting.  A finite set that could not be sorted would have a smallest   *)
(* subset that cannot, and that one without its last element can.          *)

LEMMA LastExists ==
  ASSUME NEW S, IsFiniteSet(S), S # {}, NEW key \in [S -> Nat]
  PROVE  \E x \in S : \A y \in S : key[y] <= key[x]
  <1> DEFINE HasLast(T) == \E x \in T : \A y \in T : key[y] <= key[x]
             Bad == {T \in FiniteSubsetsOf(S) : T # {} /\ ~HasLast(T)}
  <1> SUFFICES ASSUME ~HasLast(S) PROVE FALSE
    OBVIOUS
  <1>1. S \in Bad /\ Bad \subseteq FiniteSubsetsOf(S)
    BY DEF FiniteSubsetsOf
  <1>2. PICK T \in Bad : \A U \in Bad : <<U, T>> \notin StrictSubsetOrdering(S)
    BY <1>1, FS_StrictSubsetOrderingWellFounded, WFMin
  <1>3. T \subseteq S /\ IsFiniteSet(T) /\ T # {} /\ ~HasLast(T)
    BY <1>2 DEF FiniteSubsetsOf
  <1>4. PICK e : e \in T
    BY <1>3
  <1>5. T \ {e} \in SUBSET S /\ IsFiniteSet(T \ {e})
    BY <1>3, FS_RemoveElement
  <1>6. T \ {e} # {}
    BY <1>3, <1>4
  <1>7. T \ {e} \notin Bad
    BY <1>2, <1>3, <1>4, <1>5 DEF StrictSubsetOrdering
  <1>8. PICK m \in T \ {e} : \A y \in T \ {e} : key[y] <= key[m]
    BY <1>5, <1>6, <1>7 DEF FiniteSubsetsOf
  <1>9. key[m] \in Nat /\ key[e] \in Nat /\ \A y \in T : key[y] \in Nat
    BY <1>3, <1>4, <1>8
  <1>10. CASE key[e] <= key[m]
    BY <1>3, <1>8, <1>10
  <1>11. CASE key[m] <= key[e]
    BY <1>3, <1>4, <1>8, <1>9, <1>11
  <1> QED BY <1>9, <1>10, <1>11

IsSorted(s, S, key) ==
    /\ s \in [1..Cardinality(S) -> S]
    /\ \A i, j \in 1..Cardinality(S) : i < j => key[s[i]] < key[s[j]]

LEMMA SortedExists ==
  ASSUME NEW S, IsFiniteSet(S), NEW key \in [S -> Nat],
         \A x, y \in S : key[x] = key[y] => x = y
  PROVE  \E s : IsSorted(s, S, key)
  <1> DEFINE Bad == {T \in FiniteSubsetsOf(S) : ~\E s : IsSorted(s, T, key)}
  <1> SUFFICES ASSUME ~\E s : IsSorted(s, S, key) PROVE FALSE
    OBVIOUS
  <1>1. S \in Bad /\ Bad \subseteq FiniteSubsetsOf(S)
    BY DEF FiniteSubsetsOf
  <1>2. PICK T \in Bad : \A U \in Bad : <<U, T>> \notin StrictSubsetOrdering(S)
    BY <1>1, FS_StrictSubsetOrderingWellFounded, WFMin
  <1>3. T \subseteq S /\ IsFiniteSet(T) /\ ~\E s : IsSorted(s, T, key)
    BY <1>2 DEF FiniteSubsetsOf
  <1>4. T # {}
    <2> SUFFICES ASSUME T = {} PROVE FALSE
      OBVIOUS
    <2>1. Cardinality(T) = 0
      BY FS_EmptySet
    <2>2. IsSorted([i \in 1..0 |-> i], T, key)
      BY <2>1 DEF IsSorted
    <2> QED BY <1>3, <2>2
  <1> DEFINE low == [x \in T |-> key[x]]
  <1>5. low \in [T -> Nat] /\ \A x \in T : low[x] = key[x]
    BY <1>3
  <1> HIDE DEF low
  <1>6. PICK e \in T : \A y \in T : low[y] <= low[e]
    BY <1>3, <1>4, <1>5, LastExists
  <1> DEFINE U == T \ {e}
             n == Cardinality(U)
  <1>7. U \in SUBSET S /\ IsFiniteSet(U) /\ n \in Nat /\ Cardinality(T) = n + 1
    <2>1. U \in SUBSET S /\ IsFiniteSet(U) /\ n = Cardinality(T) - 1
      BY <1>3, <1>6, FS_RemoveElement
    <2>2. n \in Nat /\ Cardinality(T) \in Nat
      BY <1>3, <2>1, FS_CardinalityType
    <2> QED BY <2>1, <2>2
  <1>8. U \notin Bad
    <2>1. <<U, T>> \in StrictSubsetOrdering(S)
      BY <1>3, <1>6, <1>7 DEF StrictSubsetOrdering
    <2> QED BY <1>2, <2>1
  <1>9. PICK s : IsSorted(s, U, key)
    BY <1>7, <1>8 DEF FiniteSubsetsOf
  <1>10. \A y \in U : key[y] < key[e]
    BY <1>3, <1>5, <1>6
  <1> HIDE DEF n
  <1>11. s \in [1..n -> U] /\ \A i, j \in 1..n : i < j => key[s[i]] < key[s[j]]
    BY <1>9 DEF IsSorted, n
  <1> HIDE DEF U
  <1> DEFINE t == [i \in 1..n + 1 |-> IF i = n + 1 THEN e ELSE s[i]]
  <1>12. \A i \in 1..n + 1 : i # n + 1 => i \in 1..n
    BY <1>7
  <1>13. t \in [1..n + 1 -> T]
    BY <1>6, <1>11, <1>12 DEF U
  <1>14. \A i, j \in 1..n + 1 : i < j => key[t[i]] < key[t[j]]
    <2> SUFFICES ASSUME NEW i \in 1..n + 1, NEW j \in 1..n + 1, i < j
                 PROVE  key[t[i]] < key[t[j]]
      OBVIOUS
    <2>1. i \in 1..n /\ t[i] = s[i]
      BY <1>7
    <2>2. CASE j = n + 1
      BY <1>10, <1>11, <2>1, <2>2
    <2>3. CASE j \in 1..n
      BY <1>7, <1>11, <2>1, <2>3
    <2> QED BY <1>12, <2>2, <2>3
  <1>15. IsSorted(t, T, key)
    BY <1>7, <1>13, <1>14 DEF IsSorted
  <1> QED BY <1>3, <1>15

LEMMA SortedIsSorted ==
  ASSUME NEW S, IsFiniteSet(S), NEW key \in [S -> Nat],
         \A x, y \in S : key[x] = key[y] => x = y
  PROVE  IsSorted(Sorted(S, key), S, key)
  <1>1. PICK s : IsSorted(s, S, key)
    BY SortedExists
  <1> QED BY <1>1 DEF IsSorted, Sorted
-----------------------------------------------------------------------------
(* Sequences of events.                                                    *)

LEMMA EventSeq ==
  ASSUME NEW s \in Seq(Event)
  PROVE  /\ Len(s) \in Nat /\ DOMAIN s = 1..Len(s)
         /\ \A i \in DOMAIN s : s[i] \in Event /\ s[i].id \in Nat
  <1>1. Len(s) \in Nat /\ DOMAIN s = 1..Len(s) /\ \A i \in 1..Len(s) : s[i] \in Event
    BY LenProperties, ElementOfSeq
  <1> QED BY <1>1 DEF Event

LEMMA EmptyInOrder ==
  /\ <<>> \in Seq(Event) /\ Len(<<>>) = 0 /\ InOrder(<<>>)
  /\ \A n : UpTo(<<>>, n)
  /\ \A s : Follows(s, <<>>) /\ Follows(<<>>, s)
  <1>1. <<>> \in Seq(Event) /\ Len(<<>>) = 0 /\ DOMAIN <<>> = {}
    BY EmptySeq, LenProperties
  <1> QED BY <1>1 DEF InOrder, UpTo, Follows

LEMMA AppendSeq ==
  ASSUME NEW s \in Seq(Event), NEW e \in Event
  PROVE  /\ Append(s, e) \in Seq(Event) /\ Len(Append(s, e)) = Len(s) + 1
         /\ DOMAIN Append(s, e) = 1..Len(s) + 1
         /\ Append(s, e)[Len(s) + 1] = e
         /\ \A i \in DOMAIN s : i \in 1..Len(s) /\ Append(s, e)[i] = s[i]
         /\ \A i \in DOMAIN Append(s, e) : i \in DOMAIN s \/ i = Len(s) + 1
  <1>1. /\ Append(s, e) \in Seq(Event) /\ Len(Append(s, e)) = Len(s) + 1
        /\ \A i \in 1..Len(s) : Append(s, e)[i] = s[i]
        /\ Append(s, e)[Len(s) + 1] = e
    BY AppendProperties
  <1>2. DOMAIN Append(s, e) = 1..Len(s) + 1 /\ DOMAIN s = 1..Len(s) /\ Len(s) \in Nat
    BY <1>1, EventSeq
  <1> QED BY <1>1, <1>2

LEMMA AppendInOrder ==
  ASSUME NEW s \in Seq(Event), NEW e \in Event, NEW n \in Nat, InOrder(s), UpTo(s, n),
         e.id <= n, e.id # 0 => \A i \in DOMAIN s : s[i].id < e.id
  PROVE  InOrder(Append(s, e)) /\ UpTo(Append(s, e), n)
  <1> DEFINE t == Append(s, e)
  <1>1. /\ Len(s) \in Nat /\ DOMAIN s = 1..Len(s) /\ DOMAIN t = 1..Len(s) + 1
        /\ t[Len(s) + 1] = e /\ \A i \in DOMAIN s : t[i] = s[i]
        /\ \A i \in DOMAIN t : i \in DOMAIN s \/ i = Len(s) + 1
    BY AppendSeq, EventSeq
  <1> HIDE DEF t
  <1>2. UpTo(t, n)
    BY <1>1 DEF UpTo
  <1>3. InOrder(t)
    <2> SUFFICES ASSUME NEW i \in DOMAIN t, NEW j \in DOMAIN t, i < j,
                        t[i].id # 0, t[j].id # 0
                 PROVE  t[i].id < t[j].id
      BY DEF InOrder
    <2>1. i \in DOMAIN s
      BY <1>1
    <2>2. CASE j \in DOMAIN s
      BY <1>1, <2>1, <2>2 DEF InOrder
    <2>3. CASE j = Len(s) + 1
      BY <1>1, <2>1, <2>3
    <2> QED BY <1>1, <2>2, <2>3
  <1> QED BY <1>2, <1>3 DEF t

LEMMA TailSeq ==
  ASSUME NEW s \in Seq(Event), s # <<>>
  PROVE  /\ Head(s) \in Event /\ Tail(s) \in Seq(Event) /\ Len(Tail(s)) = Len(s) - 1
         /\ Len(s) \in Nat \ {0} /\ 1 \in DOMAIN s /\ Head(s) = s[1]
         /\ \A i \in DOMAIN Tail(s) : i + 1 \in DOMAIN s /\ Tail(s)[i] = s[i + 1] /\ 1 < i + 1
         /\ \A i \in DOMAIN s : i = 1 \/ (i - 1 \in DOMAIN Tail(s) /\ Tail(s)[i - 1] = s[i])
  <1>1. /\ Head(s) \in Event /\ Tail(s) \in Seq(Event) /\ Len(Tail(s)) = Len(s) - 1
        /\ \A i \in 1..Len(Tail(s)) : Tail(s)[i] = s[i + 1]
    BY HeadTailProperties
  <1>2. Len(s) \in Nat /\ DOMAIN s = 1..Len(s) /\ DOMAIN Tail(s) = 1..Len(Tail(s)) /\ Len(s) # 0
    BY <1>1, EventSeq, EmptySeq
  <1>3. Head(s) = s[1]
    BY HeadTailProperties
  <1> QED BY <1>1, <1>2, <1>3

LEMMA TailInOrder ==
  ASSUME NEW s \in Seq(Event), s # <<>>, NEW n \in Nat, InOrder(s), UpTo(s, n)
  PROVE  InOrder(Tail(s)) /\ UpTo(Tail(s), n) /\ Head(s).id <= n
  <1> DEFINE t == Tail(s)
  <1>1. /\ 1 \in DOMAIN s /\ Head(s) = s[1]
        /\ \A i \in DOMAIN t : i + 1 \in DOMAIN s /\ t[i] = s[i + 1] /\ 1 < i + 1 /\ i \in Nat
    BY TailSeq, EventSeq
  <1> HIDE DEF t
  <1>2. UpTo(t, n) /\ Head(s).id <= n
    BY <1>1 DEF UpTo
  <1>3. InOrder(t)
    <2> SUFFICES ASSUME NEW i \in DOMAIN t, NEW j \in DOMAIN t, i < j,
                        t[i].id # 0, t[j].id # 0
                 PROVE  t[i].id < t[j].id
      BY DEF InOrder
    <2>1. i + 1 < j + 1
      BY <1>1
    <2> QED BY <1>1, <2>1 DEF InOrder
  <1> QED BY <1>2, <1>3 DEF t

(* A function on 1..n is a sequence.                                       *)
LEMMA FunctionSeq ==
  ASSUME NEW S, NEW n \in Nat, NEW s \in [1..n -> S]
  PROVE  s \in Seq(S) /\ Len(s) = n /\ DOMAIN s = 1..n
  <1>1. s \in Seq(S)
    BY SeqDef
  <1> QED BY <1>1, LenProperties
-----------------------------------------------------------------------------
(* What is replayed.                                                       *)

LEMMA CursorIsLast ==
  ASSUME NEW c \in Clients, client[c].got \in Seq(Event)
  PROVE  /\ Cursor(c) \in Nat
         /\ \A i \in DOMAIN client[c].got : client[c].got[i].id <= Cursor(c)
  <1> DEFINE got == client[c].got
             ids == {got[i].id : i \in DOMAIN got}
  <1>1. DOMAIN got = 1..Len(got) /\ Len(got) \in Nat /\ \A i \in DOMAIN got : got[i].id \in Nat
    BY EventSeq
  <1>2. \E x \in ids \union {0} : \A j \in ids : j <= x
    <2>1. CASE DOMAIN got = {}
      BY <2>1
    <2>2. CASE DOMAIN got # {}
      <3> DEFINE key == [i \in DOMAIN got |-> got[i].id]
      <3>1. key \in [DOMAIN got -> Nat] /\ IsFiniteSet(DOMAIN got)
        BY <1>1, FS_Interval
      <3>2. PICK k \in DOMAIN got : \A i \in DOMAIN got : key[i] <= key[k]
        BY <2>2, <3>1, LastExists
      <3> QED BY <3>2
    <2> QED BY <2>1, <2>2
  <1>3. Cursor(c) \in ids \union {0} /\ \A j \in ids : j <= Cursor(c)
    BY <1>2 DEF Cursor
  <1> QED BY <1>1, <1>3

LEMMA StoredInOrder ==
  ASSUME NEW rows, rows \subseteq Event, IsFiniteSet(rows),
         \A e, f \in rows : e.id = f.id => e = f
  PROVE  /\ ById(rows) \in Seq(Event) /\ InOrder(ById(rows))
         /\ \A i \in DOMAIN ById(rows) : ById(rows)[i] \in rows
  <1> DEFINE key == [r \in rows |-> r.id]
             s == ById(rows)
             n == Cardinality(rows)
  <1>1. key \in [rows -> Nat] /\ \A e, f \in rows : key[e] = key[f] => e = f
    BY DEF Event
  <1>2. IsSorted(s, rows, key)
    BY <1>1, SortedIsSorted DEF ById
  <1>3. n \in Nat
    BY FS_CardinalityType
  <1>4. s \in [1..n -> rows] /\ \A i, j \in 1..n : i < j => s[i].id < s[j].id
    BY <1>2 DEF IsSorted
  <1> HIDE DEF s, n
  <1>5. s \in [1..n -> Event] /\ DOMAIN s = 1..n
    BY <1>4
  <1>6. s \in Seq(Event) /\ DOMAIN s = 1..n
    BY <1>3, <1>5, FunctionSeq
  <1>7. InOrder(s)
    BY <1>4, <1>6 DEF InOrder
  <1>8. \A i \in DOMAIN s : s[i] \in rows
    BY <1>4, <1>6
  <1> QED BY <1>6, <1>7, <1>8 DEF s

LEMMA RecentInOrder ==
  ASSUME history \in Seq(Event), NEW cursor \in Nat
  PROVE  /\ Recent(cursor) \in Seq(Event)
         /\ InOrder(history) => InOrder(Recent(cursor))
         /\ \A i \in DOMAIN Recent(cursor) :
               /\ Recent(cursor)[i].id > cursor
               /\ \E j \in DOMAIN history : Recent(cursor)[i] = history[j]
  <1> DEFINE later == {i \in DOMAIN history : history[i].id > cursor}
             places == Sorted(later, [i \in later |-> i])
             n == Cardinality(later)
             s == Recent(cursor)
  <1>1. DOMAIN history = 1..Len(history) /\ Len(history) \in Nat
        /\ \A i \in DOMAIN history : history[i] \in Event
    BY EventSeq
  <1>2. later \subseteq 1..Len(history) /\ later \subseteq Nat
    BY <1>1
  <1>3. IsFiniteSet(later) /\ n \in Nat
    <2>1. IsFiniteSet(1..Len(history))
      BY <1>1, FS_Interval
    <2>2. IsFiniteSet(later)
      BY <1>2, <2>1, FS_Subset
    <2> QED BY <2>2, FS_CardinalityType
  <1>4. IsSorted(places, later, [i \in later |-> i])
    BY <1>2, <1>3, SortedIsSorted
  <1>5. places \in [1..n -> later] /\ \A i, j \in 1..n : i < j => places[i] < places[j]
    BY <1>4 DEF IsSorted
  <1>6. s = [i \in DOMAIN places |-> history[places[i]]]
    BY DEF Recent
  <1>7. \A k \in later : k \in DOMAIN history /\ history[k].id > cursor
    OBVIOUS
  <1> HIDE DEF later, places, n, s
  <1>8. /\ s \in [1..n -> Event] /\ DOMAIN s = 1..n
        /\ \A i \in 1..n : s[i] = history[places[i]] /\ places[i] \in later
    BY <1>1, <1>5, <1>6, <1>7
  <1>9. s \in Seq(Event)
    BY <1>3, <1>8, FunctionSeq
  <1>10. InOrder(history) => InOrder(s)
    BY <1>5, <1>7, <1>8 DEF InOrder
  <1>11. \A i \in DOMAIN s : s[i].id > cursor /\ \E j \in DOMAIN history : s[i] = history[j]
    BY <1>7, <1>8
  <1> QED BY <1>9, <1>10, <1>11 DEF s
-----------------------------------------------------------------------------
(* Steps of one client.                                                    *)

Streams == {c \in Clients : Subscribed(c)}

LEMMA StreamsCounted ==
  /\ IsFiniteSet(Streams) /\ Cardinality(Streams) \in Nat
  /\ SlotsAreStreams <=> /\ Cardinality(Streams) <= slots
                         /\ slots <= Cardinality(Streams) + used.faults
  <1>1. IsFiniteSet(Streams)
    BY EventAssumption, FS_Subset DEF Streams
  <1> QED BY <1>1, FS_CardinalityType DEF SlotsAreStreams, Streams

LEMMA OneStreamChanges ==
  ASSUME NEW c \in Clients, \A d \in Clients \ {c} : client'[d] = client[d]
  PROVE  Cardinality(Streams') = Cardinality(Streams) + (IF Subscribed(c)' THEN 1 ELSE 0)
                                    - (IF Subscribed(c) THEN 1 ELSE 0)
  <1>1. IsFiniteSet(Streams) /\ Cardinality(Streams) \in Nat
    BY StreamsCounted
  <1>2. \A d \in Clients \ {c} : Subscribed(d)' <=> Subscribed(d)
    BY DEF Subscribed
  <1>3. c \in Streams <=> Subscribed(c)
    BY DEF Streams
  <1>4. CASE Subscribed(c)'
    <2>1. Streams' = Streams \union {c}
      BY <1>2, <1>4 DEF Streams
    <2>2. Cardinality(Streams \union {c}) = IF c \in Streams THEN Cardinality(Streams)
                                             ELSE Cardinality(Streams) + 1
      BY <1>1, FS_AddElement
    <2> QED BY <1>1, <1>3, <1>4, <2>1, <2>2
  <1>5. CASE ~Subscribed(c)'
    <2>1. Streams' = Streams \ {c}
      BY <1>2, <1>5 DEF Streams
    <2>2. Cardinality(Streams \ {c}) = IF c \in Streams THEN Cardinality(Streams) - 1
                                        ELSE Cardinality(Streams)
      BY <1>1, FS_RemoveElement
    <2> QED BY <1>1, <1>3, <1>5, <2>1, <2>2
  <1> QED BY <1>4, <1>5

(* A client that is subscribed has, or will read, what was published since.*)
ReceivedAll(r, n) == r.pc \in {"replay", "live"} /\ ~r.full =>
    \A id \in r.since + 1..n :
        \/ \E i \in DOMAIN r.queue : r.queue[i].id = id
        \/ \E i \in DOMAIN r.got : r.got[i].id = id

LEMMA LossesByClient == NothingIsLost <=> \A c \in Clients : ReceivedAll(client[c], sequence)
  BY DEF NothingIsLost, ReceivedAll, Subscribed

(* A slot is taken with a stream and given back with it, or lost to a      *)
(* fault.                                                                  *)
SlotFollows(c) ==
    \/ /\ used' = used
       /\ slots' = slots + (IF Subscribed(c)' THEN 1 ELSE 0) - (IF Subscribed(c) THEN 1 ELSE 0)
    \/ /\ used' = [used EXCEPT !.faults = @ + 1] /\ used.faults < MaxFaults
       /\ slots' = slots + 1 /\ ~Subscribed(c) /\ ~Subscribed(c)'

LEMMA ClientKeeps ==
  ASSUME StreamInv, NEW c \in Clients, client' \in [Clients -> Request],
         \A d \in Clients \ {c} : client'[d] = client[d],
         Len(client'[c].queue) <= QueueMax,
         UNCHANGED <<events, stored>>, replayRun' \in Messages \union {None},
         slots' <= MaxConnects, SlotFollows(c),
         client'[c].pc # "away" => client'[c].msg \in Messages,
         used.restarts = 0 => RequestInOrder(client'[c], sequence),
         ReceivedAll(client'[c], sequence)
  PROVE  StreamInv'
  <1> USE DEF StreamInv
  <1>1. /\ UNCHANGED <<sequence, history, saving, stored>> /\ slots \in Nat
        /\ used.faults \in 0..MaxFaults /\ used.restarts \in 0..MaxRestarts
        /\ MaxFaults \in Nat /\ MaxRestarts \in Nat /\ MaxConnects \in Nat
    BY EventAssumption DEF events, StreamTypes
  <1>2. /\ used' \in [restarts : 0..MaxRestarts, faults : 0..MaxFaults]
        /\ used'.restarts = used.restarts
        /\ used'.faults = used.faults + IF used' = used THEN 0 ELSE 1
    <2>1. CASE used' = used
      BY <1>1, <2>1 DEF StreamTypes
    <2>2. CASE used' = [used EXCEPT !.faults = @ + 1] /\ used.faults < MaxFaults
      <3>1. used.faults + 1 \in 0..MaxFaults /\ used.faults + 1 # used.faults
        BY <1>1, <2>2
      <3> QED BY <1>1, <2>2, <3>1 DEF StreamTypes
    <2> QED BY <2>1, <2>2 DEF SlotFollows
  <1>3. /\ Cardinality(Streams) \in Nat /\ Cardinality(Streams') \in Nat
        /\ Cardinality(Streams) <= slots /\ slots <= Cardinality(Streams) + used.faults
        /\ Cardinality(Streams') = Cardinality(Streams) + (IF Subscribed(c)' THEN 1 ELSE 0)
                                      - (IF Subscribed(c) THEN 1 ELSE 0)
    <2>1. Cardinality(Streams') \in Nat
      <3>1. IsFiniteSet(Streams')
        BY EventAssumption, FS_Subset DEF Streams
      <3> QED BY <3>1, FS_CardinalityType
    <2> QED BY <2>1, StreamsCounted, OneStreamChanges
  <1>4. /\ slots' \in 0..MaxConnects /\ Cardinality(Streams') <= slots'
        /\ slots' <= Cardinality(Streams') + used'.faults
    <2>1. CASE /\ used' = used
               /\ slots' = slots + (IF Subscribed(c)' THEN 1 ELSE 0)
                              - (IF Subscribed(c) THEN 1 ELSE 0)
      BY <1>1, <1>3, <2>1
    <2>2. CASE /\ used' = [used EXCEPT !.faults = @ + 1] /\ slots' = slots + 1
               /\ ~Subscribed(c) /\ ~Subscribed(c)'
      <3>1. used'.faults = used.faults + 1
        BY <2>2 DEF StreamTypes
      <3> QED BY <1>1, <1>3, <2>2, <3>1
    <2> QED BY <2>1, <2>2 DEF SlotFollows
  <1>5. StreamTypes'
    BY <1>1, <1>2, <1>4 DEF StreamTypes
  <1>6. IdsAreOrdered' /\ IdsAreUnique' /\ Asked'
    BY <1>1, <1>2 DEF IdsAreOrdered, IdsAreUnique, Asked
  <1>7. NothingIsLost'
    <2>1. \A d \in Clients : ReceivedAll(client'[d], sequence)
      BY LossesByClient
    <2> QED BY <1>1, <2>1 DEF NothingIsLost, ReceivedAll, Subscribed
  <1>8. SlotsAreStreams'
    BY <1>4 DEF SlotsAreStreams, Streams
  <1> QED BY <1>5, <1>6, <1>7, <1>8
-----------------------------------------------------------------------------
(* message_events.                                                         *)

LEMMA RequestType ==
  ASSUME StreamInv, NEW c \in Clients
  PROVE  /\ client \in [Clients -> Request] /\ client[c] \in Request
         /\ client[c].pc \in {"away", "loading", "loaded", "replay", "live", "closed"}
         /\ client[c].msg \in Messages \union {None} /\ client[c].opens \in 0..MaxOpens
         /\ client[c].rows \in Seq(Event) /\ client[c].final \in BOOLEAN
         /\ client[c].queue \in Seq(Event) /\ client[c].full \in BOOLEAN
         /\ client[c].since \in Nat /\ client[c].got \in Seq(Event)
         /\ Len(client[c].queue) <= QueueMax /\ sequence \in Nat /\ history \in Seq(Event)
         /\ slots \in 0..MaxConnects /\ slots <= MaxConnects
         /\ (used.restarts = 0 => RequestInOrder(client[c], sequence))
         /\ ReceivedAll(client[c], sequence)
         /\ (client[c].pc # "away" => client[c].msg \in Messages)
  <1>1. client[c] \in Request
    BY DEF StreamInv, StreamTypes
  <1>2. slots <= MaxConnects
    BY EventAssumption DEF StreamInv, StreamTypes
  <1>3. ReceivedAll(client[c], sequence)
    BY LossesByClient DEF StreamInv
  <1> QED BY <1>1, <1>2, <1>3 DEF StreamInv, StreamTypes, Request, IdsAreOrdered, Asked

(* Requests that are not subscribed, or no longer.                         *)
LEMMA UnsubscribedKeeps ==
  ASSUME StreamInv, NEW c \in Clients, NEW r \in Request,
         client' = [client EXCEPT ![c] = r], r.pc \in {"loading", "loaded", "closed"},
         r.msg \in Messages, r.got = client[c].got, r.queue = client[c].queue,
         r.pc = "loaded" /\ used.restarts = 0 =>
            InOrder(r.rows) /\ UpTo(r.rows, sequence) /\ Follows(r.got, r.rows),
         UNCHANGED <<events, stored>>, replayRun' \in Messages \union {None},
         slots' <= MaxConnects,
         \/ used' = used /\ slots' = slots - (IF Subscribed(c) THEN 1 ELSE 0)
         \/ /\ used' = [used EXCEPT !.faults = @ + 1] /\ used.faults < MaxFaults
            /\ slots' = slots + 1 /\ ~Subscribed(c)
  PROVE  StreamInv'
  <1>1. client' \in [Clients -> Request] /\ client'[c] = r
        /\ \A d \in Clients \ {c} : client'[d] = client[d]
    BY RequestType
  <1>2. slots \in Nat /\ ~Subscribed(c)'
    BY <1>1, RequestType, EventAssumption DEF Subscribed
  <1>3. SlotFollows(c)
    BY <1>2 DEF SlotFollows
  <1>4. used.restarts = 0 => RequestInOrder(r, sequence)
    BY RequestType DEF RequestInOrder
  <1>5. ReceivedAll(r, sequence)
    BY DEF ReceivedAll
  <1>6. Len(r.queue) <= QueueMax
    BY RequestType
  <1> QED BY <1>1, <1>3, <1>4, <1>5, <1>6, ClientKeeps

LEMMA OpenKeeps ==
  ASSUME StreamInv, NEW c \in Clients, NEW m \in Messages, Open(c, m)
  PROVE  StreamInv'
  <1> DEFINE opens == client[c].opens + 1
             r == [client[c] EXCEPT !.pc = "loading", !.msg = m, !.opens = opens]
  <1>1. /\ client[c].pc \in {"away", "closed"} /\ client[c].opens < MaxOpens
        /\ UNCHANGED <<events, stored, slots, used>> /\ replayRun' = m
        /\ client' = [client EXCEPT ![c] = r]
    BY RequestType DEF Open
  <1>2. opens \in 0..MaxOpens
    BY <1>1, RequestType, EventAssumption
  <1> HIDE DEF opens
  <1>3. /\ r \in Request /\ r.pc = "loading" /\ r.got = client[c].got /\ r.msg \in Messages
        /\ r.queue = client[c].queue
    BY <1>2, RequestType DEF Request
  <1> HIDE DEF r
  <1>4. /\ UNCHANGED <<events, stored>> /\ used' = used /\ slots' <= MaxConnects
        /\ slots' = slots - (IF Subscribed(c) THEN 1 ELSE 0)
        /\ replayRun' \in Messages \union {None}
    BY <1>1, RequestType, EventAssumption DEF Subscribed
  <1>5. ~(r.pc = "loaded" /\ used.restarts = 0)
    BY <1>3
  <1> QED BY <1>1, <1>3, <1>4, <1>5, UnsubscribedKeeps

LEMMA LoadKeeps ==
  ASSUME StreamInv, NEW c \in Clients, Load(c)
  PROVE  StreamInv'
  <1> DEFINE run == IF current # None THEN current ELSE replayRun
             found == {r \in stored : r.run = run /\ r.id > Cursor(c)}
             rows == ById(found)
             r == [client[c] EXCEPT !.pc = "loaded", !.rows = rows]
  <1>1. /\ client[c].pc = "loading" /\ UNCHANGED <<events, stored, replayRun, slots, used>>
        /\ client' = [client EXCEPT ![c] = r]
    BY RequestType DEF Load, At
  <1>2. /\ found \subseteq Event /\ IsFiniteSet(found)
        /\ \A e, f \in found : e.id = f.id => e = f
    BY FS_Subset DEF StreamInv, StreamTypes, IdsAreUnique
  <1>3. \A e \in found : e \in stored /\ e.id > Cursor(c)
    OBVIOUS
  <1> HIDE DEF found
  <1>4. /\ rows \in Seq(Event) /\ InOrder(rows) /\ \A i \in DOMAIN rows : rows[i] \in found
    BY <1>2, StoredInOrder
  <1>5. used.restarts = 0 => UpTo(rows, sequence)
    BY <1>3, <1>4 DEF UpTo, StreamInv, IdsAreOrdered
  <1>6. Follows(client[c].got, rows)
    <2>1. /\ Cursor(c) \in Nat
          /\ \A i \in DOMAIN client[c].got : client[c].got[i].id <= Cursor(c)
                                            /\ client[c].got[i].id \in Nat
      BY CursorIsLast, RequestType, EventSeq
    <2>2. \A j \in DOMAIN rows : rows[j].id > Cursor(c) /\ rows[j].id \in Nat
      BY <1>3, <1>4, EventSeq
    <2> HIDE DEF rows
    <2> QED BY <2>1, <2>2 DEF Follows
  <1> HIDE DEF rows
  <1>7. /\ r \in Request /\ r.pc = "loaded" /\ r.got = client[c].got /\ r.msg \in Messages
        /\ r.queue = client[c].queue /\ r.rows = rows
    BY <1>1, <1>4, RequestType DEF Request
  <1> HIDE DEF r
  <1>8. /\ UNCHANGED <<events, stored>> /\ used' = used /\ slots' <= MaxConnects
        /\ slots' = slots - (IF Subscribed(c) THEN 1 ELSE 0)
        /\ replayRun' \in Messages \union {None}
    BY <1>1, RequestType, EventAssumption DEF Subscribed, StreamInv, StreamTypes
  <1> QED BY <1>1, <1>4, <1>5, <1>6, <1>7, <1>8, UnsubscribedKeeps

(* 429, a failed refresh, and the end of a stream.                         *)
LEMMA ClosedKeeps ==
  ASSUME StreamInv, NEW c \in Clients, Refuse(c) \/ RefreshFails(c) \/ Disconnect(c)
  PROVE  StreamInv'
  <1> DEFINE r == [client[c] EXCEPT !.pc = "closed"]
  <1>1. client' = [client EXCEPT ![c] = r] /\ UNCHANGED <<events, stored, replayRun>>
    BY RequestType DEF Refuse, RefreshFails, Disconnect
  <1>2. /\ r \in Request /\ r.pc = "closed" /\ r.got = client[c].got /\ r.msg = client[c].msg
        /\ r.queue = client[c].queue
    BY RequestType DEF Request
  <1> HIDE DEF r
  <1>3. slots \in Nat /\ slots <= MaxConnects /\ MaxConnects \in Nat
        /\ replayRun' \in Messages \union {None}
    BY <1>1, RequestType, EventAssumption DEF StreamInv, StreamTypes
  <1>4. /\ slots' <= MaxConnects
        /\ \/ used' = used /\ slots' = slots - (IF Subscribed(c) THEN 1 ELSE 0)
           \/ /\ used' = [used EXCEPT !.faults = @ + 1] /\ used.faults < MaxFaults
              /\ slots' = slots + 1 /\ ~Subscribed(c)
    <2>1. CASE Refuse(c)
      BY <1>3, <2>1 DEF Refuse, At, Subscribed
    <2>2. CASE RefreshFails(c)
      BY <1>3, <2>2 DEF RefreshFails, At, Subscribed
    <2>3. CASE Disconnect(c)
      BY <1>3, <2>3 DEF Disconnect, Ends
    <2> QED BY <2>1, <2>2, <2>3
  <1>5. /\ UNCHANGED <<events, stored>> /\ ~(r.pc = "loaded" /\ used.restarts = 0)
        /\ r.msg \in Messages
    BY <1>1, <1>2, RequestType DEF Refuse, RefreshFails, Disconnect, At, Subscribed
  <1> QED BY <1>1, <1>2, <1>3, <1>4, <1>5, UnsubscribedKeeps

LEMMA StatusEventType ==
  ASSUME RunTypes, NEW m \in Messages \union {None}
  PROVE  StatusEvent(m).id = 0 /\ (m \in Messages => StatusEvent(m) \in Event)
  BY DEF StatusEvent, Event, Kinds

LEMMA ReplayInOrder ==
  ASSUME RunTypes, StreamInv, NEW c \in Clients, client[c].pc = "loaded"
  PROVE  /\ Replay(c) \in Seq(Event)
         /\ used.restarts = 0 => /\ InOrder(Replay(c)) /\ UpTo(Replay(c), sequence)
                                 /\ Follows(client[c].got, Replay(c))
  <1> DEFINE recent == Recent(Cursor(c))
             e == StatusEvent(client[c].msg)
  <1>0. client[c].got \in Seq(Event) /\ client[c].rows \in Seq(Event) /\ sequence \in Nat
        /\ history \in Seq(Event) /\ client[c].msg \in Messages
    BY RequestType
  <1>1. CASE client[c].rows # <<>>
    BY <1>0, <1>1, RequestType DEF Replay, RequestInOrder
  <1>2. CASE client[c].rows = <<>> /\ recent # <<>>
    <2>1. /\ Cursor(c) \in Nat
          /\ \A i \in DOMAIN client[c].got : client[c].got[i].id <= Cursor(c)
                                            /\ client[c].got[i].id \in Nat
      BY <1>0, CursorIsLast, EventSeq
    <2>2. /\ recent \in Seq(Event) /\ (InOrder(history) => InOrder(recent))
          /\ \A i \in DOMAIN recent : /\ recent[i].id > Cursor(c)
                                      /\ \E j \in DOMAIN history : recent[i] = history[j]
      BY <1>0, <2>1, RecentInOrder
    <2> HIDE DEF recent
    <2>3. \A i \in DOMAIN recent : recent[i].id \in Nat
      BY <2>2, EventSeq
    <2>4. Follows(client[c].got, recent)
      BY <2>1, <2>2, <2>3 DEF Follows
    <2>5. used.restarts = 0 => InOrder(recent) /\ UpTo(recent, sequence)
      BY <2>2 DEF UpTo, StreamInv, IdsAreOrdered
    <2>6. Replay(c) = recent
      BY <1>2 DEF Replay, recent
    <2> QED BY <2>2, <2>4, <2>5, <2>6
  <1>3. CASE client[c].rows = <<>> /\ recent = <<>>
    <2>1. Replay(c) = <<e>> /\ e \in Event /\ e.id = 0
      BY <1>0, <1>3, StatusEventType DEF Replay
    <2> HIDE DEF e
    <2>2. <<e>> \in Seq(Event) /\ DOMAIN <<e>> = 1..1 /\ \A i \in 1..1 : <<e>>[i].id = 0
      BY <2>1
    <2>3. InOrder(<<e>>) /\ UpTo(<<e>>, sequence) /\ Follows(client[c].got, <<e>>)
      BY <1>0, <2>2 DEF InOrder, UpTo, Follows
    <2> QED BY <2>1, <2>2, <2>3
  <1> QED BY <1>1, <1>2, <1>3

LEMMA SubscribeKeeps ==
  ASSUME RunTypes, StreamInv, NEW c \in Clients, Subscribe(c)
  PROVE  StreamInv'
  <1> DEFINE rows == Replay(c)
             final == status[client[c].msg] = "final"
             r == [client[c] EXCEPT !.pc = "replay", !.rows = rows, !.final = final,
                                    !.queue = <<>>, !.full = FALSE, !.since = sequence]
  <1>1. /\ client[c].pc = "loaded" /\ slots < MaxConnects /\ slots' = slots + 1
        /\ UNCHANGED <<events, stored, replayRun, used>>
        /\ client' = [client EXCEPT ![c] = r]
    BY RequestType DEF Subscribe, At
  <1>2. /\ rows \in Seq(Event)
        /\ used.restarts = 0 => /\ InOrder(rows) /\ UpTo(rows, sequence)
                                /\ Follows(client[c].got, rows)
    BY <1>1, ReplayInOrder
  <1>3. final \in BOOLEAN /\ <<>> \in Seq(Event) /\ sequence \in Nat
    BY RequestType, EmptyInOrder
  <1> HIDE DEF rows, final
  <1>4. /\ r \in Request /\ r.pc = "replay" /\ r.rows = rows /\ r.got = client[c].got
        /\ r.queue = <<>> /\ r.full = FALSE /\ r.since = sequence /\ r.msg = client[c].msg
    BY <1>2, <1>3, RequestType DEF Request
  <1> HIDE DEF r
  <1>5. client' \in [Clients -> Request] /\ client'[c] = r
        /\ \A d \in Clients \ {c} : client'[d] = client[d]
    BY <1>1, <1>4, RequestType
  <1>6. Len(r.queue) <= QueueMax
    BY <1>4, EmptyInOrder, EventAssumption
  <1>7. used.restarts = 0 => RequestInOrder(r, sequence)
    BY <1>2, <1>4, RequestType, EmptyInOrder DEF RequestInOrder
  <1>8. ReceivedAll(r, sequence)
    BY <1>3, <1>4 DEF ReceivedAll
  <1>9. ~Subscribed(c) /\ Subscribed(c)'
    BY <1>1, <1>4, <1>5 DEF Subscribed
  <1>10. SlotFollows(c) /\ slots' <= MaxConnects
    BY <1>1, <1>9, RequestType, EventAssumption DEF SlotFollows
  <1>11. r.msg \in Messages /\ UNCHANGED <<events, stored>>
         /\ replayRun' \in Messages \union {None}
    BY <1>1, <1>4, RequestType DEF StreamInv, StreamTypes
  <1> QED BY <1>5, <1>6, <1>7, <1>8, <1>10, <1>11, ClientKeeps

LEMMA HeadFirst ==
  ASSUME NEW s \in Seq(Event), s # <<>>, InOrder(s)
  PROVE  \A j \in DOMAIN Tail(s) : Tail(s)[j].id # 0 => Head(s).id < Tail(s)[j].id
  <1>1. /\ 1 \in DOMAIN s /\ Head(s) = s[1] /\ s[1].id \in Nat
        /\ \A j \in DOMAIN Tail(s) : /\ j + 1 \in DOMAIN s /\ Tail(s)[j] = s[j + 1] /\ 1 < j + 1
                                     /\ s[j + 1].id \in Nat
    BY TailSeq, EventSeq
  <1> QED BY <1>1 DEF InOrder

LEMMA FollowsTail ==
  ASSUME NEW s \in Seq(Event), NEW t \in Seq(Event), Follows(s, t)
  PROVE  /\ s # <<>> => /\ Follows(Tail(s), t)
                        /\ \A j \in DOMAIN t : t[j].id # 0 => Head(s).id < t[j].id
         /\ t # <<>> => /\ Follows(s, Tail(t))
                        /\ Head(t).id # 0 => \A i \in DOMAIN s : s[i].id < Head(t).id
  <1>1. ASSUME t # <<>>
        PROVE  /\ Follows(s, Tail(t))
               /\ Head(t).id # 0 => \A i \in DOMAIN s : s[i].id < Head(t).id
    <2>1. /\ 1 \in DOMAIN t /\ Head(t) = t[1]
          /\ \A i \in DOMAIN Tail(t) : i + 1 \in DOMAIN t /\ Tail(t)[i] = t[i + 1]
      BY <1>1, TailSeq
    <2> QED BY <2>1 DEF Follows
  <1>2. ASSUME s # <<>>
        PROVE  /\ Follows(Tail(s), t)
               /\ \A j \in DOMAIN t : t[j].id # 0 => Head(s).id < t[j].id
    <2>1. /\ 1 \in DOMAIN s /\ Head(s) = s[1]
          /\ \A i \in DOMAIN Tail(s) : i + 1 \in DOMAIN s /\ Tail(s)[i] = s[i + 1]
      BY <1>2, TailSeq
    <2> QED BY <2>1 DEF Follows
  <1> QED BY <1>1, <1>2

LEMMA FollowsAppend ==
  ASSUME NEW s \in Seq(Event), NEW t, NEW e \in Event, Follows(s, t),
         \A j \in DOMAIN t : t[j].id # 0 => e.id < t[j].id
  PROVE  Follows(Append(s, e), t)
  <1>1. /\ \A i \in DOMAIN s : Append(s, e)[i] = s[i]
        /\ \A i \in DOMAIN Append(s, e) : i \in DOMAIN s \/ i = Len(s) + 1
        /\ Append(s, e)[Len(s) + 1] = e
    BY AppendSeq
  <1> QED BY <1>1 DEF Follows

(* An event is sent, and ends the stream or not.                           *)
LEMMA SentKeeps ==
  ASSUME StreamInv, NEW c \in Clients, Subscribed(c), NEW e \in Event, NEW ends \in BOOLEAN,
         NEW r \in Request, client' = [client EXCEPT ![c] = r],
         UNCHANGED <<events, stored, replayRun, used>>, Ends(c, ends),
         r.pc = (IF ends THEN "closed" ELSE client[c].pc),
         r.got = Append(client[c].got, e), r.msg = client[c].msg, r.full = client[c].full,
         r.since = client[c].since, Len(r.queue) <= QueueMax,
         used.restarts = 0 =>
            /\ e.id <= sequence /\ (e.id # 0 =>
                  \A i \in DOMAIN client[c].got : client[c].got[i].id < e.id)
            /\ client[c].pc = "replay" =>
                  /\ InOrder(r.rows) /\ UpTo(r.rows, sequence) /\ Follows(r.got, r.rows)
                  /\ Follows(r.rows, r.queue)
            /\ InOrder(r.queue) /\ UpTo(r.queue, sequence) /\ Follows(r.got, r.queue),
         \A i \in DOMAIN client[c].queue : client[c].queue[i] = e
            \/ \E j \in DOMAIN r.queue : r.queue[j] = client[c].queue[i]
  PROVE  StreamInv'
  <1>1. client' \in [Clients -> Request] /\ client'[c] = r
        /\ \A d \in Clients \ {c} : client'[d] = client[d]
    BY RequestType
  <1>2. /\ client[c].got \in Seq(Event) /\ sequence \in Nat /\ client[c].msg \in Messages
        /\ client[c].pc \in {"replay", "live"}
    BY RequestType DEF Subscribed
  <1>3. used.restarts = 0 => RequestInOrder(r, sequence)
    <2> SUFFICES ASSUME used.restarts = 0 PROVE RequestInOrder(r, sequence)
      OBVIOUS
    <2>1. InOrder(client[c].got) /\ UpTo(client[c].got, sequence)
      BY RequestType DEF RequestInOrder
    <2>2. InOrder(r.got) /\ UpTo(r.got, sequence)
      BY <1>2, <2>1, AppendInOrder
    <2> QED BY <1>2, <2>2 DEF RequestInOrder
  <1>4. ReceivedAll(r, sequence)
    <2> SUFFICES ASSUME ~ends, ~r.full, NEW id \in r.since + 1..sequence
                 PROVE  \/ \E i \in DOMAIN r.queue : r.queue[i].id = id
                        \/ \E i \in DOMAIN r.got : r.got[i].id = id
      BY DEF ReceivedAll
    <2>1. \/ \E i \in DOMAIN client[c].queue : client[c].queue[i].id = id
          \/ \E i \in DOMAIN client[c].got : client[c].got[i].id = id
      BY <1>2, RequestType DEF ReceivedAll
    <2>2. /\ Len(client[c].got) + 1 \in DOMAIN r.got /\ r.got[Len(client[c].got) + 1] = e
          /\ \A i \in DOMAIN client[c].got : i \in DOMAIN r.got /\ r.got[i] = client[c].got[i]
      BY <1>2, AppendSeq, EventSeq
    <2> QED BY <2>1, <2>2
  <1>5. SlotFollows(c) /\ slots' <= MaxConnects
    <2>1. Subscribed(c)' <=> ~ends
      BY <1>1, <1>2 DEF Subscribed
    <2> QED BY <2>1, RequestType, EventAssumption DEF SlotFollows, Ends
  <1>6. /\ UNCHANGED <<events, stored>> /\ replayRun' \in Messages \union {None}
        /\ r.msg \in Messages
    BY <1>2 DEF StreamInv, StreamTypes
  <1> QED BY <1>1, <1>3, <1>4, <1>5, <1>6, ClientKeeps

LEMMA SendReplayKeeps ==
  ASSUME StreamInv, NEW c \in Clients, SendReplay(c)
  PROVE  StreamInv'
  <1> DEFINE rows == client[c].rows
             e == Head(rows)
             ends == e.kind = "final"
             got == Append(client[c].got, e)
             rest == Tail(rows)
             pc == IF ends THEN "closed" ELSE client[c].pc
             r == [client[c] EXCEPT !.got = got, !.rows = rest, !.pc = pc]
  <1>1. /\ client[c].pc = "replay" /\ Subscribed(c) /\ rows # <<>>
        /\ UNCHANGED <<events, stored, replayRun, used>> /\ Ends(c, ends)
        /\ client' = [client EXCEPT ![c] = r]
    BY RequestType DEF SendReplay, At, Subscribed
  <1>2. /\ rows \in Seq(Event) /\ e \in Event /\ rest \in Seq(Event)
        /\ client[c].got \in Seq(Event) /\ client[c].queue \in Seq(Event)
        /\ got \in Seq(Event) /\ pc \in {"closed", "replay"} /\ sequence \in Nat
    BY <1>1, RequestType, TailSeq, AppendSeq
  <1>3. used.restarts = 0 =>
          /\ e.id <= sequence
          /\ (e.id # 0 => \A i \in DOMAIN client[c].got : client[c].got[i].id < e.id)
          /\ InOrder(rest) /\ UpTo(rest, sequence) /\ Follows(got, rest)
          /\ Follows(rest, client[c].queue)
          /\ InOrder(client[c].queue) /\ UpTo(client[c].queue, sequence)
          /\ Follows(got, client[c].queue)
    <2> SUFFICES ASSUME used.restarts = 0
                 PROVE  /\ e.id <= sequence
                        /\ (e.id # 0 => \A i \in DOMAIN client[c].got : client[c].got[i].id < e.id)
                        /\ InOrder(rest) /\ UpTo(rest, sequence) /\ Follows(got, rest)
                        /\ Follows(rest, client[c].queue)
                        /\ InOrder(client[c].queue) /\ UpTo(client[c].queue, sequence)
                        /\ Follows(got, client[c].queue)
      OBVIOUS
    <2>1. /\ InOrder(rows) /\ UpTo(rows, sequence) /\ Follows(client[c].got, rows)
          /\ InOrder(client[c].queue) /\ UpTo(client[c].queue, sequence)
          /\ Follows(client[c].got, client[c].queue) /\ Follows(rows, client[c].queue)
      BY <1>1, RequestType DEF RequestInOrder
    <2>2. InOrder(rest) /\ UpTo(rest, sequence) /\ e.id <= sequence
      BY <1>1, <1>2, <2>1, TailInOrder
    <2>3. /\ Follows(client[c].got, rest)
          /\ (e.id # 0 => \A i \in DOMAIN client[c].got : client[c].got[i].id < e.id)
          /\ \A j \in DOMAIN rest : rest[j].id # 0 => e.id < rest[j].id
      BY <1>1, <1>2, <2>1, FollowsTail, HeadFirst
    <2>4. /\ Follows(rest, client[c].queue)
          /\ \A j \in DOMAIN client[c].queue : client[c].queue[j].id # 0 =>
                e.id < client[c].queue[j].id
      BY <1>1, <1>2, <2>1, FollowsTail
    <2>5. Follows(got, rest) /\ Follows(got, client[c].queue)
      BY <1>2, <2>1, <2>3, <2>4, FollowsAppend
    <2> QED BY <2>1, <2>2, <2>3, <2>4, <2>5
  <1>4. ends \in BOOLEAN /\ (ends => pc = "closed") /\ (~ends => pc = client[c].pc)
    OBVIOUS
  <1> HIDE DEF e, got, rest, pc, ends
  <1>5. /\ r \in Request /\ r.pc = pc /\ r.got = got /\ r.rows = rest
        /\ r.queue = client[c].queue /\ r.msg = client[c].msg /\ r.full = client[c].full
        /\ r.since = client[c].since
    BY <1>2, RequestType DEF Request
  <1> HIDE DEF r
  <1>6. r.got = Append(client[c].got, e) /\ Len(r.queue) <= QueueMax
    BY <1>5, RequestType DEF got
  <1> QED BY <1>1, <1>2, <1>3, <1>4, <1>5, <1>6, SentKeeps

LEMMA ReceiveKeeps ==
  ASSUME StreamInv, NEW c \in Clients, Receive(c)
  PROVE  StreamInv'
  <1> DEFINE queue == client[c].queue
             e == Head(queue)
             ends == e.kind = "final"
             got == Append(client[c].got, e)
             rest == Tail(queue)
             pc == IF ends THEN "closed" ELSE client[c].pc
             r == [client[c] EXCEPT !.got = got, !.queue = rest, !.pc = pc]
  <1>1. /\ client[c].pc = "live" /\ Subscribed(c) /\ queue # <<>>
        /\ UNCHANGED <<events, stored, replayRun, used>> /\ Ends(c, ends)
        /\ client' = [client EXCEPT ![c] = r]
    BY RequestType DEF Receive, At, Subscribed
  <1>2. /\ queue \in Seq(Event) /\ e \in Event /\ rest \in Seq(Event)
        /\ client[c].got \in Seq(Event) /\ got \in Seq(Event) /\ pc \in {"closed", "live"}
        /\ sequence \in Nat /\ Len(rest) <= QueueMax
    BY <1>1, RequestType, TailSeq, AppendSeq, EventAssumption
  <1>3. used.restarts = 0 =>
          /\ e.id <= sequence
          /\ (e.id # 0 => \A i \in DOMAIN client[c].got : client[c].got[i].id < e.id)
          /\ InOrder(rest) /\ UpTo(rest, sequence) /\ Follows(got, rest)
    <2> SUFFICES ASSUME used.restarts = 0
                 PROVE  /\ e.id <= sequence
                        /\ (e.id # 0 => \A i \in DOMAIN client[c].got : client[c].got[i].id < e.id)
                        /\ InOrder(rest) /\ UpTo(rest, sequence) /\ Follows(got, rest)
      OBVIOUS
    <2>1. InOrder(queue) /\ UpTo(queue, sequence) /\ Follows(client[c].got, queue)
      BY <1>1, RequestType DEF RequestInOrder
    <2>2. InOrder(rest) /\ UpTo(rest, sequence) /\ e.id <= sequence
      BY <1>1, <1>2, <2>1, TailInOrder
    <2>3. /\ Follows(client[c].got, rest)
          /\ (e.id # 0 => \A i \in DOMAIN client[c].got : client[c].got[i].id < e.id)
          /\ \A j \in DOMAIN rest : rest[j].id # 0 => e.id < rest[j].id
      BY <1>1, <1>2, <2>1, FollowsTail, HeadFirst
    <2>4. Follows(got, rest)
      BY <1>2, <2>3, FollowsAppend
    <2> QED BY <2>2, <2>3, <2>4
  <1>4. \A i \in DOMAIN queue : queue[i] = e \/ \E j \in DOMAIN rest : rest[j] = queue[i]
    BY <1>1, <1>2, TailSeq
  <1>5. ends \in BOOLEAN /\ (ends => pc = "closed") /\ (~ends => pc = client[c].pc)
    OBVIOUS
  <1> HIDE DEF e, got, rest, pc, ends
  <1>6. /\ r \in Request /\ r.pc = pc /\ r.got = got /\ r.rows = client[c].rows
        /\ r.queue = rest /\ r.msg = client[c].msg /\ r.full = client[c].full
        /\ r.since = client[c].since
    BY <1>2, RequestType DEF Request
  <1> HIDE DEF r
  <1>7. r.got = Append(client[c].got, e) /\ client[c].pc # "replay"
    BY <1>1, <1>6 DEF got
  <1> QED BY <1>1, <1>2, <1>3, <1>4, <1>5, <1>6, <1>7, SentKeeps

(* The replay is over.                                                     *)
LEMMA EndReplayKeeps ==
  ASSUME StreamInv, NEW c \in Clients, EndReplay(c)
  PROVE  StreamInv'
  <1> DEFINE pc == IF client[c].final THEN "closed" ELSE "live"
             r == [client[c] EXCEPT !.pc = pc]
  <1>1. /\ client[c].pc = "replay" /\ Subscribed(c) /\ Ends(c, client[c].final)
        /\ UNCHANGED <<events, stored, replayRun, used>>
        /\ client' = [client EXCEPT ![c] = r]
    BY RequestType DEF EndReplay, At, Subscribed
  <1>2. pc \in {"closed", "live"} /\ (pc = "closed" <=> client[c].final)
    OBVIOUS
  <1> HIDE DEF pc
  <1>3. /\ r \in Request /\ r.pc = pc /\ r.got = client[c].got /\ r.queue = client[c].queue
        /\ r.msg = client[c].msg /\ r.full = client[c].full /\ r.since = client[c].since
    BY <1>2, RequestType DEF Request
  <1> HIDE DEF r
  <1>4. client' \in [Clients -> Request] /\ client'[c] = r
        /\ \A d \in Clients \ {c} : client'[d] = client[d]
    BY <1>1, <1>3, RequestType
  <1>5. used.restarts = 0 => RequestInOrder(r, sequence)
    BY <1>1, <1>2, <1>3, RequestType DEF RequestInOrder
  <1>6. ReceivedAll(r, sequence)
    <2>1. ReceivedAll(client[c], sequence)
      BY RequestType
    <2> QED BY <1>1, <1>3, <2>1 DEF ReceivedAll
  <1>7. Subscribed(c)' <=> ~client[c].final
    BY <1>2, <1>3, <1>4 DEF Subscribed
  <1>8. SlotFollows(c) /\ slots' <= MaxConnects
    BY <1>1, <1>7, RequestType, EventAssumption DEF SlotFollows, Ends
  <1>9. /\ UNCHANGED <<events, stored>> /\ replayRun' \in Messages \union {None}
        /\ r.msg \in Messages /\ Len(r.queue) <= QueueMax
    BY <1>1, <1>3, RequestType DEF StreamInv, StreamTypes
  <1> QED BY <1>4, <1>5, <1>6, <1>8, <1>9, ClientKeeps
-----------------------------------------------------------------------------
(* Events are published and stored.                                        *)

LEMMA LastInOrder ==
  ASSUME NEW s \in Seq(Event), NEW n \in Nat \ {0}
  PROVE  /\ Last(s, n) \in Seq(Event) /\ Len(Last(s, n)) <= n
         /\ InOrder(s) => InOrder(Last(s, n))
         /\ \A b : UpTo(s, b) => UpTo(Last(s, n), b)
  <1> DEFINE from == IF Len(s) > n THEN Len(s) - n + 1 ELSE 1
             t == Last(s, n)
  <1>1. Len(s) \in Nat /\ DOMAIN s = 1..Len(s)
    BY EventSeq
  <1>2. from \in 1..Len(s) + 1 /\ Len(s) \in 0..Len(s) /\ Len(s) - from + 1 <= n
        /\ Len(s) - from + 1 \in Nat
    BY <1>1
  <1>3. t = SubSeq(s, from, Len(s))
    BY DEF Last
  <1> HIDE DEF from, t
  <1>4. /\ t \in Seq(Event) /\ Len(t) = Len(s) - from + 1
        /\ \A i \in 1..Len(s) - from + 1 : t[i] = s[from + i - 1]
    BY <1>1, <1>2, <1>3, SubSeqProperties
  <1>5. DOMAIN t = 1..Len(s) - from + 1
    BY <1>4, EventSeq
  <1>6. \A i \in DOMAIN t : /\ from + i - 1 \in DOMAIN s /\ t[i] = s[from + i - 1]
                            /\ i \in Nat
    <2> SUFFICES ASSUME NEW i \in 1..Len(s) - from + 1
                 PROVE  from + i - 1 \in 1..Len(s) /\ t[i] = s[from + i - 1] /\ i \in Nat
      BY <1>1, <1>5
    <2> QED BY <1>1, <1>2, <1>4
  <1>7. InOrder(s) => InOrder(t)
    <2> SUFFICES ASSUME InOrder(s), NEW i \in DOMAIN t, NEW j \in DOMAIN t, i < j,
                        t[i].id # 0, t[j].id # 0
                 PROVE  t[i].id < t[j].id
      BY DEF InOrder
    <2>1. from + i - 1 < from + j - 1
      BY <1>2, <1>6
    <2> QED BY <1>6, <2>1 DEF InOrder
  <1>8. \A b : UpTo(s, b) => UpTo(t, b)
    BY <1>6 DEF UpTo
  <1> QED BY <1>2, <1>4, <1>7, <1>8 DEF t

LEMMA FollowsNew ==
  ASSUME NEW s \in Seq(Event), NEW t \in Seq(Event), NEW e \in Event, NEW n \in Nat,
         UpTo(s, n), e.id = n + 1, Follows(s, t)
  PROVE  Follows(s, Append(t, e))
  <1>1. /\ \A i \in DOMAIN t : Append(t, e)[i] = t[i]
        /\ \A i \in DOMAIN Append(t, e) : i \in DOMAIN t \/ i = Len(t) + 1
        /\ Append(t, e)[Len(t) + 1] = e
    BY AppendSeq
  <1>2. \A i \in DOMAIN s : s[i].id < n + 1
    BY EventSeq DEF UpTo
  <1> QED BY <1>1, <1>2 DEF Follows

LEMMA UpToNext ==
  ASSUME NEW s \in Seq(Event), NEW n \in Nat, UpTo(s, n)
  PROVE  UpTo(s, n + 1) /\ \A i \in DOMAIN s : s[i].id < n + 1
  BY EventSeq DEF UpTo

(* A subscriber gets the event or learns nothing of it.                    *)
LEMMA ReceivesKeeps ==
  ASSUME NEW r \in Request, NEW e \in Event, NEW n \in Nat, e.id = n + 1,
         r.pc \in {"replay", "live"}, Len(r.queue) <= QueueMax
  PROVE  LET q == Receives(r, e) IN
         /\ q \in Request /\ q.pc = r.pc /\ q.msg = r.msg /\ Len(q.queue) <= QueueMax
         /\ RequestInOrder(r, n) => RequestInOrder(q, n + 1)
         /\ ReceivedAll(r, n) => ReceivedAll(q, n + 1)
  <1> DEFINE q == Receives(r, e)
             queue == Append(r.queue, e)
  <1>1. /\ r.queue \in Seq(Event) /\ r.got \in Seq(Event) /\ r.rows \in Seq(Event)
        /\ r.since \in Nat /\ r.full \in BOOLEAN
    BY DEF Request
  <1>2. queue \in Seq(Event) /\ Len(queue) = Len(r.queue) + 1
    BY <1>1, AppendSeq
  <1>3. RequestInOrder(r, n) => /\ InOrder(r.got) /\ UpTo(r.got, n + 1)
                                /\ InOrder(r.queue) /\ UpTo(r.queue, n + 1)
                                /\ Follows(r.got, r.queue)
                                /\ r.pc = "replay" => /\ InOrder(r.rows) /\ UpTo(r.rows, n + 1)
                                                      /\ Follows(r.got, r.rows)
                                                      /\ Follows(r.rows, r.queue)
    BY <1>1, UpToNext DEF RequestInOrder
  <1>4. RequestInOrder(r, n) => /\ InOrder(queue) /\ UpTo(queue, n + 1)
                                /\ Follows(r.got, queue)
                                /\ r.pc = "replay" => Follows(r.rows, queue)
    <2> SUFFICES ASSUME RequestInOrder(r, n)
                 PROVE  /\ InOrder(queue) /\ UpTo(queue, n + 1) /\ Follows(r.got, queue)
                        /\ r.pc = "replay" => Follows(r.rows, queue)
      OBVIOUS
    <2>1. /\ UpTo(r.got, n) /\ UpTo(r.queue, n) /\ Follows(r.got, r.queue)
          /\ r.pc = "replay" => UpTo(r.rows, n) /\ Follows(r.rows, r.queue)
      BY DEF RequestInOrder
    <2>2. InOrder(queue) /\ UpTo(queue, n + 1)
      <3>1. UpTo(r.queue, n + 1) /\ \A i \in DOMAIN r.queue : r.queue[i].id < e.id
        BY <1>1, <2>1, UpToNext
      <3>2. n + 1 \in Nat /\ e.id <= n + 1
        OBVIOUS
      <3> QED BY <1>1, <1>3, <3>1, <3>2, AppendInOrder
    <2>3. Follows(r.got, queue) /\ (r.pc = "replay" => Follows(r.rows, queue))
      BY <1>1, <2>1, FollowsNew
    <2> QED BY <2>2, <2>3
  <1>5. CASE Len(r.queue) < QueueMax
    <2> HIDE DEF queue
    <2>1. q = [r EXCEPT !.queue = queue]
      BY <1>5 DEF Receives, queue
    <2>2. /\ q \in Request /\ q.pc = r.pc /\ q.msg = r.msg /\ q.queue = queue
          /\ q.got = r.got /\ q.rows = r.rows /\ q.full = r.full /\ q.since = r.since
      BY <1>2, <2>1 DEF Request
    <2> HIDE DEF q
    <2>3. Len(q.queue) <= QueueMax
      <3>1. Len(r.queue) \in Nat /\ QueueMax \in Nat
        BY <1>1, EventSeq, EventAssumption
      <3> QED BY <1>2, <1>5, <2>2, <3>1
    <2>4. RequestInOrder(r, n) => RequestInOrder(q, n + 1)
      BY <1>3, <1>4, <2>2 DEF RequestInOrder
    <2>5. ReceivedAll(r, n) => ReceivedAll(q, n + 1)
      <3> SUFFICES ASSUME ReceivedAll(r, n), ~r.full, NEW id \in r.since + 1..n + 1
                   PROVE  \/ \E i \in DOMAIN queue : queue[i].id = id
                          \/ \E i \in DOMAIN r.got : r.got[i].id = id
        BY <2>2 DEF ReceivedAll
      <3>1. /\ Len(r.queue) + 1 \in DOMAIN queue /\ queue[Len(r.queue) + 1] = e
            /\ \A i \in DOMAIN r.queue : i \in DOMAIN queue /\ queue[i] = r.queue[i]
        BY <1>1, AppendSeq, EventSeq DEF queue
      <3>2. CASE id = n + 1
        BY <3>1, <3>2
      <3>3. CASE id \in r.since + 1..n
        BY <3>1, <3>3 DEF ReceivedAll
      <3> QED BY <1>1, <3>2, <3>3
    <2> QED BY <2>2, <2>3, <2>4, <2>5 DEF q
  <1>6. CASE ~(Len(r.queue) < QueueMax)
    <2>1. q = [r EXCEPT !.full = TRUE]
      BY <1>6 DEF Receives
    <2>2. /\ q \in Request /\ q.pc = r.pc /\ q.msg = r.msg /\ q.queue = r.queue
          /\ q.got = r.got /\ q.rows = r.rows /\ q.full = TRUE
      BY <2>1 DEF Request
    <2> HIDE DEF q
    <2>3. RequestInOrder(r, n) => RequestInOrder(q, n + 1)
      BY <1>3, <2>2 DEF RequestInOrder
    <2>4. ReceivedAll(q, n + 1)
      BY <2>2 DEF ReceivedAll
    <2> QED BY <2>2, <2>3, <2>4 DEF q
  <1> QED BY <1>5, <1>6

LEMMA PublishKeeps ==
  ASSUME StreamInv, NEW m \in Messages, NEW kind \in Kinds, Publish(m, kind),
         UNCHANGED <<stored, replayRun, slots, used>>
  PROVE  StreamInv'
  <1> DEFINE e == [id |-> sequence + 1, run |-> m, kind |-> kind]
  <1>1. /\ sequence' = sequence + 1 /\ saving' = saving \union {e}
        /\ history' = Last(Append(history, e), HistoryMax)
        /\ client' = [c \in Clients |-> IF Subscribed(c) THEN Receives(client[c], e)
                                                       ELSE client[c]]
    BY DEF Publish
  <1>2. sequence \in Nat /\ e \in Event /\ e.id = sequence + 1
    BY DEF StreamInv, StreamTypes, Event
  <1> HIDE DEF e
  <1>3. \A c \in Clients :
           /\ client'[c] \in Request /\ client'[c].pc = client[c].pc
           /\ client'[c].msg = client[c].msg /\ Len(client'[c].queue) <= QueueMax
           /\ used.restarts = 0 => RequestInOrder(client'[c], sequence + 1)
           /\ ReceivedAll(client'[c], sequence + 1)
    <2> SUFFICES ASSUME NEW c \in Clients
                 PROVE  /\ client'[c] \in Request /\ client'[c].pc = client[c].pc
                        /\ client'[c].msg = client[c].msg /\ Len(client'[c].queue) <= QueueMax
                        /\ used.restarts = 0 => RequestInOrder(client'[c], sequence + 1)
                        /\ ReceivedAll(client'[c], sequence + 1)
      OBVIOUS
    <2>1. /\ client[c] \in Request /\ Len(client[c].queue) <= QueueMax
          /\ client[c].got \in Seq(Event) /\ client[c].rows \in Seq(Event)
          /\ (used.restarts = 0 => RequestInOrder(client[c], sequence))
          /\ ReceivedAll(client[c], sequence)
      BY RequestType
    <2>2. CASE Subscribed(c)
      <3>1. client'[c] = Receives(client[c], e) /\ client[c].pc \in {"replay", "live"}
        BY <1>1, <2>2 DEF Subscribed
      <3> QED BY <1>2, <2>1, <3>1, ReceivesKeeps
    <2>3. CASE ~Subscribed(c)
      <3>1. client'[c] = client[c] /\ client[c].pc \notin {"replay", "live"}
        BY <1>1, <2>3 DEF Subscribed
      <3>2. used.restarts = 0 => RequestInOrder(client[c], sequence + 1)
        BY <1>2, <2>1, <3>1, UpToNext DEF RequestInOrder
      <3>3. ReceivedAll(client[c], sequence + 1)
        BY <3>1 DEF ReceivedAll
      <3> QED BY <2>1, <3>1, <3>2, <3>3
    <2> QED BY <2>2, <2>3
  <1>4. /\ history' \in Seq(Event) /\ Len(history') <= HistoryMax
        /\ used.restarts = 0 => InOrder(history') /\ UpTo(history', sequence + 1)
    <2>1. history \in Seq(Event) /\ HistoryMax \in Nat \ {0}
      BY EventAssumption DEF StreamInv, StreamTypes
    <2>2. Append(history, e) \in Seq(Event)
      BY <1>2, <2>1, AppendSeq
    <2>3. used.restarts = 0 => /\ InOrder(Append(history, e))
                               /\ UpTo(Append(history, e), sequence + 1)
      <3> SUFFICES ASSUME used.restarts = 0
                   PROVE  InOrder(Append(history, e)) /\ UpTo(Append(history, e), sequence + 1)
        OBVIOUS
      <3>1. InOrder(history) /\ UpTo(history, sequence)
        BY DEF StreamInv, IdsAreOrdered
      <3>2. UpTo(history, sequence + 1) /\ \A i \in DOMAIN history : history[i].id < e.id
        BY <1>2, <2>1, <3>1, UpToNext
      <3> QED BY <1>2, <2>1, <3>1, <3>2, AppendInOrder
    <2> QED BY <1>1, <2>1, <2>2, <2>3, LastInOrder
  <1>5. StreamTypes'
    <2>1. client' \in [Clients -> Request]
      BY <1>1, <1>3
    <2> QED BY <1>1, <1>2, <1>3, <1>4, <2>1 DEF StreamInv, StreamTypes
  <1>6. IdsAreOrdered'
    <2> SUFFICES ASSUME used.restarts = 0
                 PROVE  /\ \A f \in saving' \union stored' : f.id <= sequence'
                        /\ InOrder(history') /\ UpTo(history', sequence')
                        /\ \A c \in Clients : RequestInOrder(client'[c], sequence')
      BY DEF IdsAreOrdered
    <2>1. \A f \in saving \union stored : f.id \in Nat /\ f.id <= sequence
      BY DEF StreamInv, StreamTypes, IdsAreOrdered, Event
    <2> QED BY <1>1, <1>2, <1>3, <1>4, <2>1
  <1>7. IdsAreUnique' /\ Asked'
    BY <1>3 DEF StreamInv, IdsAreUnique, Asked
  <1>8. NothingIsLost'
    BY <1>1, <1>3 DEF NothingIsLost, ReceivedAll, Subscribed
  <1>9. SlotsAreStreams'
    <2>1. {c \in Clients : Subscribed(c)}' = {c \in Clients : Subscribed(c)}
      BY <1>3 DEF Subscribed
    <2> QED BY <2>1 DEF StreamInv, SlotsAreStreams
  <1> QED BY <1>5, <1>6, <1>7, <1>8, <1>9 DEF StreamInv

(* _persist_event inserts unless the unique key has the event.             *)
LEMMA PersistKeeps ==
  ASSUME StreamInv, NEW e \in saving, Persist(e) \/ PersistFails(e)
  PROVE  StreamInv'
  <1> USE DEF StreamInv
  <1>1. /\ UNCHANGED <<sequence, history, replayRun, slots, client>>
        /\ saving' = saving \ {e} /\ e \in Event
        /\ stored' = stored \/ (stored' = stored \union {e} /\ ~Taken(e))
        /\ \/ used' = used
           \/ used' = [used EXCEPT !.faults = @ + 1] /\ used.faults < MaxFaults
    BY DEF Persist, PersistFails, StreamTypes
  <1>2. /\ used' \in [restarts : 0..MaxRestarts, faults : 0..MaxFaults]
        /\ used'.restarts = used.restarts /\ used'.faults >= used.faults
        /\ used.faults \in Nat /\ used'.faults \in Nat
    <2>1. /\ used \in [restarts : 0..MaxRestarts, faults : 0..MaxFaults]
          /\ MaxFaults \in Nat /\ used.faults \in 0..MaxFaults
      BY EventAssumption DEF StreamTypes
    <2>2. CASE used' = used
      BY <2>1, <2>2
    <2>3. CASE used' = [used EXCEPT !.faults = @ + 1] /\ used.faults < MaxFaults
      <3>1. used.faults + 1 \in 0..MaxFaults
        BY <2>1, <2>3
      <3> QED BY <2>1, <2>3, <3>1
    <2> QED BY <1>1, <2>2, <2>3
  <1>3. IsFiniteSet(stored')
    BY <1>1, FS_AddElement DEF StreamTypes
  <1>4. StreamTypes'
    BY <1>1, <1>2, <1>3 DEF StreamTypes
  <1>5. IdsAreOrdered'
    BY <1>1, <1>2 DEF IdsAreOrdered
  <1>6. IdsAreUnique'
    BY <1>1 DEF IdsAreUnique, Taken
  <1>7. Asked' /\ NothingIsLost'
    BY <1>1 DEF Asked, NothingIsLost, Subscribed
  <1>8. SlotsAreStreams'
    <2>1. Streams' = Streams
      BY <1>1 DEF Streams, Subscribed
    <2>2. /\ Cardinality(Streams) \in Nat /\ Cardinality(Streams) <= slots
          /\ slots <= Cardinality(Streams) + used.faults
      BY StreamsCounted
    <2>3. slots \in Nat
      BY EventAssumption DEF StreamTypes
    <2>4. Cardinality(Streams') <= slots' /\ slots' <= Cardinality(Streams') + used'.faults
      BY <1>1, <1>2, <2>1, <2>2, <2>3
    <2> QED BY <2>4 DEF SlotsAreStreams, Streams
  <1> QED BY <1>4, <1>5, <1>6, <1>7, <1>8
-----------------------------------------------------------------------------
(* The process ends: no stream survives it, and ids start again.           *)

LEMMA RestartKeeps == ASSUME IInv, Restart PROVE IInv'
  <1> USE DEF IInv
  <1>1. RunTypes /\ StreamInv
    BY Parts
  <1>2. RunTypes'
    BY <1>1 DEF Restart, RunTypes, Messages, None
  <1>3. /\ sequence' = 0 /\ history' = <<>> /\ saving' = {} /\ stored' = stored
        /\ replayRun' = None /\ slots' = 0
        /\ used' = [used EXCEPT !.restarts = @ + 1] /\ used.restarts < MaxRestarts
        /\ client' = [c \in Clients |-> IF At(c, "away") THEN client[c]
                                        ELSE [client[c] EXCEPT !.pc = "closed"]]
    BY DEF Restart
  <1>4. \A c \in Clients : /\ client'[c] \in Request /\ client'[c].queue = client[c].queue
                           /\ client'[c].pc \in {"away", "closed"}
                           /\ client'[c].pc # "away" => client'[c].msg \in Messages
    <2> SUFFICES ASSUME NEW c \in Clients
                 PROVE  /\ client'[c] \in Request /\ client'[c].queue = client[c].queue
                        /\ client'[c].pc \in {"away", "closed"}
                        /\ client'[c].pc # "away" => client'[c].msg \in Messages
      OBVIOUS
    <2>1. CASE At(c, "away")
      BY <1>1, <1>3, <2>1, RequestType DEF At
    <2>2. CASE ~At(c, "away")
      <3>1. client'[c] = [client[c] EXCEPT !.pc = "closed"] /\ client[c].msg \in Messages
        BY <1>1, <1>3, <2>2, RequestType DEF At
      <3> QED BY <1>1, <3>1, RequestType DEF Request
    <2> QED BY <2>1, <2>2
  <1>5. /\ used' \in [restarts : 0..MaxRestarts, faults : 0..MaxFaults]
        /\ used'.restarts # 0 /\ used'.faults \in Nat
    <2>1. /\ used \in [restarts : 0..MaxRestarts, faults : 0..MaxFaults]
          /\ used.restarts + 1 \in 0..MaxRestarts /\ used.restarts + 1 # 0
          /\ used.faults \in Nat
      BY <1>1, <1>3, EventAssumption DEF StreamInv, StreamTypes
    <2> QED BY <1>3, <2>1
  <1>6. StreamTypes'
    <2>1. client' \in [Clients -> Request] /\ <<>> \in Seq(Event) /\ Len(<<>>) = 0
      BY <1>3, <1>4, EmptyInOrder
    <2>2. HistoryMax \in Nat /\ MaxConnects \in Nat
      BY EventAssumption
    <2> QED BY <1>1, <1>3, <1>4, <1>5, <2>1, <2>2 DEF StreamInv, StreamTypes
  <1>7. IdsAreOrdered' /\ IdsAreUnique' /\ Asked' /\ NothingIsLost'
    BY <1>3, <1>4, <1>5 DEF IdsAreOrdered, IdsAreUnique, Asked, NothingIsLost, Subscribed
  <1>8. SlotsAreStreams'
    <2>1. Streams' = {}
      BY <1>4 DEF Streams, Subscribed
    <2>2. Cardinality(Streams') = 0
      BY <2>1, FS_EmptySet
    <2>3. Cardinality(Streams') <= slots' /\ slots' <= Cardinality(Streams') + used'.faults
      BY <1>3, <1>5, <2>2
    <2> QED BY <2>3 DEF SlotsAreStreams, Streams
  <1> QED BY <1>2, <1>6, <1>7, <1>8, PartsPrimed DEF StreamInv
-----------------------------------------------------------------------------
(* The runs.                                                               *)

LEMMA QuietKeeps ==
  ASSUME StreamInv, UNCHANGED <<events, stored, replayRun, slots, client, used>>
  PROVE  StreamInv'
  BY DEF events, StreamInv, StreamTypes, IdsAreOrdered, IdsAreUnique, Asked, NothingIsLost,
         SlotsAreStreams, Subscribed

LEMMA RunTypesKeep ==
  ASSUME RunTypes, \/ \E m \in Messages : Run(m)
                   \/ UNCHANGED runs
  PROVE  RunTypes'
  <1> USE DEF RunTypes
  <1>1. CASE UNCHANGED runs
    BY <1>1 DEF runs
  <1>2. ASSUME NEW m \in Messages, Post(m) PROVE RunTypes'
    BY <1>2 DEF Post
  <1>3. ASSUME NEW m \in Messages, EnqueuePut(m) PROVE RunTypes'
    BY <1>3 DEF EnqueuePut
  <1>4. ASSUME NEW m \in Messages, ConsumerTake(m) PROVE RunTypes'
    BY <1>4 DEF ConsumerTake
  <1>5. ASSUME NEW m \in Messages, ExecPublish(m) PROVE RunTypes'
    <2>1. deltas[m] + 1 \in 0..MaxDeltas
      BY <1>5, EventAssumption DEF ExecPublish
    <2> QED BY <1>5, <2>1 DEF ExecPublish
  <1>6. ASSUME NEW m \in Messages, Finish(m) PROVE RunTypes'
    BY <1>6 DEF Finish
  <1>7. ASSUME NEW m \in Messages, Announce(m) PROVE RunTypes'
    <2>1. PICK who \in owed[m] : owed' = [owed EXCEPT ![m] = @ \ {who}]
      BY <1>7 DEF Announce
    <2> QED BY <1>7, <2>1 DEF Announce
  <1>8. ASSUME NEW m \in Messages, ExecEnds(m) PROVE RunTypes'
    BY <1>8 DEF ExecEnds
  <1> QED BY <1>1, <1>2, <1>3, <1>4, <1>5, <1>6, <1>7, <1>8 DEF Run

LEMMA RunKeeps == ASSUME StreamInv, NEW m \in Messages, Run(m) PROVE StreamInv'
  <1>1. CASE EnqueuePut(m)
    BY <1>1, PublishKeeps DEF EnqueuePut, Kinds
  <1>2. CASE ExecPublish(m)
    BY <1>2, PublishKeeps DEF ExecPublish, Kinds
  <1>3. CASE Announce(m)
    BY <1>3, PublishKeeps DEF Announce, Kinds
  <1>4. CASE Post(m) \/ ConsumerTake(m) \/ Finish(m) \/ ExecEnds(m)
    BY <1>4, QuietKeeps DEF Post, ConsumerTake, Finish, ExecEnds
  <1> QED BY <1>1, <1>2, <1>3, <1>4 DEF Run
-----------------------------------------------------------------------------
LEMMA InitHolds == Init => IInv
  <1> SUFFICES ASSUME Init PROVE IInv
    OBVIOUS
  <1>1. NoRequest \in Request /\ NoRequest.pc = "away" /\ NoRequest.got = <<>>
        /\ NoRequest.queue = <<>>
    BY EmptyInOrder, EventAssumption DEF NoRequest, Request
  <1>2. \A c \in Clients : client[c] = NoRequest
    BY DEF Init
  <1>3. RunTypes
    BY EventAssumption DEF Init, RunTypes
  <1>4. StreamTypes
    <2>1. /\ <<>> \in Seq(Event) /\ Len(<<>>) = 0 /\ IsFiniteSet({})
          /\ 0 \in 0..MaxConnects /\ 0 \in 0..MaxRestarts /\ 0 \in 0..MaxFaults
          /\ 0 <= HistoryMax /\ 0 <= QueueMax
      BY EmptyInOrder, FS_EmptySet, EventAssumption
    <2> QED BY <1>1, <1>2, <2>1 DEF Init, StreamTypes
  <1>5. IdsAreOrdered /\ IdsAreUnique /\ Asked
    <2>1. \A c \in Clients : RequestInOrder(client[c], sequence)
      BY <1>1, <1>2, EmptyInOrder DEF RequestInOrder
    <2> QED BY <1>1, <1>2, <2>1, EmptyInOrder DEF Init, IdsAreOrdered, IdsAreUnique, Asked
  <1>6. NothingIsLost /\ SlotsAreStreams
    <2>1. \A c \in Clients : ~Subscribed(c)
      BY <1>1, <1>2 DEF Subscribed
    <2>2. Cardinality(Streams) = 0
      <3>1. Streams = {}
        BY <2>1 DEF Streams
      <3> QED BY <3>1, FS_EmptySet
    <2>3. slots = 0 /\ used.faults = 0
      BY DEF Init
    <2>4. SlotsAreStreams
      BY <2>2, <2>3, StreamsCounted
    <2> QED BY <2>1, <2>4 DEF NothingIsLost
  <1> QED BY <1>3, <1>4, <1>5, <1>6, Parts DEF StreamInv

LEMMA StepKeeps == IInv /\ [Next]_vars => IInv'
  <1> SUFFICES ASSUME IInv, [Next]_vars PROVE IInv'
    OBVIOUS
  <1>1. RunTypes /\ StreamInv
    BY Parts
  <1>2. CASE \E m \in Messages : Run(m)
    BY <1>1, <1>2, RunTypesKeep, RunKeeps, PartsPrimed
  <1>3. ASSUME NEW e \in saving, Persist(e) \/ PersistFails(e) PROVE IInv'
    <2>1. UNCHANGED runs
      BY <1>3 DEF Persist, PersistFails
    <2> QED BY <1>1, <1>3, <2>1, RunTypesKeep, PersistKeeps, PartsPrimed
  <1>4. ASSUME NEW c \in Clients,
               \/ \E m \in Messages : Open(c, m)
               \/ Stream(c) \/ RefreshFails(c) \/ Disconnect(c)
        PROVE  IInv'
    <2>1. UNCHANGED runs
      BY <1>4 DEF Open, Stream, Load, Subscribe, Refuse, SendReplay, EndReplay, Receive,
                  RefreshFails, Disconnect
    <2>2. StreamInv'
      BY <1>1, <1>4, OpenKeeps, LoadKeeps, SubscribeKeeps, ClosedKeeps, SendReplayKeeps,
         EndReplayKeeps, ReceiveKeeps DEF Stream
    <2> QED BY <1>1, <2>1, <2>2, RunTypesKeep, PartsPrimed
  <1>5. CASE Restart
    BY <1>5, RestartKeeps
  <1>6. CASE UNCHANGED vars
    <2>1. UNCHANGED runs /\ UNCHANGED <<events, stored, replayRun, slots, client, used>>
      BY <1>6 DEF vars, runs, events
    <2> QED BY <1>1, <2>1, RunTypesKeep, QuietKeeps, PartsPrimed
  <1> QED BY <1>2, <1>3, <1>4, <1>5, <1>6 DEF Next

THEOREM Invariance == Spec => []IInv
  BY InitHolds, StepKeeps, PTL DEF Spec
-----------------------------------------------------------------------------
(* What follows.                                                           *)

(* Runs, requests, the queues of the subscribers and the history keep their*)
(* types and their lengths.                                                *)
THEOREM TypeCorrect == Spec => []TypeOK
  BY Invariance, PTL DEF IInv

(* Until the process is restarted, the ids a client receives over all its  *)
(* connections increase, however threads store the events and whatever is  *)
(* replayed.                                                               *)
THEOREM EventsComeInOrder == Spec => []IdsIncrease
  <1>1. IInv => IdsIncrease
    BY DEF IInv, IdsAreOrdered, RequestInOrder, IdsIncrease
  <1> QED BY <1>1, Invariance, PTL

(* A subscriber misses no event but one that its full queue refused, also  *)
(* while it is sent its replay.                                            *)
THEOREM SubscribersMissNothing == Spec => []NothingIsLost
  BY Invariance, PTL DEF IInv

(* No way a stream ends keeps its slot, and none gives one back twice.     *)
THEOREM SlotsAreGivenBack == Spec => []SlotsAreStreams
  BY Invariance, PTL DEF IInv
=============================================================================
