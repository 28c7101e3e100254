--------------------------- MODULE ToolLoopProofs ---------------------------
(* Theorems about ToolLoop, for any tool calls and snapshots, every number *)
(* of iterations and every bound on interruptions, crashes and faults.     *)
EXTENDS ToolLoop, SequenceTheorems, TLAPS

InCall == {"audit", "tool", "finish", "sources"}
Pinned == InCall \union {"model"}

(* Where the loop can be.  Only an interruption leaves threads behind, and *)
(* then the execution has its verdict: until then nobody else writes.      *)
Shape ==
    /\ run = "queued" => loop.at = "off" /\ late = {}
    /\ loop.at = "pin" => run = "running"
    /\ loop.at \in InCall => loop.calls # <<>> /\ loop.round < MaxIterations
    /\ loop.at = "tool" => loop.guarded
    /\ loop.guarded => loop.at \in {"tool", "finish", "sources"}
    /\ loop.at = "finish" => loop.write \in Ended
    /\ loop.at \notin {"off", "finish", "end"} => loop.verdict = None
    /\ loop.at = "end" => loop.verdict # None
    /\ loop.at \notin {"off", "end"} /\ loop.verdict = None => late = {}
    /\ \A t \in late : /\ t.kind # "pin" => t.id \in Ids
                       /\ t.kind = "finish" => t.write \in Ended

(* Whatever reads or writes rows of a snapshot does so of the pinned one.  *)
OfThePin ==
    /\ loop.at \in Pinned => pin # None /\ loop.snap = pin
    /\ \A t \in late : t.kind \in {"audit", "sources"} => pin # None /\ t.snap = pin
    /\ \A i \in Ids : audits[i] # NoAudit => pin # None /\ audits[i].snap = pin
    /\ \A s \in sources : s.snap = pin

(* The audit of the current call has been created; it is running until a   *)
(* success is written, and has succeeded when its sources are saved, by    *)
(* the loop or by the thread that comes late.                              *)
CallIsAudited ==
    /\ loop.at \in {"tool", "finish", "sources"} => audits[Call].status # "none"
    /\ loop.at = "tool" => audits[Call].status = "running"
    /\ loop.at = "finish" /\ loop.write = "succeeded" /\ loop.verdict = None =>
          audits[Call].status = "running"
    /\ loop.at = "sources" => audits[Call].status = "succeeded"
    /\ \A t \in late : t.kind = "sources" => audits[t.id].status = "succeeded"

(* While nothing is dropped, a call whose tool ran and whose audit has not *)
(* ended is the current one or has a thread that will end it.              *)
ExecutedWillEnd ==
    /\ \A i \in executed : audits[i].status # "none"
    /\ clean => \A i \in executed :
          \/ audits[i].status \in Ended
          \/ loop.at \in {"tool", "finish"} /\ Call = i
          \/ \E t \in late : t.kind = "finish" /\ t.id = i /\ t.write \in Ended

IInv ==
    /\ TypeOK /\ Shape /\ OfThePin /\ CallIsAudited /\ ExecutedWillEnd
    /\ ToldIsRecorded /\ SourcesAreOfSuccesses
-----------------------------------------------------------------------------
(* What the steps of the loop do to its record.                            *)

Places == {"off", "pin", "model", "audit", "tool", "finish", "sources", "end"}
Execution == [at : Places, snap : Snapshots \union {None}, round : 0..MaxIterations,
              calls : Lists, write : Ended \union {"none"}, guarded : BOOLEAN,
              verdict : Verdicts \union {None}]
Audit == [status : Ended \union {"none", "running"}, snap : Snapshots \union {None}]
Thread == [kind : {"pin", "audit", "finish", "sources"}, id : Ids \union {None},
           write : Ended \union {"none"}, snap : Snapshots \union {None}]
Budgets == {"interrupt", "crash", "fault", "move"}

LEMMA Types == TypeOK => /\ loop \in Execution
                         /\ audits \in [Ids -> Audit]
                         /\ late \subseteq Thread
  BY DEF TypeOK, Execution, Places, Audit, Thread

(* The current call, and what is left when it is over.                     *)
LEMMA ListFacts ==
  ASSUME NEW list \in Lists, list # <<>>
  PROVE  /\ Head(list) \in Ids /\ Tail(list) \in Lists
         /\ Len(list) \in Nat \ {0} /\ (Len(list) # 1 => Tail(list) # <<>>)
  <1>1. PICK n \in 0..MaxCalls : list \in [1..n -> Ids]
    BY DEF Lists
  <1>2. n \in Nat /\ list \in Seq(Ids)
    BY <1>1, SeqDef, IterationsAssumption
  <1>3. Len(list) = n
    BY <1>1, <1>2, LenProperties
  <1>4. Len(list) \in Nat \ {0}
    BY <1>2, EmptySeq
  <1>5. Head(list) \in Ids /\ Tail(list) \in Seq(Ids) /\ Len(Tail(list)) = n - 1
    BY <1>2, <1>3, HeadTailProperties
  <1>6. Tail(list) \in [1..(n - 1) -> Ids]
    BY <1>5, LenProperties
  <1>7. n - 1 \in 0..MaxCalls
    BY <1>3, <1>4, IterationsAssumption
  <1>8. Tail(list) \in Lists
    BY <1>6, <1>7 DEF Lists
  <1>9. Len(list) # 1 => Tail(list) # <<>>
    <2>1. Len(<<>>) = 0
      BY EmptySeq
    <2> QED BY <2>1, <1>3, <1>4, <1>5
  <1> QED BY <1>4, <1>5, <1>8, <1>9

LEMMA NoCallsIsAList == <<>> \in Lists
  <1>1. <<>> \in [1..0 -> Ids]
    OBVIOUS
  <1> QED BY <1>1, IterationsAssumption DEF Lists

LEMMA OffType == Off \in Execution
  BY NoCallsIsAList, IterationsAssumption DEF Off, Execution, Places, Ended

LEMMA CallType == TypeOK /\ Shape /\ loop.at \in InCall => Call \in Ids
  BY Types, ListFacts DEF Shape, Call, Execution

LEMMA EndEffect ==
  ASSUME TypeOK, NEW v \in Verdicts, End(v)
  PROVE  /\ loop' \in Execution
         /\ loop'.at = "end" /\ loop'.verdict = v /\ loop'.guarded = FALSE
  <1>1. loop \in Execution
    BY Types
  <1> QED BY <1>1 DEF End, Execution, Places

LEMMA FinishEffect ==
  ASSUME TypeOK, NEW status \in Ended, NEW g \in BOOLEAN, Finish(status, g)
  PROVE  /\ loop' \in Execution
         /\ loop'.at = "finish" /\ loop'.write = status /\ loop'.guarded = g
         /\ loop'.calls = loop.calls /\ loop'.snap = loop.snap
         /\ loop'.round = loop.round /\ loop'.verdict = loop.verdict
  <1>1. loop \in Execution
    BY Types
  <1> QED BY <1>1 DEF Finish, Execution, Places

LEMMA GotoEffect ==
  ASSUME TypeOK, NEW place \in Places, Goto(place)
  PROVE  /\ loop' \in Execution
         /\ loop'.at = place /\ loop'.write = loop.write /\ loop'.guarded = loop.guarded
         /\ loop'.calls = loop.calls /\ loop'.snap = loop.snap
         /\ loop'.round = loop.round /\ loop'.verdict = loop.verdict
  <1>1. loop \in Execution
    BY Types
  <1> QED BY <1>1 DEF Goto, Execution, Places

LEMMA UnwindEffect ==
  ASSUME TypeOK, NEW v \in Verdicts, Unwind(v)
  PROVE  /\ loop' \in Execution
         /\ loop'.at = IF loop.guarded THEN "finish" ELSE "end"
         /\ loop'.guarded = FALSE /\ loop'.verdict = v
         /\ loop.guarded => loop'.write = "cancelled"
         /\ loop'.calls = loop.calls /\ loop'.snap = loop.snap /\ loop'.round = loop.round
  <1>1. loop \in Execution
    BY Types
  <1> QED BY <1>1 DEF Unwind, End, Execution, Places, Ended

(* The loop proceeds to the next call, or asks the model again.            *)
LEMMA NextCallEffect ==
  ASSUME TypeOK, Shape, loop.at \in InCall, NEW result \in {"ok", "error"}, NextCall(result)
  PROVE  /\ loop' \in Execution
         /\ loop'.at \in {"model", "audit"} /\ loop'.guarded = FALSE
         /\ loop'.at = "audit" => loop'.calls # <<>> /\ loop'.round < MaxIterations
         /\ loop'.snap = loop.snap /\ loop'.verdict = loop.verdict
         /\ told' \in [Ids -> {"nothing", "ok", "error"}]
         /\ \A i \in Ids : told'[i] = IF i = Call THEN result ELSE told[i]
  <1>1. loop \in Execution /\ loop.calls # <<>> /\ loop.round < MaxIterations /\ Call \in Ids
    BY Types, CallType DEF Shape
  <1>2. Tail(loop.calls) \in Lists /\ Len(loop.calls) \in Nat
        /\ (Len(loop.calls) # 1 => Tail(loop.calls) # <<>>)
    BY <1>1, ListFacts DEF Execution
  <1>3. loop.round \in 0..MaxIterations /\ loop.round + 1 \in 0..MaxIterations
    BY <1>1, IterationsAssumption DEF Execution
  <1>4. loop' \in Execution
    <2>1. CASE Len(loop.calls) = 1
      BY <1>1, <1>2, <1>3, <2>1 DEF NextCall, Execution, Places
    <2>2. CASE Len(loop.calls) # 1
      BY <1>1, <1>2, <1>3, <2>2 DEF NextCall, Execution, Places
    <2> QED BY <2>1, <2>2
  <1>5. /\ loop'.at = IF Len(loop.calls) = 1 THEN "model" ELSE "audit"
        /\ loop'.round = IF Len(loop.calls) = 1 THEN loop.round + 1 ELSE loop.round
        /\ loop'.calls = Tail(loop.calls) /\ loop'.guarded = FALSE
        /\ loop'.snap = loop.snap /\ loop'.verdict = loop.verdict
    BY <1>1 DEF NextCall, Execution
  <1>6. told' \in [Ids -> {"nothing", "ok", "error"}]
    BY <1>1 DEF NextCall, TypeOK
  <1>7. \A i \in Ids : told'[i] = IF i = Call THEN result ELSE told[i]
    BY <1>1 DEF NextCall, TypeOK
  <1> QED BY <1>1, <1>2, <1>4, <1>5, <1>6, <1>7
-----------------------------------------------------------------------------
(* What the transactions do to the rows.                                   *)

(* The conditional UPDATE of a finished call keeps its snapshot, moves the *)
(* row only from running, and touches no other row.                        *)
LEMMA FinishAuditEffect ==
  ASSUME TypeOK, NEW i \in Ids, NEW status \in Ended, FinishAudit(i, status)
  PROVE  /\ audits' \in [Ids -> Audit]
         /\ \A j \in Ids : audits[j].status # "running" => audits'[j] = audits[j]
         /\ \A j \in Ids : j # i => audits'[j] = audits[j]
         /\ \A j \in Ids : audits[j].status = "running" =>
               audits'[j].snap = audits[j].snap /\ audits'[j].status \in {"running", status}
         /\ audits[i].status = "running" => audits'[i].status = status
  <1>1. audits \in [Ids -> Audit] /\ audits[i] \in Audit
    BY Types
  <1>2. audits' \in [Ids -> Audit]
    BY <1>1 DEF FinishAudit, Audit
  <1>3. \A j \in Ids : j # i => audits'[j] = audits[j]
    BY <1>1 DEF FinishAudit
  <1>4. audits'[i] = [audits[i] EXCEPT !.status = IF audits[i].status = "running"
                                                   THEN status ELSE audits[i].status]
    BY <1>1 DEF FinishAudit
  <1>5. audits[i].status = "running" => /\ audits'[i].status = status
                                        /\ audits'[i].snap = audits[i].snap
    BY <1>1, <1>4 DEF Audit
  <1>6. audits[i].status # "running" => audits'[i] = audits[i]
    BY <1>1, <1>4 DEF Audit
  <1> QED BY <1>2, <1>3, <1>5, <1>6

LEMMA CreateAuditEffect ==
  ASSUME TypeOK, NEW i \in Ids, NEW s \in Snapshots \union {None}, CreateAudit(i, s)
  PROVE  /\ audits' \in [Ids -> Audit]
         /\ audits[i].status = "none" /\ audits'[i].status = "running" /\ audits'[i].snap = s
         /\ \A j \in Ids : j # i => audits'[j] = audits[j]
  BY Types DEF CreateAudit, NoAudit, Audit

LEMMA SpendEffect ==
  ASSUME TypeOK, NEW x \in Budgets, Spend(x)
  PROVE  spent' \in [Budgets -> Nat]
  BY DEF TypeOK, Spend, Budgets

(* The pin is set once.                                                    *)
LEMMA PinEffect ==
  ASSUME TypeOK, PinTo(SnapshotOfRun)
  PROVE  /\ pin' \in Snapshots \union {None}
         /\ pin # None => pin' = pin
  BY DEF TypeOK, PinTo, SnapshotOfRun
-----------------------------------------------------------------------------
(* The invariant is inductive: one lemma per action.                       *)

LEMMA InitHolds == Init => IInv
  <1> SUFFICES ASSUME Init PROVE IInv
    OBVIOUS
  <1>1. TypeOK
    BY OffType DEF Init, TypeOK, Active, NoAudit, Ended, Execution, Places
  <1>2. Shape /\ OfThePin /\ CallIsAudited
    BY DEF Init, Shape, OfThePin, CallIsAudited, Off, InCall, Pinned
  <1>3. ExecutedWillEnd /\ ToldIsRecorded /\ SourcesAreOfSuccesses
    BY DEF Init, ExecutedWillEnd, ToldIsRecorded, SourcesAreOfSuccesses
  <1> QED BY <1>1, <1>2, <1>3 DEF IInv

(* The loop ends without touching a row.                                   *)
LEMMA EndKeeps ==
  ASSUME IInv, loop.at # "off", NEW v \in Verdicts, End(v),
         loop.at \notin {"tool", "finish"} \/ ~clean',
         UNCHANGED <<run, pin, current, audits, sources, told, late, executed>>,
         clean' \in BOOLEAN, clean' => clean, spent' \in [Budgets -> Nat]
  PROVE  IInv'
  <1> USE DEF IInv
  <1>0. /\ loop' \in Execution /\ v # None
        /\ loop'.at = "end" /\ loop'.verdict = v /\ loop'.guarded = FALSE
    BY EndEffect, NoneAssumption DEF Verdicts
  <1>1. TypeOK'
    BY <1>0 DEF TypeOK, Execution, Places, Budgets
  <1>2. Shape'
    BY <1>0 DEF Shape, InCall
  <1>3. OfThePin' /\ CallIsAudited'
    BY <1>0 DEF OfThePin, CallIsAudited, Pinned, InCall
  <1>4. ExecutedWillEnd'
    BY <1>0 DEF ExecutedWillEnd
  <1>5. ToldIsRecorded' /\ SourcesAreOfSuccesses'
    BY DEF ToldIsRecorded, SourcesAreOfSuccesses
  <1> QED BY <1>1, <1>2, <1>3, <1>4, <1>5

LEMMA BeginKeeps == IInv /\ Begin => IInv'
  <1> SUFFICES ASSUME IInv, Begin PROVE IInv'
    OBVIOUS
  <1> USE DEF IInv
  <1>0. /\ loop' \in Execution
        /\ loop'.at = "pin" /\ loop'.verdict = None /\ loop'.guarded = FALSE
        /\ late = {} /\ late' = {}
    BY OffType DEF Begin, Off, Execution, Places, Shape
  <1>1. TypeOK'
    BY <1>0 DEF Begin, TypeOK, Execution, Places, Active
  <1>2. Shape'
    BY <1>0 DEF Begin, Shape, InCall
  <1>3. OfThePin' /\ CallIsAudited'
    BY <1>0 DEF Begin, OfThePin, CallIsAudited, Pinned, InCall
  <1>4. ExecutedWillEnd'
    BY <1>0 DEF Begin, ExecutedWillEnd, At
  <1>5. ToldIsRecorded' /\ SourcesAreOfSuccesses'
    BY DEF Begin, ToldIsRecorded, SourcesAreOfSuccesses
  <1> QED BY <1>1, <1>2, <1>3, <1>4, <1>5

LEMMA ResolveSnapshotKeeps == IInv /\ ResolveSnapshot => IInv'
  <1> SUFFICES ASSUME IInv, ResolveSnapshot PROVE IInv'
    OBVIOUS
  <1> USE DEF IInv
  <1>1. CASE SnapshotOfRun = None
    <2>1. End("failed") /\ loop.at = "pin" /\ "failed" \in Verdicts
      BY <1>1 DEF ResolveSnapshot, At, Verdicts
    <2>2. UNCHANGED <<run, pin, current, audits, sources, told, late, executed, clean, spent>>
      BY <1>1 DEF ResolveSnapshot, PinTo, SnapshotOfRun
    <2> QED BY <2>1, <2>2, EndKeeps DEF TypeOK, Budgets
  <1>2. CASE SnapshotOfRun # None
    <2>0. /\ loop.at = "pin" /\ run = "running" /\ loop.verdict = None /\ late = {}
          /\ loop.guarded = FALSE /\ loop \in Execution
      BY Types DEF ResolveSnapshot, At, Shape, Execution
    <2>1. /\ pin' = SnapshotOfRun /\ pin' # None /\ pin' \in Snapshots
          /\ pin # None => pin' = pin
      BY <1>2, <2>0 DEF ResolveSnapshot, PinTo, SnapshotOfRun, TypeOK
    <2>2. /\ loop' \in Execution /\ loop'.at = "model" /\ loop'.snap = pin'
          /\ loop'.guarded = FALSE /\ loop'.verdict = None
      BY <1>2, <2>0, <2>1 DEF ResolveSnapshot, Execution, Places
    <2>3. TypeOK'
      BY <2>1, <2>2 DEF ResolveSnapshot, TypeOK, Execution, Places
    <2>4. Shape'
      BY <2>0, <2>2 DEF ResolveSnapshot, Shape, InCall
    <2>5. \A s \in sources : s.id \in Ids /\ audits[s.id] # NoAudit
      BY DEF SourcesAreOfSuccesses, TypeOK, NoAudit
    <2>6. OfThePin'
      BY <2>0, <2>1, <2>2, <2>5 DEF ResolveSnapshot, OfThePin
    <2>7. CallIsAudited' /\ ExecutedWillEnd'
      BY <2>0, <2>2 DEF ResolveSnapshot, CallIsAudited, ExecutedWillEnd
    <2>8. ToldIsRecorded' /\ SourcesAreOfSuccesses'
      BY DEF ResolveSnapshot, ToldIsRecorded, SourcesAreOfSuccesses
    <2> QED BY <2>3, <2>4, <2>6, <2>7, <2>8
  <1> QED BY <1>1, <1>2

LEMMA ModelKeeps ==
  ASSUME IInv, ModelAnswers \/ ModelFails \/ \E calls \in Lists : ModelCalls(calls)
  PROVE  IInv'
  <1> USE DEF IInv
  <1>0. loop.at = "model" /\ clean \in BOOLEAN /\ spent \in [Budgets -> Nat]
    BY DEF ModelAnswers, ModelFails, ModelCalls, At, TypeOK, Budgets
  <1>1. CASE ModelAnswers \/ ModelFails
    BY <1>0, <1>1, EndKeeps DEF ModelAnswers, ModelFails, Verdicts
  <1>2. ASSUME NEW calls \in Lists, ModelCalls(calls) PROVE IInv'
    <2>1. CASE loop.round >= MaxIterations
      BY <1>0, <1>2, <2>1, EndKeeps DEF ModelCalls, Verdicts
    <2>2. CASE ~(loop.round >= MaxIterations)
      <3>0. /\ loop \in Execution /\ loop.verdict = None /\ late = {} /\ loop.guarded = FALSE
            /\ loop.round < MaxIterations
        BY <1>0, <2>2, Types, IterationsAssumption DEF Shape, Execution
      <3>1. /\ loop' \in Execution /\ loop'.at = "audit" /\ loop'.calls # <<>>
            /\ loop'.snap = loop.snap /\ loop'.guarded = FALSE /\ loop'.verdict = None
            /\ loop'.round < MaxIterations
        BY <1>2, <2>2, <3>0 DEF ModelCalls, Execution, Places
      <3>2. UNCHANGED <<run, pin, current, audits, sources, told, late, executed, clean, spent>>
        BY <1>2 DEF ModelCalls
      <3>3. TypeOK'
        BY <3>1, <3>2 DEF TypeOK, Execution, Places
      <3>4. Shape'
        BY <1>0, <3>0, <3>1, <3>2 DEF Shape, InCall
      <3>5. OfThePin' /\ CallIsAudited'
        BY <1>0, <3>0, <3>1, <3>2 DEF OfThePin, CallIsAudited, Pinned, InCall
      <3>6. ExecutedWillEnd'
        BY <1>0, <3>1, <3>2 DEF ExecutedWillEnd
      <3>7. ToldIsRecorded' /\ SourcesAreOfSuccesses'
        BY <3>2 DEF ToldIsRecorded, SourcesAreOfSuccesses
      <3> QED BY <3>3, <3>4, <3>5, <3>6, <3>7
    <2> QED BY <2>1, <2>2
  <1> QED BY <1>1, <1>2

LEMMA AuditCreatedKeeps ==
  ASSUME IInv, NEW accepted \in BOOLEAN, AuditCreated(accepted)
  PROVE  IInv'
  <1> USE DEF IInv
  <1>0. /\ loop.at = "audit" /\ loop \in Execution /\ Call \in Ids
        /\ loop.verdict = None /\ late = {} /\ loop.calls # <<>> /\ loop.round < MaxIterations
        /\ pin # None /\ loop.snap = pin /\ pin \in Snapshots
    BY Types, CallType DEF AuditCreated, At, Shape, OfThePin, InCall, Pinned, TypeOK
  <1>1. /\ audits' \in [Ids -> Audit] /\ audits[Call].status = "none"
        /\ audits'[Call].status = "running" /\ audits'[Call].snap = pin
        /\ \A j \in Ids : j # Call => audits'[j] = audits[j]
    BY <1>0, CreateAuditEffect DEF AuditCreated
  <1>2. /\ loop' \in Execution /\ loop'.calls = loop.calls /\ loop'.snap = loop.snap
        /\ loop'.round = loop.round /\ loop'.verdict = None
        /\ \/ accepted /\ loop'.at = "tool" /\ loop'.guarded = TRUE
           \/ /\ ~accepted /\ loop'.at = "finish" /\ loop'.guarded = FALSE
              /\ loop'.write = "rejected"
    <2>1. CASE accepted
      BY <1>0, <2>1 DEF AuditCreated, Execution, Places
    <2>2. CASE ~accepted
      BY <1>0, <2>2, FinishEffect DEF AuditCreated, Ended
    <2> QED BY <2>1, <2>2
  <1>3. /\ UNCHANGED <<run, pin, current, sources, told, late, clean, spent>>
        /\ executed' = IF accepted THEN executed \union {Call} ELSE executed
        /\ Call' = Call
    BY <1>2 DEF AuditCreated, Call
  <1>4. TypeOK'
    BY <1>0, <1>1, <1>2, <1>3 DEF TypeOK, Execution, Places, Audit
  <1>5. Shape'
    BY <1>0, <1>2, <1>3 DEF Shape, InCall, Ended
  <1>6. OfThePin'
    BY <1>0, <1>1, <1>2, <1>3 DEF OfThePin, NoAudit
  <1>7. CallIsAudited'
    BY <1>0, <1>1, <1>2, <1>3 DEF CallIsAudited
  <1>8. ExecutedWillEnd'
    BY <1>0, <1>1, <1>2, <1>3 DEF ExecutedWillEnd, TypeOK
  <1>9. told[Call] \notin {"ok", "error"} /\ \A s \in sources : s.id \in Ids /\ s.id # Call
    BY <1>0, <1>1 DEF ToldIsRecorded, SourcesAreOfSuccesses, TypeOK, Ended
  <1>10. ToldIsRecorded'
    BY <1>1, <1>3, <1>9 DEF ToldIsRecorded
  <1>11. SourcesAreOfSuccesses'
    BY <1>1, <1>3, <1>9 DEF SourcesAreOfSuccesses
  <1> QED BY <1>4, <1>5, <1>6, <1>7, <1>8, <1>10, <1>11

LEMMA AuditRefusedKeeps == IInv /\ AuditRefused => IInv'
  BY EndKeeps DEF AuditRefused, At, Verdicts, IInv, TypeOK, Budgets

LEMMA ToolReturnsKeeps ==
  ASSUME IInv, NEW status \in Ended, NEW g \in BOOLEAN, ToolReturns(status, g)
  PROVE  IInv'
  <1> USE DEF IInv
  <1>0. /\ loop.at = "tool" /\ loop \in Execution
        /\ loop.verdict = None /\ late = {} /\ loop.calls # <<>> /\ loop.round < MaxIterations
        /\ audits[Call].status = "running"
    BY Types DEF ToolReturns, At, Shape, InCall, CallIsAudited
  <1>1. /\ loop' \in Execution
        /\ loop'.at = "finish" /\ loop'.write = status /\ loop'.guarded = g
        /\ loop'.calls = loop.calls /\ loop'.snap = loop.snap
        /\ loop'.round = loop.round /\ loop'.verdict = loop.verdict
        /\ Call' = Call
    BY FinishEffect DEF ToolReturns, Call
  <1>2. UNCHANGED <<run, pin, current, audits, sources, told, late, executed, clean, spent>>
    BY DEF ToolReturns
  <1>4. TypeOK'
    BY <1>1, <1>2 DEF TypeOK, Execution, Places
  <1>5. Shape'
    BY <1>0, <1>1, <1>2 DEF Shape, InCall
  <1>6. OfThePin' /\ CallIsAudited'
    BY <1>0, <1>1, <1>2 DEF OfThePin, CallIsAudited, Pinned, InCall
  <1>7. ExecutedWillEnd'
    BY <1>0, <1>1, <1>2 DEF ExecutedWillEnd
  <1>8. ToldIsRecorded' /\ SourcesAreOfSuccesses'
    BY <1>2 DEF ToldIsRecorded, SourcesAreOfSuccesses
  <1> QED BY <1>4, <1>5, <1>6, <1>7, <1>8

LEMMA AuditFinishedKeeps == IInv /\ AuditFinished => IInv'
  <1> SUFFICES ASSUME IInv, AuditFinished PROVE IInv'
    OBVIOUS
  <1> USE DEF IInv
  <1>0. /\ loop.at = "finish" /\ loop \in Execution /\ Call \in Ids /\ loop.write \in Ended
        /\ loop.calls # <<>> /\ loop.round < MaxIterations /\ run # "queued"
        /\ pin # None /\ loop.snap = pin /\ audits[Call].status # "none"
        /\ FinishAudit(Call, loop.write)
        /\ UNCHANGED <<run, pin, current, sources, late, executed, clean, spent>>
    BY Types, CallType DEF AuditFinished, At, Shape, OfThePin, InCall, Pinned, CallIsAudited
  <1>1. /\ audits' \in [Ids -> Audit]
        /\ \A j \in Ids : audits[j].status # "running" => audits'[j] = audits[j]
        /\ \A j \in Ids : j # Call => audits'[j] = audits[j]
        /\ \A j \in Ids : audits[j].status = "running" =>
              audits'[j].snap = audits[j].snap /\ audits'[j].status \in {"running", loop.write}
        /\ audits[Call].status = "running" => audits'[Call].status = loop.write
    BY <1>0, FinishAuditEffect
  <1>2. audits \in [Ids -> Audit] /\ audits'[Call].status \in Ended
    <2>1. audits[Call] \in Audit
      BY <1>0, Types
    <2> QED BY <1>0, <1>1, <2>1, Types DEF Audit
  <1>3. \A i \in Ids : audits[i].status \in Ended => audits'[i] = audits[i]
    BY <1>1 DEF Ended
  <1>4. \A i \in Ids : audits[i].status # "none" => audits'[i].status # "none"
    BY <1>0, <1>1 DEF Ended
  <1>5. \A i \in Ids : audits'[i] # NoAudit => pin # None /\ audits'[i].snap = pin
    BY <1>0, <1>1 DEF OfThePin, NoAudit
  <1>6. SourcesAreOfSuccesses'
    BY <1>0, <1>3 DEF SourcesAreOfSuccesses, TypeOK, Ended
  <1>7. \A t \in late : t.kind = "sources" => audits'[t.id].status = "succeeded"
    <2>1. \A t \in late : t.kind = "sources" => t.id \in Ids
      BY DEF Shape
    <2> QED BY <2>1, <1>3 DEF CallIsAudited, Ended
  <1>8. /\ loop' \in Execution
        /\ \/ /\ loop'.at = "end" /\ loop'.verdict # None /\ loop'.guarded = FALSE
              /\ told' = told
           \/ /\ loop'.at = "sources" /\ loop.write = "succeeded" /\ loop'.calls = loop.calls
              /\ loop'.round = loop.round /\ loop.verdict = None /\ told' = told
              /\ loop'.snap = loop.snap /\ loop'.verdict = None
           \/ /\ loop'.at \in {"model", "audit"} /\ loop'.guarded = FALSE
              /\ loop'.at = "audit" => loop'.calls # <<>> /\ loop'.round < MaxIterations
              /\ loop'.snap = loop.snap /\ loop.verdict = None /\ loop'.verdict = None
              /\ told' \in [Ids -> {"nothing", "ok", "error"}]
              /\ \A i \in Ids : told'[i] = IF i = Call THEN "error" ELSE told[i]
    <2>1. CASE loop.verdict # None
      <3>1. loop.verdict \in Verdicts
        BY <1>0, <2>1 DEF Execution
      <3> QED BY <2>1, <3>1, EndEffect DEF AuditFinished
    <2>2. CASE loop.verdict = None /\ loop.write = "succeeded"
      BY <2>2, GotoEffect DEF AuditFinished, Places
    <2>3. CASE loop.verdict = None /\ loop.write # "succeeded"
      <3>1. NextCall("error")
        BY <2>3 DEF AuditFinished
      <3>2. /\ loop' \in Execution
            /\ loop'.at \in {"model", "audit"} /\ loop'.guarded = FALSE
            /\ loop'.at = "audit" => loop'.calls # <<>> /\ loop'.round < MaxIterations
            /\ loop'.snap = loop.snap /\ loop'.verdict = loop.verdict
            /\ told' \in [Ids -> {"nothing", "ok", "error"}]
            /\ \A i \in Ids : told'[i] = IF i = Call THEN "error" ELSE told[i]
        BY <3>1, <1>0, NextCallEffect DEF InCall
      <3> QED BY <2>3, <3>2
    <2> QED BY <2>1, <2>2, <2>3
  <1>9. TypeOK'
    BY <1>0, <1>1, <1>8 DEF TypeOK, Execution, Places, Audit
  <1>10. Shape'
    BY <1>0, <1>8 DEF Shape, InCall
  <1>11. OfThePin'
    BY <1>0, <1>5, <1>8 DEF OfThePin, Pinned, InCall
  <1>12. CallIsAudited'
    <2>1. loop'.at = "sources" =>
            /\ Call' = Call /\ loop.write = "succeeded" /\ audits[Call].status = "running"
      BY <1>0, <1>8 DEF Call, CallIsAudited
    <2> QED BY <1>0, <1>1, <1>7, <1>8, <2>1 DEF CallIsAudited
  <1>13. ExecutedWillEnd'
    BY <1>0, <1>2, <1>3, <1>4 DEF ExecutedWillEnd, TypeOK
  <1>14. ToldIsRecorded'
    BY <1>0, <1>2, <1>3, <1>8 DEF ToldIsRecorded, Ended
  <1> QED BY <1>6, <1>9, <1>10, <1>11, <1>12, <1>13, <1>14

LEMMA SourcesSavedKeeps == IInv /\ SourcesSaved => IInv'
  <1> SUFFICES ASSUME IInv, SourcesSaved PROVE IInv'
    OBVIOUS
  <1> USE DEF IInv
  <1>0. /\ loop.at = "sources" /\ loop \in Execution /\ Call \in Ids /\ NextCall("ok")
        /\ loop.verdict = None /\ pin # None /\ loop.snap = pin /\ pin \in Snapshots
        /\ audits[Call].status = "succeeded"
        /\ UNCHANGED <<run, pin, current, audits, late, executed, clean, spent>>
    BY Types, CallType
       DEF SourcesSaved, At, Shape, OfThePin, InCall, Pinned, CallIsAudited, TypeOK
  <1>1. /\ loop' \in Execution
        /\ loop'.at \in {"model", "audit"} /\ loop'.guarded = FALSE
        /\ loop'.at = "audit" => loop'.calls # <<>> /\ loop'.round < MaxIterations
        /\ loop'.snap = loop.snap /\ loop'.verdict = None
        /\ told' \in [Ids -> {"nothing", "ok", "error"}]
        /\ \A i \in Ids : told'[i] = IF i = Call THEN "ok" ELSE told[i]
    BY <1>0, NextCallEffect DEF InCall
  <1>2. sources' = sources \union {[id |-> Call, snap |-> pin]}
    BY <1>0 DEF SourcesSaved, SaveSources, SourceOf
  <1>3. [id |-> Call, snap |-> pin] \in sources' /\ sources \subseteq sources'
        /\ \A s \in sources' : s \in sources \/ (s.id = Call /\ s.snap = pin)
    BY <1>2
  <1>4. TypeOK'
    BY <1>0, <1>1, <1>2 DEF TypeOK, Execution, Places
  <1>5. Shape'
    BY <1>0, <1>1 DEF Shape, InCall
  <1>6. OfThePin'
    BY <1>0, <1>1, <1>3 DEF OfThePin
  <1>7. CallIsAudited' /\ SourcesAreOfSuccesses'
    BY <1>0, <1>1, <1>3 DEF CallIsAudited, SourcesAreOfSuccesses
  <1>8. ExecutedWillEnd'
    BY <1>0, <1>1 DEF ExecutedWillEnd
  <1>9. ToldIsRecorded'
    <2>1. \E s \in sources' : s.id = Call
      BY <1>3
    <2> QED BY <1>0, <1>1, <1>3, <2>1 DEF ToldIsRecorded
  <1> QED BY <1>4, <1>5, <1>6, <1>7, <1>8, <1>9

LEMMA TransactionRaisesKeeps == IInv /\ TransactionRaises => IInv'
  <1> SUFFICES ASSUME IInv, TransactionRaises PROVE IInv'
    OBVIOUS
  <1> USE DEF IInv
  <1>0. /\ UNCHANGED <<run, pin, current, audits, sources, told, late, executed>>
        /\ clean' = FALSE /\ spent' \in [Budgets -> Nat]
        /\ loop.at \in {"pin", "audit", "finish", "sources"}
    BY SpendEffect DEF TransactionRaises, Budgets
  <1>1. CASE ~loop.guarded
    BY <1>0, <1>1, EndKeeps DEF TransactionRaises, Verdicts
  <1>2. CASE loop.guarded
    <2>0. /\ loop.at \in {"finish", "sources"} /\ loop.calls # <<>> /\ loop.round < MaxIterations
          /\ pin # None /\ loop.snap = pin /\ audits[Call].status # "none"
      BY <1>0, <1>2 DEF Shape, InCall, OfThePin, Pinned, CallIsAudited
    <2>1. /\ loop' \in Execution
          /\ loop'.at = "finish" /\ loop'.write = "failed" /\ loop'.guarded = FALSE
          /\ loop'.calls = loop.calls /\ loop'.snap = loop.snap
          /\ loop'.round = loop.round /\ loop'.verdict = loop.verdict
          /\ Call' = Call
      BY <1>2, FinishEffect DEF TransactionRaises, Ended, Call
    <2>2. TypeOK'
      BY <1>0, <2>1 DEF TypeOK, Execution, Places, Budgets
    <2>3. Shape'
      BY <1>0, <2>0, <2>1 DEF Shape, InCall, Ended
    <2>4. OfThePin' /\ CallIsAudited'
      BY <1>0, <2>0, <2>1 DEF OfThePin, CallIsAudited
    <2>5. ExecutedWillEnd'
      BY <1>0 DEF ExecutedWillEnd
    <2>6. ToldIsRecorded' /\ SourcesAreOfSuccesses'
      BY <1>0 DEF ToldIsRecorded, SourcesAreOfSuccesses
    <2> QED BY <2>2, <2>3, <2>4, <2>5, <2>6
  <1> QED BY <1>1, <1>2

(* The thread an interruption leaves behind writes rows of the pinned      *)
(* snapshot, and finishes the current call when that is what it was doing. *)
LEMMA AwaitedThread ==
  ASSUME IInv
  PROVE  /\ Awaited \subseteq Thread
         /\ \A t \in Awaited :
               /\ t.kind # "pin" => t.id \in Ids
               /\ t.kind = "finish" => t.write \in Ended
               /\ t.kind \in {"audit", "sources"} => pin # None /\ t.snap = pin
               /\ t.kind = "sources" => audits[t.id].status = "succeeded"
         /\ loop.at = "finish" => \E t \in Awaited :
               t.kind = "finish" /\ t.id = Call /\ t.write \in Ended
         /\ loop.at = "tool" => Awaited = {}
  <1> USE DEF IInv
  <1>0. loop \in Execution /\ (loop.at \in InCall => Call \in Ids)
    BY Types, CallType
  <1>1. CASE loop.at = "pin"
    <2>1. Awaited = {[kind |-> "pin", id |-> None, write |-> loop.write, snap |-> None]}
      BY <1>1 DEF Awaited, At
    <2> QED BY <1>0, <1>1, <2>1 DEF Execution, Thread
  <1>2. CASE loop.at = "audit"
    <2>1. Awaited = {[kind |-> "audit", id |-> Call, write |-> loop.write, snap |-> loop.snap]}
      BY <1>2 DEF Awaited, At
    <2> QED BY <1>0, <1>2, <2>1 DEF Execution, Thread, OfThePin, Pinned, InCall
  <1>3. CASE loop.at = "finish"
    <2>1. Awaited = {[kind |-> "finish", id |-> Call, write |-> loop.write, snap |-> None]}
      BY <1>3 DEF Awaited, At
    <2> QED BY <1>0, <1>3, <2>1 DEF Execution, Thread, Shape, InCall
  <1>4. CASE loop.at = "sources"
    <2>1. Awaited = {[kind |-> "sources", id |-> Call, write |-> loop.write, snap |-> loop.snap]}
      BY <1>4 DEF Awaited, At, SourceOf
    <2> QED BY <1>0, <1>4, <2>1 DEF Execution, Thread, OfThePin, Pinned, InCall, CallIsAudited
  <1>5. CASE loop.at \notin {"pin", "audit", "finish", "sources"}
    <2>1. Awaited = {}
      BY <1>5 DEF Awaited, At
    <2> QED BY <1>5, <2>1
  <1> QED BY <1>1, <1>2, <1>3, <1>4, <1>5

LEMMA InterruptKeeps ==
  ASSUME IInv, NEW why \in {"cancel", "newer", "timeout"}, NEW kept \in BOOLEAN,
         Interrupt(why, kept)
  PROVE  IInv'
  <1> USE DEF IInv
  <1>0. /\ loop.at \notin {"off", "end"} /\ run # "queued" /\ run' # "queued"
        /\ run' \in Active \union Verdicts /\ spent' \in [Budgets -> Nat]
        /\ late' = (IF kept THEN late \union Awaited ELSE late)
        /\ clean' = (clean /\ (kept \/ Awaited = {}))
        /\ UNCHANGED <<pin, current, audits, sources, told, executed>>
    BY SpendEffect DEF Interrupt, Shape, TypeOK, Active, Budgets
  <1>1. /\ loop' \in Execution /\ loop'.verdict # None /\ loop'.guarded = FALSE
        /\ \/ loop'.at = "end" /\ (loop.verdict # None \/ ~loop.guarded)
           \/ /\ loop'.at = "finish" /\ loop'.write = "cancelled" /\ loop.guarded
              /\ loop'.calls = loop.calls /\ loop'.snap = loop.snap /\ loop'.round = loop.round
    <2>1. CASE loop.verdict # None
      BY <2>1, EndEffect, NoneAssumption DEF Interrupt, Verdicts
    <2>2. CASE loop.verdict = None
      <3>1. PICK v \in Verdicts : Unwind(v)
        BY <2>2 DEF Interrupt, Verdicts
      <3>2. v # None
        BY NoneAssumption DEF Verdicts
      <3> QED BY <3>1, <3>2, UnwindEffect
    <2> QED BY <2>1, <2>2
  <1>2. loop'.at = "finish" => /\ loop.at \in {"tool", "finish", "sources"} /\ Call' = Call
                               /\ loop.calls # <<>> /\ loop.round < MaxIterations
    BY <1>1 DEF Shape, InCall, Call
  <1>3. late' \subseteq Thread /\ \A t \in late' :
               /\ t.kind # "pin" => t.id \in Ids
               /\ t.kind = "finish" => t.write \in Ended
               /\ t.kind \in {"audit", "sources"} => pin # None /\ t.snap = pin
               /\ t.kind = "sources" => audits[t.id].status = "succeeded"
    BY <1>0, AwaitedThread, Types DEF Shape, OfThePin, CallIsAudited
  <1>4. TypeOK'
    BY <1>0, <1>1, <1>3 DEF TypeOK, Execution, Places, Thread, Budgets
  <1>5. Shape'
    BY <1>0, <1>1, <1>2, <1>3 DEF Shape, InCall, Ended
  <1>6. OfThePin'
    BY <1>0, <1>1, <1>2, <1>3 DEF OfThePin, Pinned, InCall
  <1>7. CallIsAudited'
    BY <1>0, <1>1, <1>2, <1>3 DEF CallIsAudited
  <1>8. ExecutedWillEnd'
    <2>1. \A i \in executed' : audits'[i].status # "none"
      BY <1>0 DEF ExecutedWillEnd
    <2>2. ASSUME clean', NEW i \in executed
          PROVE  \/ audits[i].status \in Ended
                 \/ loop'.at \in {"tool", "finish"} /\ Call' = i
                 \/ \E t \in late' : t.kind = "finish" /\ t.id = i /\ t.write \in Ended
      <3>1. clean /\ (kept \/ Awaited = {})
        BY <1>0, <2>2
      <3>2. \/ audits[i].status \in Ended
            \/ loop.at \in {"tool", "finish"} /\ Call = i
            \/ \E t \in late : t.kind = "finish" /\ t.id = i /\ t.write \in Ended
        BY <2>2, <3>1 DEF ExecutedWillEnd
      <3>3. CASE \E t \in late : t.kind = "finish" /\ t.id = i /\ t.write \in Ended
        BY <3>3, <1>0
      <3>4. CASE loop.at = "tool" /\ Call = i
        <4>1. loop.guarded /\ loop.verdict = None
          BY <3>4 DEF Shape
        <4> QED BY <1>1, <1>2, <3>4, <4>1
      <3>5. CASE loop.at = "finish" /\ Call = i
        <4>1. PICK t \in Awaited : t.kind = "finish" /\ t.id = i /\ t.write \in Ended
          BY <3>5, AwaitedThread
        <4>2. t \in late'
          BY <1>0, <3>1, <4>1
        <4> QED BY <4>1, <4>2
      <3> QED BY <3>2, <3>3, <3>4, <3>5
    <2> QED BY <1>0, <2>1, <2>2 DEF ExecutedWillEnd
  <1>9. ToldIsRecorded' /\ SourcesAreOfSuccesses'
    BY <1>0 DEF ToldIsRecorded, SourcesAreOfSuccesses
  <1> QED BY <1>4, <1>5, <1>6, <1>7, <1>8, <1>9

(* The commit of a thread that nobody awaits: the execution has a verdict, *)
(* or is over, so no call is being made.                                   *)
LEMMA LateCommitsKeeps ==
  ASSUME IInv, NEW t \in late, LateCommits(t)
  PROVE  IInv'
  <1> USE DEF IInv
  <1>0. /\ t \in Thread /\ late' = late \ {t} /\ late # {}
        /\ t.kind # "pin" => t.id \in Ids
        /\ t.kind = "finish" => t.write \in Ended
        /\ t.kind \in {"audit", "sources"} => pin # None /\ t.snap = pin
        /\ t.kind = "sources" => audits[t.id].status = "succeeded"
        /\ UNCHANGED <<run, current, loop, told, executed, clean, spent>>
    BY Types DEF LateCommits, Shape, OfThePin, CallIsAudited
  <1>1. loop.at \in {"off", "finish", "end"} /\ (loop.at = "finish" => loop.verdict # None)
    BY <1>0 DEF Shape
  <1>2. Shape' /\ Call' = Call
    BY <1>0 DEF Shape, Call
  <1>3. TypeOK /\ loop \in Execution /\ audits \in [Ids -> Audit] /\ loop' = loop
    BY <1>0, Types
  <1>4. ASSUME t.kind = "pin", PinTo(SnapshotOfRun), UNCHANGED <<audits, sources>>
        PROVE  IInv'
    <2>1. pin' \in Snapshots \union {None} /\ (pin # None => pin' = pin)
      BY <1>4, PinEffect
    <2>2. \A s \in sources : s.id \in Ids /\ audits[s.id] # NoAudit
      BY DEF SourcesAreOfSuccesses, TypeOK, NoAudit
    <2>3. TypeOK'
      BY <1>0, <1>4, <2>1 DEF TypeOK
    <2>4. OfThePin'
      BY <1>0, <1>4, <2>1, <2>2 DEF OfThePin
    <2>5. CallIsAudited'
      BY <1>0, <1>2, <1>4 DEF CallIsAudited
    <2>6. ExecutedWillEnd'
      BY <1>0, <1>2, <1>4 DEF ExecutedWillEnd
    <2>7. ToldIsRecorded' /\ SourcesAreOfSuccesses'
      BY <1>0, <1>4 DEF ToldIsRecorded, SourcesAreOfSuccesses
    <2> QED BY <1>2, <2>3, <2>4, <2>5, <2>6, <2>7
  <1>5. ASSUME t.kind = "audit", CreateAudit(t.id, t.snap), UNCHANGED <<pin, sources>>
        PROVE  IInv'
    <2>0. t.id \in Ids /\ t.snap \in Snapshots \union {None} /\ pin # None /\ t.snap = pin
      BY <1>0, <1>5 DEF Thread
    <2>1. /\ audits' \in [Ids -> Audit] /\ audits[t.id].status = "none"
          /\ audits'[t.id].status = "running" /\ audits'[t.id].snap = pin
          /\ \A j \in Ids : j # t.id => audits'[j] = audits[j]
      BY <1>5, <2>0, CreateAuditEffect
    <2>2. \A j \in Ids : audits[j].status # "none" => audits'[j] = audits[j]
      BY <2>1
    <2>3. TypeOK'
      BY <1>0, <1>5, <2>1 DEF TypeOK, Audit
    <2>4. OfThePin'
      BY <1>0, <1>5, <2>0, <2>1 DEF OfThePin
    <2>5. CallIsAudited'
      <3>1. \A u \in late : u.kind = "sources" => audits'[u.id].status = "succeeded"
        BY <2>2 DEF CallIsAudited, Shape
      <3>2. loop.at = "finish" => Call \in Ids
        BY CallType DEF InCall
      <3> QED BY <1>0, <1>1, <1>2, <2>2, <3>1, <3>2 DEF CallIsAudited
    <2>6. ExecutedWillEnd'
      <3>1. \A i \in executed : i \in Ids /\ audits'[i] = audits[i]
        BY <2>2 DEF ExecutedWillEnd, TypeOK
      <3>2. \A u \in late : u.kind = "finish" => u \in late'
        BY <1>0, <1>5
      <3> QED BY <1>0, <1>2, <3>1, <3>2 DEF ExecutedWillEnd
    <2>7. ToldIsRecorded' /\ SourcesAreOfSuccesses'
      BY <1>0, <1>5, <2>2 DEF ToldIsRecorded, SourcesAreOfSuccesses, TypeOK, Ended
    <2> QED BY <1>2, <2>3, <2>4, <2>5, <2>6, <2>7
  <1>6. ASSUME t.kind = "audit", UNCHANGED <<pin, audits, sources>>
        PROVE  IInv'
    <2>3. TypeOK'
      BY <1>0, <1>6 DEF TypeOK
    <2>4. OfThePin'
      BY <1>0, <1>6 DEF OfThePin
    <2>5. CallIsAudited'
      BY <1>0, <1>2, <1>6 DEF CallIsAudited
    <2>6. ExecutedWillEnd'
      <3>1. \A u \in late : u.kind = "finish" => u \in late'
        BY <1>0, <1>6
      <3> QED BY <1>0, <1>2, <1>6, <3>1 DEF ExecutedWillEnd
    <2>7. ToldIsRecorded' /\ SourcesAreOfSuccesses'
      BY <1>0, <1>6 DEF ToldIsRecorded, SourcesAreOfSuccesses
    <2> QED BY <1>2, <2>3, <2>4, <2>5, <2>6, <2>7
  <1>7. ASSUME t.kind = "finish", FinishAudit(t.id, t.write), UNCHANGED <<pin, sources>>
        PROVE  IInv'
    <2>0. t.id \in Ids /\ t.write \in Ended
      BY <1>0, <1>7
    <2>1. /\ audits' \in [Ids -> Audit]
          /\ \A j \in Ids : audits[j].status # "running" => audits'[j] = audits[j]
          /\ \A j \in Ids : j # t.id => audits'[j] = audits[j]
          /\ \A j \in Ids : audits[j].status = "running" =>
                audits'[j].snap = audits[j].snap /\ audits'[j].status \in {"running", t.write}
          /\ audits[t.id].status = "running" => audits'[t.id].status = t.write
      BY <1>7, <2>0, FinishAuditEffect
    <2>2. \A i \in Ids : audits[i].status \in Ended => audits'[i] = audits[i]
      BY <2>1 DEF Ended
    <2>3. \A i \in Ids : audits[i].status # "none" => audits'[i].status # "none"
      BY <2>0, <2>1 DEF Ended
    <2>4. TypeOK'
      BY <1>0, <1>7, <2>1 DEF TypeOK, Audit
    <2>5. OfThePin'
      BY <1>0, <1>7, <2>1 DEF OfThePin, NoAudit
    <2>6. CallIsAudited'
      <3>1. \A u \in late : u.kind = "sources" => audits'[u.id].status = "succeeded"
        BY <2>2 DEF CallIsAudited, Shape, Ended
      <3>2. loop.at = "finish" => Call \in Ids
        BY CallType DEF InCall
      <3> QED BY <1>0, <1>1, <1>2, <2>3, <3>1, <3>2 DEF CallIsAudited
    <2>7. ExecutedWillEnd'
      <3>1. \A i \in executed : i \in Ids /\ audits[i].status # "none"
        BY DEF ExecutedWillEnd, TypeOK
      <3>2. audits[t.id].status # "none" => audits'[t.id].status \in Ended
        <4>1. audits[t.id] \in Audit
          BY <1>3, <2>0
        <4> QED BY <2>0, <2>1, <4>1 DEF Audit
      <3>3. \A u \in late : u.kind = "finish" /\ u.id # t.id => u \in late'
        BY <1>0
      <3>4. ASSUME clean, NEW i \in executed
            PROVE  \/ audits'[i].status \in Ended
                   \/ loop.at \in {"tool", "finish"} /\ Call = i
                   \/ \E u \in late' : u.kind = "finish" /\ u.id = i /\ u.write \in Ended
        <4>1. CASE i = t.id
          BY <3>1, <3>2, <4>1
        <4>2. CASE i # t.id
          BY <2>2, <3>1, <3>3, <3>4, <4>2 DEF ExecutedWillEnd
        <4> QED BY <4>1, <4>2
      <3> QED BY <1>0, <1>2, <2>3, <3>1, <3>4 DEF ExecutedWillEnd
    <2>8. ToldIsRecorded' /\ SourcesAreOfSuccesses'
      BY <1>0, <1>7, <2>2 DEF ToldIsRecorded, SourcesAreOfSuccesses, TypeOK, Ended
    <2> QED BY <1>2, <2>4, <2>5, <2>6, <2>7, <2>8
  <1>8. ASSUME t.kind = "sources", SaveSources([id |-> t.id, snap |-> t.snap]),
               UNCHANGED <<pin, audits>>
        PROVE  IInv'
    <2>0. t.id \in Ids /\ pin # None /\ t.snap = pin /\ pin \in Snapshots
          /\ audits[t.id].status = "succeeded"
      BY <1>0, <1>8 DEF TypeOK
    <2>1. sources' = sources \union {[id |-> t.id, snap |-> pin]}
      BY <1>8, <2>0 DEF SaveSources
    <2>2. sources \subseteq sources'
          /\ \A s \in sources' : s \in sources \/ (s.id = t.id /\ s.snap = pin)
      BY <2>1
    <2>3. TypeOK'
      BY <1>0, <1>8, <2>0, <2>1 DEF TypeOK
    <2>4. OfThePin'
      BY <1>0, <1>8, <2>2 DEF OfThePin
    <2>5. CallIsAudited' /\ SourcesAreOfSuccesses'
      BY <1>0, <1>2, <1>8, <2>0, <2>2 DEF CallIsAudited, SourcesAreOfSuccesses
    <2>6. ExecutedWillEnd'
      <3>1. \A u \in late : u.kind = "finish" => u \in late'
        BY <1>0, <1>8
      <3> QED BY <1>0, <1>2, <1>8, <3>1 DEF ExecutedWillEnd
    <2>7. ToldIsRecorded'
      BY <1>0, <1>8, <2>2 DEF ToldIsRecorded
    <2> QED BY <1>2, <2>3, <2>4, <2>5, <2>6, <2>7
  <1> QED BY <1>4, <1>5, <1>6, <1>7, <1>8 DEF LateCommits

LEMMA OffEffect ==
  ASSUME loop' = Off
  PROVE  /\ loop' \in Execution
         /\ loop'.at = "off" /\ loop'.guarded = FALSE /\ loop'.verdict = None
  BY OffType DEF Off

LEMMA MarkCancelledKeeps == IInv /\ MarkCancelled => IInv'
  <1> SUFFICES ASSUME IInv, MarkCancelled PROVE IInv'
    OBVIOUS
  <1> USE DEF IInv
  <1>0. /\ run' = "cancelled" /\ run = "cancelling"
        /\ UNCHANGED <<pin, current, audits, sources, loop, told, late, executed, clean, spent>>
    BY DEF MarkCancelled
  <1>1. TypeOK'
    BY <1>0 DEF TypeOK, Verdicts
  <1>2. Shape' /\ Call' = Call
    BY <1>0 DEF Shape, Call
  <1>3. OfThePin' /\ CallIsAudited' /\ ExecutedWillEnd'
    BY <1>0, <1>2 DEF OfThePin, CallIsAudited, ExecutedWillEnd
  <1>4. ToldIsRecorded' /\ SourcesAreOfSuccesses'
    BY <1>0 DEF ToldIsRecorded, SourcesAreOfSuccesses
  <1> QED BY <1>1, <1>2, <1>3, <1>4

LEMMA ExecutionEndsKeeps == IInv /\ ExecutionEnds => IInv'
  <1> SUFFICES ASSUME IInv, ExecutionEnds PROVE IInv'
    OBVIOUS
  <1> USE DEF IInv
  <1>0. /\ loop.at = "end" /\ loop' = Off
        /\ UNCHANGED <<pin, current, audits, sources, told, late, executed, clean, spent>>
    BY DEF ExecutionEnds, At
  <1>1. run # "queued" /\ loop.verdict \in Verdicts
    BY <1>0, Types DEF Shape, Execution
  <1>2. run' \in Active \union Verdicts /\ run' # "queued"
    BY <1>1 DEF ExecutionEnds, TypeOK, Verdicts
  <1>3. TypeOK'
    BY <1>0, <1>2, OffEffect DEF TypeOK, Execution, Places
  <1>4. Shape'
    BY <1>0, <1>2, OffEffect DEF Shape, InCall
  <1>5. OfThePin' /\ CallIsAudited' /\ ExecutedWillEnd'
    BY <1>0, OffEffect DEF OfThePin, CallIsAudited, ExecutedWillEnd, Pinned, InCall
  <1>6. ToldIsRecorded' /\ SourcesAreOfSuccesses'
    BY <1>0 DEF ToldIsRecorded, SourcesAreOfSuccesses
  <1> QED BY <1>3, <1>4, <1>5, <1>6

LEMMA CrashKeeps == IInv /\ CrashAndRestart => IInv'
  <1> SUFFICES ASSUME IInv, CrashAndRestart PROVE IInv'
    OBVIOUS
  <1> USE DEF IInv
  <1>0. /\ run' = "queued" /\ loop' = Off /\ late' = {} /\ clean' = FALSE
        /\ spent' \in [Budgets -> Nat]
        /\ UNCHANGED <<pin, current, audits, sources, told, executed>>
    BY SpendEffect DEF CrashAndRestart, Budgets
  <1>1. TypeOK'
    BY <1>0, OffEffect DEF TypeOK, Execution, Places, Active, Budgets
  <1>2. Shape'
    BY <1>0, OffEffect DEF Shape, InCall
  <1>3. OfThePin' /\ CallIsAudited' /\ ExecutedWillEnd'
    BY <1>0, OffEffect DEF OfThePin, CallIsAudited, ExecutedWillEnd, Pinned, InCall
  <1>4. ToldIsRecorded' /\ SourcesAreOfSuccesses'
    BY <1>0 DEF ToldIsRecorded, SourcesAreOfSuccesses
  <1> QED BY <1>1, <1>2, <1>3, <1>4

LEMMA MoveCurrentKeeps ==
  ASSUME IInv, NEW s \in Snapshots, MoveCurrent(s)
  PROVE  IInv'
  <1> USE DEF IInv
  <1>0. /\ current' = s /\ spent' \in [Budgets -> Nat]
        /\ UNCHANGED <<run, pin, audits, sources, loop, told, late, executed, clean>>
    BY SpendEffect DEF MoveCurrent, Budgets
  <1>1. TypeOK'
    BY <1>0 DEF TypeOK, Budgets
  <1>2. Shape' /\ Call' = Call
    BY <1>0 DEF Shape, Call
  <1>3. OfThePin' /\ CallIsAudited' /\ ExecutedWillEnd'
    BY <1>0, <1>2 DEF OfThePin, CallIsAudited, ExecutedWillEnd
  <1>4. ToldIsRecorded' /\ SourcesAreOfSuccesses'
    BY <1>0 DEF ToldIsRecorded, SourcesAreOfSuccesses
  <1> QED BY <1>1, <1>2, <1>3, <1>4

LEMMA StutterKeeps == IInv /\ UNCHANGED vars => IInv'
  <1> SUFFICES ASSUME IInv, UNCHANGED vars PROVE IInv'
    OBVIOUS
  <1> USE DEF IInv, vars
  <1>1. TypeOK' /\ Shape' /\ Call' = Call
    BY DEF TypeOK, Shape, Call
  <1>2. OfThePin' /\ CallIsAudited' /\ ExecutedWillEnd'
    BY <1>1 DEF OfThePin, CallIsAudited, ExecutedWillEnd
  <1>3. ToldIsRecorded' /\ SourcesAreOfSuccesses'
    BY DEF ToldIsRecorded, SourcesAreOfSuccesses
  <1> QED BY <1>1, <1>2, <1>3

LEMMA StepKeeps == IInv /\ [Next]_vars => IInv'
  <1> SUFFICES ASSUME IInv, [Next]_vars PROVE IInv'
    OBVIOUS
  <1>1. CASE Begin \/ ResolveSnapshot \/ ModelAnswers \/ ModelFails
             \/ \E calls \in Lists : ModelCalls(calls)
    BY <1>1, BeginKeeps, ResolveSnapshotKeeps, ModelKeeps
  <1>2. CASE (\E accepted \in BOOLEAN : AuditCreated(accepted)) \/ AuditRefused
    BY <1>2, AuditCreatedKeeps, AuditRefusedKeeps
  <1>3. CASE ToolOutcome \/ AuditFinished \/ SourcesSaved
    BY <1>3, ToolReturnsKeeps, AuditFinishedKeeps, SourcesSavedKeeps DEF ToolOutcome, Ended
  <1>4. CASE TransactionRaises
             \/ \E why \in {"cancel", "newer", "timeout"}, kept \in BOOLEAN : Interrupt(why, kept)
    BY <1>4, TransactionRaisesKeeps, InterruptKeeps
  <1>5. CASE (\E t \in late : LateCommits(t)) \/ MarkCancelled \/ ExecutionEnds
    BY <1>5, LateCommitsKeeps, MarkCancelledKeeps, ExecutionEndsKeeps
  <1>6. CASE CrashAndRestart \/ \E s \in Snapshots : MoveCurrent(s)
    BY <1>6, CrashKeeps, MoveCurrentKeeps
  <1>7. CASE UNCHANGED vars
    BY <1>7, StutterKeeps
  <1> QED BY <1>1, <1>2, <1>3, <1>4, <1>5, <1>6, <1>7 DEF Next

THEOREM Invariance == Spec => []IInv
  BY InitHolds, StepKeeps, PTL DEF Spec
-----------------------------------------------------------------------------
(* What follows.                                                           *)

(* The rows and the execution always have the types of the schema.         *)
THEOREM TypeCorrect == Spec => []TypeOK
  BY Invariance, PTL DEF IInv

(* What the model is told of a call is what the rows of the call say, after*)
(* any sequence of failed writes, cancellations and crashes.               *)
THEOREM TheModelIsToldWhatIsRecorded == Spec => []ToldIsRecorded
  BY Invariance, PTL DEF IInv

(* No source is saved for a call that did not succeed, not even by a thread*)
(* that commits after the run has been cancelled.                          *)
THEOREM SourcesBelongToSuccesses == Spec => []SourcesAreOfSuccesses
  BY Invariance, PTL DEF IInv

(* A run reads one snapshot of the data, however often the current one is  *)
(* moved and the run executed again.                                       *)
THEOREM RunsReadOneSnapshot == Spec => []OneSnapshot
  <1>1. IInv => OneSnapshot
    BY DEF IInv, OfThePin, OneSnapshot
  <1> QED BY <1>1, Invariance, PTL

(* Without a crash, an error or a transaction that was never begun, no tool*)
(* call stays running: the cancellation handler or the thread it left      *)
(* behind ends it.                                                         *)
THEOREM CallsAreEnded == Spec => []ExecutedCallsEnd
  <1>1. IInv => ExecutedCallsEnd
    BY DEF IInv, ExecutedWillEnd, ExecutedCallsEnd, At
  <1> QED BY <1>1, Invariance, PTL

(* No later transaction of any execution changes the row of an ended call. *)
THEOREM EndedCallsAreFinal == Spec => EndedStaysEnded
  <1> DEFINE Kept == \A i \in Ids : audits[i].status \in Ended => audits'[i] = audits[i]
  <1>1. IInv /\ [Next]_vars => [Kept]_vars
    <2> SUFFICES ASSUME IInv, Next PROVE Kept
      OBVIOUS
    <2> USE DEF IInv
    <2>1. ASSUME NEW i \in Ids, NEW status \in Ended, FinishAudit(i, status) PROVE Kept
      BY <2>1, FinishAuditEffect DEF Ended
    <2>2. ASSUME NEW i \in Ids, NEW s \in Snapshots \union {None}, CreateAudit(i, s) PROVE Kept
      BY <2>2, CreateAuditEffect DEF Ended
    <2>3. CASE \E accepted \in BOOLEAN : AuditCreated(accepted)
      <3>1. CreateAudit(Call, loop.snap) /\ loop.at = "audit"
        BY <2>3 DEF AuditCreated, At
      <3>2. Call \in Ids /\ loop.snap \in Snapshots \union {None}
        BY <3>1, CallType, Types DEF InCall, Execution
      <3> QED BY <2>2, <3>1, <3>2
    <2>4. CASE AuditFinished
      <3>1. FinishAudit(Call, loop.write) /\ loop.at = "finish"
        BY <2>4 DEF AuditFinished, At
      <3>2. Call \in Ids /\ loop.write \in Ended
        BY <3>1, CallType DEF InCall, Shape
      <3> QED BY <2>1, <3>1, <3>2
    <2>5. ASSUME NEW t \in late, LateCommits(t) PROVE Kept
      <3>1. /\ t \in Thread /\ (t.kind # "pin" => t.id \in Ids)
            /\ t.kind = "finish" => t.write \in Ended
        BY Types DEF Shape
      <3>2. CASE UNCHANGED audits
        BY <3>2
      <3>3. CASE t.kind = "audit" /\ CreateAudit(t.id, t.snap)
        BY <2>2, <3>1, <3>3 DEF Thread
      <3>4. CASE t.kind = "finish" /\ FinishAudit(t.id, t.write)
        BY <2>1, <3>1, <3>4
      <3> QED BY <2>5, <3>2, <3>3, <3>4 DEF LateCommits
    <2>6. CASE UNCHANGED audits
      BY <2>6
    <2> QED BY <2>3, <2>4, <2>5, <2>6
            DEF Next, Begin, ResolveSnapshot, ModelAnswers, ModelCalls, ModelFails, AuditRefused,
                ToolOutcome, ToolReturns, SourcesSaved, TransactionRaises, Interrupt,
                MarkCancelled, ExecutionEnds, CrashAndRestart, MoveCurrent
  <1> QED BY <1>1, Invariance, PTL DEF Spec, EndedStaysEnded
=============================================================================
