------------------------- MODULE AnswerStreamProofs -------------------------
(* Theorems about AnswerStream, for any texts, limit and number of turns,  *)
(* and every bound on cancellations, newer messages, crashes and faults.   *)
EXTENDS AnswerStream, SequenceTheorems, TLAPS

(* What execute() has generated is what it has sent, and while a save is   *)
(* awaited what it is about to send.  Until it is interrupted nothing but  *)
(* the awaited transaction is in a thread, and nothing else moves the run. *)
Shape ==
    /\ exec.pc = "idle" => exec = Idle /\ \A j \in jobs : j.kind = "cancel_queued"
    /\ exec.pc \in TimedPCs => run = "running"
    /\ exec.pc \in {"ask", "tools"} => jobs = {} /\ exec.text = sent
    /\ exec.pc = "tools" => exec.turn < MaxTurns
    /\ exec.pc = "saving" =>
          /\ jobs \subseteq {Job("save", exec.text, Unknown)}
          /\ exec.text = sent \o exec.delta
          /\ jobs = {} => out = exec.text
    /\ exec.pc = "completing" =>
          /\ jobs \subseteq {Job("complete", exec.text, exec.counted)}
          /\ run = IF jobs = {} THEN "completed" ELSE "running"
    /\ exec.pc # "idle" => IsPrefix(sent, exec.text)
    /\ ~up => exec.pc = "idle" /\ jobs = {}

(* Whatever a thread still writes is all the text of the execution, and an *)
(* answer it inserts is the text that was sent.                            *)
WhatThreadsWrite ==
    /\ jobs # {} => run # "queued"
    /\ \A j \in jobs :
          /\ j.kind \in {"save", "complete", "cancelled", "failed"} => j.text = exec.text
          /\ j.kind = "complete" => /\ j.usage = exec.counted /\ exec.text = sent
                                    /\ run # "completed"

(* The usage counted is the usage reported, and is stored when a run ends. *)
UsageIsCounted ==
    /\ exec.counted = IF exec.reported = 0 THEN Unknown ELSE exec.reported
    /\ run \notin Terminal => tokens = Unknown

IInv ==
    /\ TypeOK /\ Shape /\ WhatThreadsWrite /\ UsageIsCounted
    /\ SentIsStored /\ CompletedIsWhole
-----------------------------------------------------------------------------
(* Prefixes.                                                               *)

LEMMA PrefixSelf ==
  ASSUME NEW s \in AllTexts
  PROVE  IsPrefix(s, s)
  <1>1. Len(s) \in Nat
    BY LenProperties DEF AllTexts
  <1> QED BY <1>1 DEF IsPrefix

LEMMA PrefixEmpty ==
  ASSUME NEW s \in AllTexts
  PROVE  <<>> \in AllTexts /\ IsPrefix(<<>>, s)
  <1>1. Len(<<>>) = 0 /\ <<>> \in Seq(Chunks) /\ Len(s) \in Nat
    BY EmptySeq, LenProperties DEF AllTexts
  <1>2. SubSeq(<<>>, 1, 0) = <<>> /\ SubSeq(s, 1, 0) = <<>>
    BY SubSeqEmpty
  <1> QED BY <1>1, <1>2 DEF IsPrefix, AllTexts

LEMMA PrefixConcat ==
  ASSUME NEW s \in AllTexts, NEW t \in AllTexts
  PROVE  s \o t \in AllTexts /\ IsPrefix(s, s \o t)
  <1>1. /\ s \o t \in Seq(Chunks) /\ Len(s) \in Nat /\ Len(t) \in Nat
        /\ Len(s \o t) = Len(s) + Len(t)
        /\ \A i \in 1..Len(s) : (s \o t)[i] = s[i] /\ s[i] \in Chunks
    BY ConcatProperties, LenProperties, ElementOfSeq DEF AllTexts
  <1>2. /\ SubSeq(s, 1, Len(s)) \in Seq(Chunks)
        /\ Len(SubSeq(s, 1, Len(s))) = Len(s)
        /\ \A i \in 1..Len(s) : SubSeq(s, 1, Len(s))[i] = s[i]
    BY <1>1, SubSeqProperties DEF AllTexts
  <1>3. /\ SubSeq(s \o t, 1, Len(s)) \in Seq(Chunks)
        /\ Len(SubSeq(s \o t, 1, Len(s))) = Len(s)
        /\ \A i \in 1..Len(s) : SubSeq(s \o t, 1, Len(s))[i] = (s \o t)[i]
    BY <1>1, SubSeqProperties
  <1>4. SubSeq(s, 1, Len(s)) = SubSeq(s \o t, 1, Len(s))
    BY <1>1, <1>2, <1>3, SeqEqual
  <1> QED BY <1>1, <1>4 DEF IsPrefix, AllTexts
-----------------------------------------------------------------------------
(* Types, as records.                                                      *)

Execution == [pc : LivePCs \union {"idle", "done"}, text : AllTexts, counted : -1..MaxUsage,
              usage : -1..MaxUsage, delta : AllTexts, calls : BOOLEAN,
              turn : 0..MaxTurns, reported : 0..MaxUsage]
Transaction == [kind : Kinds, text : AllTexts, usage : -1..MaxUsage]
Budgets == {"cancels", "newer", "crashes", "faults"}

LEMMA Types == TypeOK => exec \in Execution /\ jobs \subseteq Transaction
  BY DEF TypeOK, Execution, Transaction

LEMMA TypesPrimed ==
  ASSUME exec' \in Execution, jobs' \subseteq Transaction, run' \in Active \union Terminal,
         tools' \in BOOLEAN, up' \in BOOLEAN, out' \in AllTexts, sent' \in AllTexts,
         tokens' \in -1..MaxUsage, answers' \in Seq(AllTexts \union {Blank}),
         spent' \in [Budgets -> Nat]
  PROVE  TypeOK'
  BY DEF TypeOK, Execution, Transaction, Budgets

LEMMA FreshType == Fresh \in Execution /\ Idle \in Execution
  <1>1. <<>> \in AllTexts
    BY EmptySeq DEF AllTexts
  <1>2. 0 \in 0..MaxUsage /\ 0 \in 0..MaxTurns /\ Unknown \in -1..MaxUsage
    BY AnswerAssumption DEF Unknown
  <1> QED BY <1>1, <1>2 DEF Fresh, Idle, Execution, LivePCs, TimedPCs

LEMMA JobType ==
  ASSUME NEW kind \in Kinds, NEW text \in AllTexts, NEW usage \in -1..MaxUsage
  PROVE  /\ Job(kind, text, usage) \in Transaction
         /\ Job(kind, text, usage).kind = kind /\ Job(kind, text, usage).text = text
         /\ Job(kind, text, usage).usage = usage
  BY DEF Job, Transaction

LEMMA UnknownType == Unknown \in -1..MaxUsage
  BY AnswerAssumption DEF Unknown

LEMMA MoveType ==
  ASSUME NEW state \in Execution, NEW pc \in LivePCs \union {"idle", "done"}
  PROVE  LET next == [state EXCEPT !.pc = pc] IN
         /\ next \in Execution /\ next.pc = pc /\ next.text = state.text
         /\ next.counted = state.counted /\ next.usage = state.usage
         /\ next.delta = state.delta /\ next.calls = state.calls
         /\ next.turn = state.turn /\ next.reported = state.reported
  BY DEF Execution

LEMMA InitHolds == Init => IInv
  <1> SUFFICES ASSUME Init PROVE IInv
    OBVIOUS
  <1>1. /\ run = "queued" /\ out = <<>> /\ tokens = Unknown /\ answers = <<>> /\ up = TRUE
        /\ exec = Idle /\ jobs = {} /\ sent = <<>> /\ <<>> \in AllTexts /\ tools \in BOOLEAN
    BY EmptySeq DEF Init, AllTexts
  <1>2. TypeOK
    <2>1. spent \in [Budgets -> Nat] /\ answers \in Seq(AllTexts \union {Blank})
      BY <1>1, EmptySeq DEF Init, Budgets
    <2> QED BY <1>1, <2>1, FreshType, UnknownType
            DEF TypeOK, Active, Terminal, Execution, Budgets
  <1>3. /\ Idle.pc = "idle" /\ Idle.reported = 0 /\ Idle.counted = Unknown
    BY DEF Idle, Fresh
  <1>4. Shape /\ WhatThreadsWrite /\ UsageIsCounted
    BY <1>1, <1>3 DEF Shape, WhatThreadsWrite, UsageIsCounted, TimedPCs
  <1>5. SentIsStored /\ CompletedIsWhole
    BY <1>1, PrefixEmpty DEF SentIsStored, CompletedIsWhole
  <1> QED BY <1>2, <1>4, <1>5 DEF IInv
-----------------------------------------------------------------------------
(* execute() goes on with the state it has reached, while the run is       *)
(* running and no transaction is in a thread.                              *)
Proceeds(state) ==
    /\ up /\ jobs = {} /\ run = "running"
    /\ state \in Execution
    /\ state.counted = IF state.reported = 0 THEN Unknown ELSE state.reported
    /\ sent' \in AllTexts /\ IsPrefix(sent', out)
    /\ UNCHANGED <<tools, row, answers, up, spent>>

LEMMA ProceedsTypes ==
  ASSUME IInv, NEW state, Proceeds(state), exec' \in Execution, jobs' \subseteq Transaction,
         exec'.counted = state.counted, exec'.reported = state.reported
  PROVE  TypeOK' /\ UsageIsCounted' /\ SentIsStored' /\ CompletedIsWhole'
  <1> USE DEF IInv
  <1>1. UNCHANGED <<tools, run, out, tokens, answers, up, spent>> /\ run = "running"
    BY DEF Proceeds, row
  <1>2. TypeOK'
    BY <1>1, TypesPrimed DEF TypeOK, Proceeds, Budgets
  <1>3. UsageIsCounted'
    BY <1>1 DEF UsageIsCounted, Proceeds
  <1>4. SentIsStored' /\ CompletedIsWhole'
    BY <1>1 DEF SentIsStored, CompletedIsWhole, Proceeds
  <1> QED BY <1>2, <1>3, <1>4

LEMMA SaveKeeps ==
  ASSUME IInv, NEW state, Proceeds(state), sent' = sent,
         state.text = sent \o state.delta, Save(state)
  PROVE  IInv'
  <1> USE DEF IInv
  <1>1. LET job == Job("save", state.text, Unknown) IN
        /\ job \in Transaction /\ jobs' = {job}
        /\ job.kind = "save" /\ job.text = state.text
    <2>1. state.text \in AllTexts /\ jobs' = {Job("save", state.text, Unknown)}
      BY DEF Proceeds, Execution, Save, Await
    <2>2. "save" \in Kinds /\ Unknown \in -1..MaxUsage
      BY UnknownType DEF Kinds
    <2> QED BY <2>1, <2>2 DEF Job, Transaction
  <1>2. /\ exec' \in Execution /\ exec'.pc = "saving" /\ exec'.text = state.text
        /\ exec'.delta = state.delta /\ exec'.counted = state.counted
        /\ exec'.reported = state.reported
    BY MoveType DEF Proceeds, Save, Await, LivePCs, TimedPCs
  <1>3. TypeOK' /\ UsageIsCounted' /\ SentIsStored' /\ CompletedIsWhole'
    BY <1>1, <1>2, ProceedsTypes
  <1>4. IsPrefix(sent, exec'.text)
    BY <1>2, PrefixConcat DEF Proceeds, Execution
  <1>5. run' = "running" /\ up'
    BY DEF Proceeds, row
  <1>6. Shape'
    BY <1>1, <1>2, <1>4, <1>5 DEF Shape, TimedPCs
  <1>7. WhatThreadsWrite'
    BY <1>1, <1>2, <1>5 DEF WhatThreadsWrite
  <1> QED BY <1>3, <1>6, <1>7

LEMMA FailWithKeeps ==
  ASSUME IInv, NEW state, Proceeds(state), IsPrefix(sent', state.text), FailWith(state)
  PROVE  IInv'
  <1> USE DEF IInv
  <1>1. LET job == Job("failed", state.text, state.usage) IN
        /\ job \in Transaction /\ jobs' = {job}
        /\ job.kind = "failed" /\ job.text = state.text
    BY JobType DEF Proceeds, Execution, Kinds, FailWith, Await
  <1>2. /\ exec' \in Execution /\ exec'.pc = "failing" /\ exec'.text = state.text
        /\ exec'.counted = state.counted /\ exec'.reported = state.reported
    BY MoveType DEF Proceeds, FailWith, Await, LivePCs
  <1>3. TypeOK' /\ UsageIsCounted' /\ SentIsStored' /\ CompletedIsWhole'
    BY <1>1, <1>2, ProceedsTypes
  <1>4. run' = "running" /\ up'
    BY DEF Proceeds, row
  <1>5. Shape'
    BY <1>1, <1>2, <1>4 DEF Shape, TimedPCs
  <1>6. WhatThreadsWrite'
    BY <1>1, <1>2, <1>4 DEF WhatThreadsWrite
  <1> QED BY <1>3, <1>5, <1>6

LEMMA CompleteKeeps ==
  ASSUME IInv, NEW state, Proceeds(state), state.text = sent', Complete(state)
  PROVE  IInv'
  <1> USE DEF IInv
  <1> DEFINE done == [state EXCEPT !.usage = state.counted]
  <1>0. /\ done \in Execution /\ done.text = state.text /\ done.usage = state.counted
        /\ done.counted = state.counted /\ done.reported = state.reported
    BY DEF Proceeds, Execution
  <1>1. exec' = [done EXCEPT !.pc = "completing"]
        /\ jobs' = {Job("complete", done.text, done.usage)}
    BY DEF Complete, Await, Proceeds
  <1> HIDE DEF done
  <1>2. LET job == Job("complete", state.text, state.counted) IN
        /\ job \in Transaction /\ jobs' = {job}
        /\ job.kind = "complete" /\ job.text = state.text /\ job.usage = state.counted
    <2>1. state.text \in AllTexts /\ state.counted \in -1..MaxUsage
      BY DEF Proceeds, Execution
    <2> QED BY <1>0, <1>1, <2>1, JobType DEF Kinds
  <1>3. /\ exec' \in Execution /\ exec'.pc = "completing" /\ exec'.text = state.text
        /\ exec'.counted = state.counted /\ exec'.reported = state.reported
    BY <1>0, <1>1, MoveType DEF LivePCs
  <1>4. TypeOK' /\ UsageIsCounted' /\ SentIsStored' /\ CompletedIsWhole'
    BY <1>2, <1>3, ProceedsTypes
  <1>5. run' = "running" /\ up' /\ IsPrefix(sent', sent')
    BY PrefixSelf DEF Proceeds, row
  <1>6. Shape'
    BY <1>2, <1>3, <1>5 DEF Shape, TimedPCs
  <1>7. WhatThreadsWrite'
    BY <1>2, <1>3, <1>5 DEF WhatThreadsWrite
  <1> QED BY <1>4, <1>6, <1>7

(* The next request, or the tools of the turn.                             *)
LEMMA GoOnKeeps ==
  ASSUME IInv, NEW state, Proceeds(state), state.text = sent', NEW pc \in {"ask", "tools"},
         pc = "tools" => state.turn < MaxTurns, exec' = [state EXCEPT !.pc = pc], jobs' = jobs
  PROVE  IInv'
  <1> USE DEF IInv
  <1>1. /\ exec' \in Execution /\ exec'.pc = pc /\ exec'.text = state.text
        /\ exec'.turn = state.turn
        /\ exec'.counted = state.counted /\ exec'.reported = state.reported
    BY MoveType DEF Proceeds, LivePCs, TimedPCs
  <1>2. jobs' = {}
    BY DEF Proceeds
  <1>3. TypeOK' /\ UsageIsCounted' /\ SentIsStored' /\ CompletedIsWhole'
    BY <1>1, <1>2, ProceedsTypes
  <1>4. run' = "running" /\ up' /\ IsPrefix(sent', sent')
    BY PrefixSelf DEF Proceeds, row
  <1>5. Shape'
    BY <1>1, <1>2, <1>4 DEF Shape, TimedPCs
  <1>6. WhatThreadsWrite'
    BY <1>2 DEF WhatThreadsWrite
  <1> QED BY <1>3, <1>5, <1>6

LEMMA EndTurnKeeps ==
  ASSUME IInv, NEW state, Proceeds(state), state.text = sent', EndTurn(state)
  PROVE  IInv'
  <1>1. CASE ~state.calls
    BY <1>1, CompleteKeeps DEF EndTurn
  <1>2. CASE state.calls /\ state.turn >= MaxTurns
    <2>1. IsPrefix(sent', state.text)
      BY PrefixSelf DEF Proceeds
    <2> QED BY <1>2, <2>1, FailWithKeeps DEF EndTurn
  <1>3. CASE state.calls /\ ~(state.turn >= MaxTurns)
    <2>1. state.turn < MaxTurns
      BY <1>3, AnswerAssumption DEF Proceeds, Execution
    <2> QED BY <1>3, <2>1, GoOnKeeps DEF EndTurn
  <1> QED BY <1>1, <1>2, <1>3
-----------------------------------------------------------------------------
(* The provider.                                                           *)

LEMMA TextsType == Texts \subseteq AllTexts
  <1>1. <<>> \in Seq(Chunks) /\ \A c \in Chunks : <<c>> \in Seq(Chunks)
    BY EmptySeq
  <1> QED BY <1>1 DEF Texts, AllTexts

LEMMA CountedEffect ==
  ASSUME TypeOK, UsageIsCounted, NEW usage \in Usages
  PROVE  /\ Counted(usage) \in Execution
         /\ Counted(usage).counted = IF Counted(usage).reported = 0 THEN Unknown
                                      ELSE Counted(usage).reported
         /\ Counted(usage).pc = exec.pc /\ Counted(usage).text = exec.text
         /\ Counted(usage).turn = exec.turn
  <1>1. exec \in Execution /\ MaxUsage \in Nat
    BY Types, AnswerAssumption
  <1>2. /\ exec.counted \in -1..MaxUsage /\ exec.reported \in 0..MaxUsage
        /\ exec.counted = IF exec.reported = 0 THEN -1 ELSE exec.reported
    BY <1>1 DEF Execution, UsageIsCounted, Unknown
  <1>3. usage = -1 \/ (usage = 1 /\ exec.reported < MaxUsage)
    BY DEF Usages, Unknown
  <1> DEFINE counted == Add(exec.counted, usage)
             reported == IF usage = Unknown THEN exec.reported ELSE exec.reported + usage
  <1>4. /\ counted \in -1..MaxUsage /\ reported \in 0..MaxUsage
        /\ counted = IF reported = 0 THEN Unknown ELSE reported
    BY <1>1, <1>2, <1>3 DEF Add, Unknown
  <1>5. Counted(usage) = [exec EXCEPT !.counted = counted, !.reported = reported]
    BY DEF Counted
  <1> HIDE DEF counted, reported
  <1> QED BY <1>1, <1>4, <1>5 DEF Execution

(* What the provider has sent is added to the state.                       *)
LEMMA NextState ==
  ASSUME IInv, exec.pc = "ask", up, NEW usage \in Usages, NEW text \in Texts,
         UNCHANGED <<tools, row, answers, up, sent, spent>>,
         NEW next \in Execution, next.text = Counted(usage).text \o text, next.delta = text,
         next.counted = Counted(usage).counted, next.reported = Counted(usage).reported
  PROVE  /\ Proceeds(next) /\ next.text = sent \o next.delta /\ IsPrefix(sent', next.text)
         /\ sent' = sent
  <1> USE DEF IInv
  <1>1. /\ Counted(usage).counted = IF Counted(usage).reported = 0 THEN Unknown
                                     ELSE Counted(usage).reported
        /\ Counted(usage).text = sent
    BY CountedEffect DEF Shape
  <1>2. sent \in AllTexts /\ IsPrefix(sent, sent \o text)
    BY TextsType, PrefixConcat DEF TypeOK
  <1>3. jobs = {} /\ run = "running" /\ IsPrefix(sent, out)
    BY DEF Shape, SentIsStored, TimedPCs
  <1>4. Proceeds(next)
    BY <1>1, <1>2, <1>3 DEF Proceeds
  <1> QED BY <1>1, <1>2, <1>4

LEMMA NextType ==
  ASSUME IInv, exec.pc = "ask", NEW usage \in Usages, NEW text \in Texts, NEW calls \in BOOLEAN
  PROVE  LET whole == Counted(usage).text \o text
             delta == [Counted(usage) EXCEPT !.text = whole, !.delta = text]
             response == [Counted(usage) EXCEPT !.text = whole, !.delta = text, !.calls = calls]
         IN  \A next \in {delta, response} :
               /\ next \in Execution /\ next.text = whole /\ next.delta = text
               /\ next.counted = Counted(usage).counted
               /\ next.reported = Counted(usage).reported
  <1> DEFINE base == Counted(usage)
             whole == base.text \o text
  <1>1. base \in Execution /\ whole \in AllTexts /\ text \in AllTexts
    BY CountedEffect, TextsType, PrefixConcat DEF IInv, Shape, TypeOK
  <1> HIDE DEF base, whole
  <1>2. \A next \in {[base EXCEPT !.text = whole, !.delta = text],
                     [base EXCEPT !.text = whole, !.delta = text, !.calls = calls]} :
          /\ next \in Execution /\ next.text = whole /\ next.delta = text
          /\ next.counted = base.counted /\ next.reported = base.reported
    BY <1>1 DEF Execution
  <1> QED BY <1>2 DEF base, whole

LEMMA DeltaKeeps ==
  ASSUME IInv, NEW text \in Texts, NEW usage \in {Unknown, 1}, Delta(text, usage)
  PROVE  IInv'
  <1> DEFINE whole == Counted(usage).text \o text
             next == [Counted(usage) EXCEPT !.text = whole, !.delta = text]
  <1>1. /\ usage \in Usages /\ exec.pc = "ask" /\ up
        /\ UNCHANGED <<tools, row, answers, up, sent, spent>>
        /\ IF Len(next.text) > Limit THEN FailWith(next) ELSE Save(next)
    BY DEF Delta
  <1>2. /\ next \in Execution /\ next.text = whole /\ next.delta = text
        /\ next.counted = Counted(usage).counted /\ next.reported = Counted(usage).reported
    BY <1>1, NextType
  <1> HIDE DEF next
  <1>3. /\ Proceeds(next) /\ next.text = sent \o next.delta /\ IsPrefix(sent', next.text)
        /\ sent' = sent
    BY <1>1, <1>2, NextState
  <1> QED BY <1>1, <1>3, FailWithKeeps, SaveKeeps

LEMMA ResponseKeeps ==
  ASSUME IInv, NEW text \in Texts, NEW usage \in {Unknown, 1}, NEW calls \in BOOLEAN,
         Response(text, usage, calls)
  PROVE  IInv'
  <1> DEFINE whole == Counted(usage).text \o text
             next == [Counted(usage) EXCEPT !.text = whole, !.delta = text, !.calls = calls]
  <1>1. /\ usage \in Usages /\ exec.pc = "ask" /\ up
        /\ UNCHANGED <<tools, row, answers, up, sent, spent>>
        /\ IF text # <<>> THEN Save(next) ELSE EndTurn(next)
    BY DEF Response
  <1>2. /\ next \in Execution /\ next.text = whole /\ next.delta = text
        /\ next.counted = Counted(usage).counted /\ next.reported = Counted(usage).reported
    BY <1>1, NextType
  <1> HIDE DEF next
  <1>3. /\ Proceeds(next) /\ next.text = sent \o next.delta /\ sent' = sent
    BY <1>1, <1>2, NextState
  <1>4. CASE text # <<>>
    BY <1>1, <1>3, <1>4, SaveKeeps
  <1>5. CASE text = <<>>
    <2>1. next.text = sent'
      BY <1>2, <1>3, <1>5, ConcatEmptySeq DEF IInv, TypeOK, AllTexts
    <2> QED BY <1>1, <1>3, <1>5, <2>1, EndTurnKeeps
  <1> QED BY <1>4, <1>5

(* The state as it is.                                                     *)
LEMMA SameState ==
  ASSUME IInv, up, exec.pc \in {"ask", "tools"}, sent' = sent,
         UNCHANGED <<tools, row, answers, up, spent>>
  PROVE  Proceeds(exec) /\ exec.text = sent' /\ IsPrefix(sent', exec.text)
  <1> USE DEF IInv
  <1>1. /\ exec \in Execution /\ jobs = {} /\ run = "running" /\ exec.text = sent
        /\ sent \in AllTexts /\ IsPrefix(sent, out)
    BY Types DEF Shape, SentIsStored, TimedPCs, TypeOK
  <1> QED BY <1>1, PrefixSelf DEF Proceeds, UsageIsCounted

LEMMA StreamEndsKeeps == IInv /\ StreamEnds => IInv'
  BY SameState, CompleteKeeps DEF StreamEnds

LEMMA ProviderFailsKeeps == IInv /\ ProviderFails => IInv'
  BY SameState, FailWithKeeps DEF ProviderFails

LEMMA ToolsDoneKeeps == IInv /\ ToolsDone => IInv'
  <1> SUFFICES ASSUME IInv, ToolsDone PROVE IInv'
    OBVIOUS
  <1>1. /\ exec.pc = "tools" /\ up /\ UNCHANGED <<tools, row, answers, up, jobs, sent, spent>>
        /\ exec' = [exec EXCEPT !.pc = "ask", !.turn = @ + 1]
    BY DEF ToolsDone
  <1>2. Proceeds(exec) /\ exec.text = sent' /\ exec.turn < MaxTurns
    BY <1>1, SameState DEF IInv, Shape
  <1> DEFINE turn == exec.turn + 1
             state == [exec EXCEPT !.turn = turn]
  <1>3. turn \in 0..MaxTurns /\ exec \in Execution
    BY <1>2, AnswerAssumption DEF Proceeds, Execution
  <1> HIDE DEF turn
  <1>4. /\ state \in Execution /\ state.text = exec.text /\ state.counted = exec.counted
        /\ state.reported = exec.reported
        /\ exec' = [state EXCEPT !.pc = "ask"]
    BY <1>1, <1>3 DEF Execution, turn
  <1> HIDE DEF state
  <1>5. Proceeds(state)
    BY <1>2, <1>4 DEF Proceeds
  <1> QED BY <1>1, <1>2, <1>4, <1>5, GoOnKeeps

(* The save has committed, so what is sent now is stored.                  *)
LEMMA SaveReturnsKeeps == IInv /\ SaveReturns => IInv'
  <1> SUFFICES ASSUME IInv, SaveReturns PROVE IInv'
    OBVIOUS
  <1> USE DEF IInv
  <1>1. /\ exec.pc = "saving" /\ up /\ UNCHANGED <<tools, row, answers, up, spent>>
        /\ sent' = sent \o exec.delta /\ Awaited = {}
        /\ IF tools THEN EndTurn(exec)
                    ELSE exec' = [exec EXCEPT !.pc = "ask"] /\ UNCHANGED jobs
    BY DEF SaveReturns
  <1>2. /\ exec.text = sent' /\ jobs \subseteq {Job("save", exec.text, Unknown)}
        /\ run = "running" /\ exec \in Execution
    BY <1>1, Types DEF Shape, TimedPCs
  <1>3. jobs = {}
    <2>1. Live /\ AwaitedKind[exec.pc] = "save"
      BY <1>1 DEF Live, LivePCs, TimedPCs, AwaitedKind
    <2>2. Job("save", exec.text, Unknown).kind = "save"
      BY DEF Job
    <2> QED BY <1>1, <1>2, <2>1, <2>2 DEF Awaited
  <1>4. out = exec.text /\ exec.text \in AllTexts
    BY <1>1, <1>2, <1>3 DEF Shape, Execution
  <1>5. Proceeds(exec)
    BY <1>1, <1>2, <1>3, <1>4, PrefixSelf DEF Proceeds, UsageIsCounted
  <1> QED BY <1>1, <1>2, <1>5, EndTurnKeeps, GoOnKeeps

LEMMA StartKeeps == IInv /\ Start => IInv'
  <1> SUFFICES ASSUME IInv, Start PROVE IInv'
    OBVIOUS
  <1> USE DEF IInv
  <1>1. /\ up /\ up' = up /\ run = "queued" /\ run' = "running" /\ exec' = Fresh /\ sent' = <<>>
        /\ UNCHANGED <<tools, out, tokens, answers, jobs, spent>>
    BY DEF Start
  <1>2. jobs = {}
    BY <1>1 DEF WhatThreadsWrite
  <1>3. /\ Fresh \in Execution /\ Fresh.pc = "ask" /\ Fresh.text = <<>>
        /\ Fresh.reported = 0 /\ Fresh.counted = Unknown
    BY FreshType DEF Fresh
  <1>4. IsPrefix(<<>>, out) /\ <<>> \in AllTexts /\ IsPrefix(<<>>, <<>>)
    BY PrefixEmpty DEF TypeOK
  <1>5. TypeOK'
    BY <1>1, <1>2, <1>3, <1>4, TypesPrimed DEF TypeOK, Active, Budgets
  <1>6. Shape' /\ WhatThreadsWrite'
    BY <1>1, <1>2, <1>3, <1>4 DEF Shape, WhatThreadsWrite, TimedPCs
  <1>7. UsageIsCounted' /\ SentIsStored' /\ CompletedIsWhole'
    BY <1>1, <1>3, <1>4 DEF UsageIsCounted, SentIsStored, CompletedIsWhole, Terminal
  <1> QED BY <1>5, <1>6, <1>7
-----------------------------------------------------------------------------
(* Steps after which the answer is no longer being generated, and those of *)
(* others: the text, the usage and what is stored stay.                    *)

LEMMA AftermathKeeps ==
  ASSUME IInv, up, up', UNCHANGED <<tools, out, tokens, answers, sent>>,
         spent' \in [Budgets -> Nat],
         run' = run \/ (run \in Active /\ run' \in {"cancelling", "cancelled"}),
         exec' \in Execution, exec'.text = exec.text, exec'.counted = exec.counted,
         exec'.reported = exec.reported,
         \/ exec.pc # "idle" /\ exec'.pc \in {"cancelling", "failing", "done"}
         \/ /\ exec.pc = "idle" /\ exec' = exec
            /\ \A j \in jobs' : j.kind = "cancel_queued",
         jobs' \subseteq Transaction, jobs' # {} => run' # "queued",
         \A j \in jobs' : j \in jobs \/ (j.kind # "complete" /\ j.text = exec.text)
                             \/ j.kind \in {"mark_cancelled", "cancel_queued"}
  PROVE  IInv'
  <1> USE DEF IInv
  <1>1. run' \in Active \union Terminal /\ (run' = "completed" => run = "completed")
    BY DEF TypeOK, Active, Terminal
  <1>2. TypeOK'
    BY <1>1, TypesPrimed DEF TypeOK, Budgets
  <1>3. /\ exec.pc # "idle" <=> exec'.pc # "idle"
        /\ exec'.pc \notin TimedPCs \union {"completing"}
    BY DEF TimedPCs
  <1>4. Shape'
    BY <1>3 DEF Shape, TimedPCs
  <1>5. WhatThreadsWrite'
    <2>1. \A j \in jobs' : j.kind \in {"save", "complete", "cancelled", "failed"} =>
                              j.text = exec.text
      BY DEF WhatThreadsWrite
    <2>2. \A j \in jobs' : j.kind = "complete" =>
             j.usage = exec.counted /\ exec.text = sent /\ run # "completed"
      BY DEF WhatThreadsWrite
    <2> QED BY <1>1, <2>1, <2>2 DEF WhatThreadsWrite
  <1>6. UsageIsCounted'
    BY DEF UsageIsCounted, Active, Terminal
  <1>7. SentIsStored'
    BY DEF SentIsStored
  <1>8. CompletedIsWhole'
    <2>1. exec' # Idle => exec # Idle
      BY <1>3 DEF Idle, Fresh
    <2> QED BY <1>1, <2>1 DEF CompletedIsWhole
  <1> QED BY <1>2, <1>4, <1>5, <1>6, <1>7, <1>8

LEMMA FinishReturnsKeeps == IInv /\ FinishReturns => IInv'
  <1> SUFFICES ASSUME IInv, FinishReturns PROVE IInv'
    OBVIOUS
  <1> USE DEF IInv
  <1>1. /\ up /\ up' = up /\ exec.pc \in {"completing", "cancelling", "failing"}
        /\ exec' = [exec EXCEPT !.pc = "done"]
        /\ UNCHANGED <<tools, run, out, tokens, answers, jobs, sent, spent>>
    BY DEF FinishReturns, row
  <1>2. exec \in Execution /\ jobs \subseteq Transaction /\ spent \in [Budgets -> Nat]
    BY Types DEF TypeOK, Budgets
  <1>3. /\ exec' \in Execution /\ exec'.pc = "done" /\ exec'.text = exec.text
        /\ exec'.counted = exec.counted /\ exec'.reported = exec.reported
    BY <1>1, <1>2, MoveType
  <1>4. jobs # {} => run # "queued"
    BY DEF WhatThreadsWrite
  <1> QED BY <1>1, <1>2, <1>3, <1>4, AftermathKeeps

(* What is awaited is all there is until the execution is interrupted.     *)
LEMMA OthersComeLate ==
  ASSUME IInv, up, NEW j \in jobs, j \notin Awaited
  PROVE  exec.pc \in {"idle", "cancelling", "failing", "done"}
  <1> USE DEF IInv
  <1>1. exec.pc \in LivePCs \union {"idle", "done"}
    BY Types DEF Execution
  <1>2. exec.pc \notin {"ask", "tools"}
    BY DEF Shape
  <1>3. exec.pc # "saving"
    <2> SUFFICES ASSUME exec.pc = "saving" PROVE FALSE
      OBVIOUS
    <2>1. j.kind = "save" /\ Live /\ AwaitedKind[exec.pc] = "save"
      BY DEF Shape, Job, Live, LivePCs, TimedPCs, AwaitedKind
    <2> QED BY <2>1 DEF Awaited
  <1>4. exec.pc # "completing"
    <2> SUFFICES ASSUME exec.pc = "completing" PROVE FALSE
      OBVIOUS
    <2>1. j.kind = "complete" /\ Live /\ AwaitedKind[exec.pc] = "complete"
      BY DEF Shape, Job, Live, LivePCs, TimedPCs, AwaitedKind
    <2> QED BY <2>1 DEF Awaited
  <1> QED BY <1>1, <1>2, <1>3, <1>4 DEF LivePCs, TimedPCs

LEMMA RollsBackKeeps ==
  ASSUME IInv, NEW j, RollsBack(j), spent' \in [Budgets -> Nat]
  PROVE  IInv'
  <1> USE DEF IInv
  <1>1. /\ up /\ up' = up /\ j \in jobs
        /\ UNCHANGED <<tools, run, out, tokens, answers, sent>>
    BY DEF RollsBack, row
  <1>2. exec \in Execution /\ jobs \subseteq Transaction /\ run # "queued"
    BY <1>1, Types DEF WhatThreadsWrite
  <1>3. CASE j \notin Awaited
    <2>1. exec' = exec /\ jobs' = jobs \ {j}
      BY <1>3 DEF RollsBack
    <2>2. exec.pc \in {"idle", "cancelling", "failing", "done"}
      BY <1>1, <1>3, OthersComeLate
    <2>3. exec.pc = "idle" => \A k \in jobs' : k.kind = "cancel_queued"
      BY <2>1 DEF Shape
    <2> QED BY <1>1, <1>2, <2>1, <2>2, <2>3, AftermathKeeps
  <1>4. CASE j \in Awaited
    <2>1. exec.pc \in LivePCs /\ exec.pc # "idle"
      BY <1>4 DEF Awaited, Live, LivePCs, TimedPCs
    <2>2. PICK pc \in {"failing", "done"} : exec' = [exec EXCEPT !.pc = pc]
      BY <1>4 DEF RollsBack
    <2>3. jobs' \subseteq jobs \union {Job("failed", exec.text, exec.usage)}
      BY <1>4 DEF RollsBack
    <2>4. LET job == Job("failed", exec.text, exec.usage) IN
          job \in Transaction /\ job.kind = "failed" /\ job.text = exec.text
      BY <1>2, JobType DEF Execution, Kinds
    <2>5. /\ exec' \in Execution /\ exec'.pc = pc /\ exec'.text = exec.text
          /\ exec'.counted = exec.counted /\ exec'.reported = exec.reported
      BY <1>2, <2>2, MoveType DEF LivePCs
    <2>6. /\ jobs' \subseteq Transaction
          /\ \A k \in jobs' : k \in jobs \/ (k.kind # "complete" /\ k.text = exec.text)
      BY <1>2, <2>3, <2>4
    <2> QED BY <1>1, <1>2, <2>1, <2>5, <2>6, AftermathKeeps
  <1> QED BY <1>3, <1>4

LEMMA SpendType ==
  ASSUME TypeOK, NEW what \in Budgets, NEW bound, Spend(what, bound)
  PROVE  spent' \in [Budgets -> Nat]
  BY DEF TypeOK, Spend, Budgets

LEMMA ThreadRefusedKeeps == ASSUME IInv, NEW j, ThreadRefused(j) PROVE IInv'
  BY RollsBackKeeps DEF ThreadRefused, IInv, TypeOK, Budgets

LEMMA ThreadRaisesKeeps == ASSUME IInv, NEW j, ThreadRaises(j) PROVE IInv'
  BY RollsBackKeeps, SpendType DEF ThreadRaises, IInv, Budgets
-----------------------------------------------------------------------------
(* Interruptions.                                                          *)

LEMMA InterruptKeeps ==
  ASSUME IInv, up, up', exec.pc \in LivePCs, NEW kept \in BOOLEAN,
         NEW how \in {"cancelled", "failed"},
         NEW others, others \subseteq {Job("mark_cancelled", <<>>, Unknown)},
         Interrupt(kept, how, others), UNCHANGED <<tools, out, tokens, answers, sent>>,
         run' = run \/ (run \in Active /\ run' = "cancelling"),
         others # {} => run' # "queued", spent' \in [Budgets -> Nat]
  PROVE  IInv'
  <1> USE DEF IInv
  <1>1. exec \in Execution /\ jobs \subseteq Transaction
    BY Types
  <1>2. PICK pc \in {"cancelling", "failing", "done"} : exec' = [exec EXCEPT !.pc = pc]
    BY DEF Interrupt
  <1>3. /\ exec' \in Execution /\ exec'.pc = pc /\ exec'.text = exec.text
        /\ exec'.counted = exec.counted /\ exec'.reported = exec.reported
    BY <1>1, <1>2, MoveType DEF LivePCs
  <1>4. LET job == Job(how, exec.text, exec.usage) IN
        job \in Transaction /\ job.kind # "complete" /\ job.text = exec.text
    BY <1>1, JobType DEF Execution, Kinds
  <1>5. LET job == Job("mark_cancelled", <<>>, Unknown) IN
        job \in Transaction /\ job.kind = "mark_cancelled"
    <2>1. <<>> \in AllTexts
      BY EmptySeq DEF AllTexts
    <2> QED BY <2>1, UnknownType, JobType DEF Kinds
  <1>6. jobs' \subseteq jobs \union others \union {Job(how, exec.text, exec.usage)}
    BY DEF Interrupt, LeftJobs
  <1>7. /\ jobs' \subseteq Transaction
        /\ \A k \in jobs' : k \in jobs \/ (k.kind # "complete" /\ k.text = exec.text)
                               \/ k.kind \in {"mark_cancelled", "cancel_queued"}
    BY <1>1, <1>4, <1>5, <1>6
  <1>8. jobs' # {} => run' # "queued"
    <2>1. CASE exec.pc \in TimedPCs \union {"completing"}
      <3>1. run \in {"running", "completed"}
        BY <2>1 DEF Shape
      <3> QED BY <3>1
    <2>2. CASE exec.pc \notin TimedPCs \union {"completing"}
      <3>1. jobs' \subseteq jobs \union others
        BY <2>2 DEF Interrupt, LeftJobs
      <3> QED BY <3>1 DEF WhatThreadsWrite
    <2> QED BY <2>1, <2>2
  <1>9. exec.pc # "idle"
    BY DEF LivePCs, TimedPCs
  <1> QED BY <1>3, <1>7, <1>8, <1>9, AftermathKeeps

LEMMA TimeoutKeeps == ASSUME IInv, NEW kept \in BOOLEAN, Timeout(kept) PROVE IInv'
  <1>1. /\ up /\ up' = up /\ exec.pc \in LivePCs /\ Interrupt(kept, "failed", {})
        /\ UNCHANGED <<tools, run, out, tokens, answers, sent, spent>>
    BY DEF Timeout, row, LivePCs
  <1>2. spent' \in [Budgets -> Nat]
    BY <1>1 DEF IInv, TypeOK, Budgets
  <1> QED BY <1>1, <1>2, InterruptKeeps

LEMMA UserCancelsKeeps == ASSUME IInv, NEW kept \in BOOLEAN, UserCancels(kept) PROVE IInv'
  <1> USE DEF IInv
  <1> DEFINE mark == Job("mark_cancelled", <<>>, Unknown)
             queued == Job("cancel_queued", <<>>, Unknown)
  <1>1. /\ up /\ up' = up /\ run' = IF run \in Active THEN "cancelling" ELSE run
        /\ IF Live THEN Interrupt(kept, "cancelled", {mark})
                   ELSE jobs' = jobs \union {queued} /\ exec' = exec
        /\ UNCHANGED <<tools, out, tokens, answers, sent>>
    BY DEF UserCancels
  <1>2. spent' \in [Budgets -> Nat]
    BY SpendType DEF UserCancels, Budgets
  <1>3. run' # "queued" /\ (run' = run \/ (run \in Active /\ run' = "cancelling"))
    BY <1>1 DEF Active
  <1>4. CASE Live
    BY <1>1, <1>2, <1>3, <1>4, InterruptKeeps DEF Live
  <1>5. CASE ~Live
    <2>1. exec \in Execution /\ jobs \subseteq Transaction /\ exec.pc \in {"idle", "done"}
      BY <1>5, Types DEF Execution, Live
    <2>2. queued \in Transaction /\ queued.kind = "cancel_queued"
      <3>1. <<>> \in AllTexts
        BY EmptySeq DEF AllTexts
      <3> QED BY <3>1, UnknownType, JobType DEF Kinds
    <2> HIDE DEF queued
    <2>3. /\ exec' = exec /\ jobs' = jobs \union {queued} /\ jobs' \subseteq Transaction
          /\ \A k \in jobs' : k \in jobs \/ k.kind \in {"mark_cancelled", "cancel_queued"}
      BY <1>1, <1>5, <2>1, <2>2
    <2>4. exec.pc = "idle" => \A k \in jobs' : k.kind = "cancel_queued"
      BY <2>2, <2>3 DEF Shape
    <2> QED BY <1>1, <1>2, <1>3, <2>1, <2>3, <2>4, AftermathKeeps
  <1> QED BY <1>4, <1>5

LEMMA NewerMessageKeeps == ASSUME IInv, NEW kept \in BOOLEAN, NewerMessage(kept) PROVE IInv'
  <1> USE DEF IInv
  <1>1. up /\ up' = up /\ UNCHANGED <<tools, out, tokens, answers, sent>>
    BY DEF NewerMessage
  <1>2. spent' \in [Budgets -> Nat]
    BY SpendType DEF NewerMessage, Budgets
  <1>3. CASE Live /\ Interrupt(kept, "cancelled", {}) /\ run' = run
    BY <1>1, <1>2, <1>3, InterruptKeeps DEF Live
  <1>4. CASE ~Live /\ run = "queued" /\ run' = "cancelled" /\ exec' = exec /\ jobs' = jobs
    <2>1. exec \in Execution /\ jobs \subseteq Transaction /\ exec.pc \in {"idle", "done"}
      BY <1>4, Types DEF Execution, Live
    <2>2. jobs = {} /\ run \in Active
      BY <1>4 DEF WhatThreadsWrite, Active
    <2> QED BY <1>1, <1>2, <1>4, <2>1, <2>2, AftermathKeeps
  <1> QED BY <1>3, <1>4 DEF NewerMessage
-----------------------------------------------------------------------------
(* Transactions that commit.                                               *)

LEMMA ThreadTypes ==
  ASSUME IInv, run' \in Active \union Terminal, out' \in AllTexts, tokens' \in -1..MaxUsage,
         answers' \in Seq(AllTexts \union {Blank}), NEW j, jobs' = jobs \ {j},
         UNCHANGED <<tools, up, exec, sent, spent>>
  PROVE  TypeOK'
  <1> USE DEF IInv
  <1>1. jobs' \subseteq Transaction /\ exec' \in Execution
    BY Types
  <1> QED BY <1>1, TypesPrimed DEF TypeOK, Budgets

(* A write of all the text, by a save or by a handler that ends the run.   *)
LEMMA TextCommits ==
  ASSUME IInv, up, NEW j \in jobs, j.kind \in {"save", "cancelled", "failed"},
         SaveText(j) \/ (j.kind # "save" /\ FinishRow(Active, j.kind, j) /\ UNCHANGED answers),
         j.kind = "save" => SaveText(j), jobs' = jobs \ {j},
         UNCHANGED <<tools, up, exec, sent, spent>>
  PROVE  IInv'
  <1> USE DEF IInv
  <1>1. j \in Transaction /\ j.text = exec.text /\ j.text \in AllTexts
        /\ j.usage \in -1..MaxUsage
    BY Types DEF WhatThreadsWrite, Transaction
  <1>2. \/ run' = run /\ out' = out /\ tokens' = tokens
        \/ run = "running" /\ run' = run /\ out' = exec.text /\ tokens' = tokens
        \/ /\ j.kind # "save" /\ run \in Active /\ run' \in {"cancelled", "failed"}
           /\ out' = exec.text /\ tokens' \in {tokens, j.usage}
    BY <1>1 DEF SaveText, FinishRow, Tokens, row
  <1>3. answers' = answers /\ exec.pc \notin {"idle", "ask", "tools", "completing"}
        /\ (exec.pc = "saving" => j.kind = "save" /\ jobs = {j})
    BY DEF SaveText, Shape, Job
  <1>4. TypeOK'
    BY <1>1, <1>2, <1>3, ThreadTypes DEF TypeOK, Active, Terminal
  <1>5. Shape'
    <2>1. exec.pc = "saving" => out' = exec.text
      <3> SUFFICES ASSUME exec.pc = "saving" PROVE out' = exec.text
        OBVIOUS
      <3>1. j.kind = "save" /\ run = "running"
        BY <1>3 DEF Shape, TimedPCs
      <3> QED BY <1>1, <3>1 DEF SaveText
    <2>2. exec.pc \in TimedPCs => run' = "running"
      BY <1>2, <1>3 DEF Shape, TimedPCs
    <2> QED BY <1>3, <2>1, <2>2 DEF Shape, TimedPCs
  <1>6. WhatThreadsWrite' /\ UsageIsCounted'
    BY <1>2 DEF WhatThreadsWrite, UsageIsCounted, Terminal, Active
  <1>7. SentIsStored'
    BY <1>2, <1>3 DEF SentIsStored, Shape
  <1>8. CompletedIsWhole'
    BY <1>2, <1>3 DEF CompletedIsWhole
  <1> QED BY <1>4, <1>5, <1>6, <1>7, <1>8

LEMMA FitsText == ASSUME NEW text \in AllTexts, Fits(text) PROVE Len(text) <= Limit
  <1>1. CASE text = <<>>
    <2>1. Len(text) = 0 /\ Len(Blank) = 1 /\ Limit \in Nat
      BY <1>1, AnswerAssumption DEF Blank
    <2> QED BY <1>1, <2>1 DEF Fits, Content
  <1> QED BY <1>1 DEF Fits, Content

LEMMA AppendLast ==
  ASSUME NEW S, NEW s \in Seq(S), NEW e \in S
  PROVE  /\ Append(s, e) \in Seq(S) /\ Append(s, e) # <<>> /\ Last(Append(s, e)) = e
  <1>1. /\ Append(s, e) \in Seq(S) /\ Append(s, e) # <<>> /\ Len(Append(s, e)) = Len(s) + 1
        /\ Append(s, e)[Len(s) + 1] = e
    BY AppendProperties
  <1> QED BY <1>1 DEF Last

(* The answer: all the text, all of it sent, and all the usage.            *)
LEMMA AnswerCommits ==
  ASSUME IInv, up, NEW j \in jobs, j.kind = "complete", Fits(j.text), CompleteRow(j),
         jobs' = jobs \ {j}, UNCHANGED <<tools, up, exec, sent, spent>>
  PROVE  IInv'
  <1> USE DEF IInv
  <1>1. /\ j \in Transaction /\ jobs \subseteq Transaction /\ j.text = exec.text
        /\ exec.text = sent /\ j.usage = exec.counted /\ run # "completed"
        /\ j.text \in AllTexts /\ j.usage \in -1..MaxUsage
    BY Types DEF WhatThreadsWrite, Transaction
  <1>2. /\ answers' = Append(answers, Content(exec.text))
        /\ \/ run' = run /\ out' = out /\ tokens' = tokens /\ run # "running"
           \/ /\ run = "running" /\ run' = "completed" /\ out' = exec.text
              /\ tokens' = Tokens(exec.counted)
    BY <1>1 DEF CompleteRow, FinishRow, row
  <1>3. /\ answers' \in Seq(AllTexts \union {Blank}) /\ answers' # <<>>
        /\ Last(answers') = Content(exec.text)
    BY <1>1, <1>2, AppendLast DEF TypeOK, Content
  <1>4. tokens = Unknown \/ run # "running"
    BY DEF UsageIsCounted, Terminal
  <1>5. run' = "completed" => tokens' = exec.counted
    BY <1>1, <1>2, <1>4 DEF Tokens
  <1>6. TypeOK'
    BY <1>1, <1>2, <1>3, <1>5, ThreadTypes DEF TypeOK, Active, Terminal
  <1>7. jobs' = jobs \ {j} /\ \A k \in jobs' : k.kind # "complete"
    <2> SUFFICES ASSUME NEW k \in jobs, k.kind = "complete" PROVE k = j
      OBVIOUS
    <2>1. k \in Transaction /\ k.text = j.text /\ k.usage = j.usage
      BY <1>1 DEF WhatThreadsWrite
    <2> QED BY <1>1, <2>1 DEF Transaction
  <1>8. /\ exec.pc \notin TimedPCs \union {"idle"}
        /\ (exec.pc = "completing" => jobs = {j} /\ run = "running")
    BY DEF Shape, Job, TimedPCs
  <1>9. Shape'
    BY <1>2, <1>8 DEF Shape, TimedPCs
  <1>10. WhatThreadsWrite'
    BY <1>2, <1>7 DEF WhatThreadsWrite
  <1>11. UsageIsCounted'
    BY <1>2 DEF UsageIsCounted, Terminal
  <1>12. SentIsStored'
    BY <1>1, <1>2, PrefixSelf DEF SentIsStored
  <1>13. CompletedIsWhole'
    <2> SUFFICES ASSUME run' = "completed" PROVE CompletedIsWhole'
      BY DEF CompletedIsWhole
    <2>1. out' = sent' /\ Len(out') <= Limit /\ Content(out') = Content(exec.text)
      BY <1>1, <1>2, FitsText
    <2>2. tokens' = IF exec'.reported = 0 THEN Unknown ELSE exec'.reported
      BY <1>5 DEF UsageIsCounted
    <2> QED BY <1>3, <2>1, <2>2 DEF CompletedIsWhole, Content
  <1> QED BY <1>6, <1>9, <1>10, <1>11, <1>12, <1>13

(* A cancellation that only marks the run.                                 *)
LEMMA MarkCommits ==
  ASSUME IInv, up, NEW j \in jobs, j.kind \in {"mark_cancelled", "cancel_queued"},
         NEW from, from \subseteq Active, CancelRow(from), jobs' = jobs \ {j},
         UNCHANGED <<tools, up, exec, sent, spent>>
  PROVE  IInv'
  <1> USE DEF IInv
  <1>1. /\ exec \in Execution /\ jobs \subseteq Transaction /\ run # "queued"
        /\ spent' \in [Budgets -> Nat]
    BY Types DEF WhatThreadsWrite, TypeOK, Budgets
  <1>2. j \notin Awaited
    BY DEF Awaited, AwaitedKind, Live, LivePCs, TimedPCs
  <1>3. exec.pc \in {"idle", "cancelling", "failing", "done"}
    BY <1>2, OthersComeLate
  <1>4. exec.pc = "idle" => \A k \in jobs' : k.kind = "cancel_queued"
    BY DEF Shape
  <1>5. /\ run' = run \/ (run \in Active /\ run' = "cancelled")
        /\ UNCHANGED <<out, tokens, answers>>
    BY DEF CancelRow
  <1> QED BY <1>1, <1>3, <1>4, <1>5, AftermathKeeps

LEMMA ThreadCommitsKeeps == ASSUME IInv, NEW j, ThreadCommits(j) PROVE IInv'
  <1>1. /\ up /\ j \in jobs /\ (j.kind = "complete" => Fits(j.text))
        /\ jobs' = jobs \ {j} /\ UNCHANGED <<tools, up, exec, sent, spent>>
    BY DEF ThreadCommits
  <1>2. CASE j.kind = "save" /\ SaveText(j)
    BY <1>1, <1>2, TextCommits
  <1>3. CASE j.kind = "complete" /\ CompleteRow(j)
    BY <1>1, <1>3, AnswerCommits DEF ThreadCommits
  <1>4. CASE /\ j.kind \in {"cancelled", "failed"} /\ FinishRow(Active, j.kind, j)
             /\ UNCHANGED answers
    BY <1>1, <1>4, TextCommits
  <1>5. CASE j.kind = "mark_cancelled" /\ CancelRow(Active)
    BY <1>1, <1>5, MarkCommits
  <1>6. CASE j.kind = "cancel_queued" /\ CancelRow({"queued", "cancelling"})
    BY <1>1, <1>6, MarkCommits DEF Active
  <1> QED BY <1>2, <1>3, <1>4, <1>5, <1>6 DEF ThreadCommits, Commits
-----------------------------------------------------------------------------
(* Crashes and restarts.                                                   *)

LEMMA CrashKeeps == ASSUME IInv, Crash PROVE IInv'
  <1> USE DEF IInv
  <1>1. /\ ~up' /\ up' \in BOOLEAN /\ exec' = Idle /\ jobs' = {}
        /\ UNCHANGED <<tools, run, out, tokens, answers, sent>>
    BY DEF Crash, row
  <1>2. spent' \in [Budgets -> Nat]
    BY SpendType DEF Crash, Budgets
  <1>3. Idle \in Execution /\ Idle.pc = "idle" /\ Idle.reported = 0 /\ Idle.counted = Unknown
    BY FreshType DEF Idle, Fresh
  <1>4. TypeOK'
    BY <1>1, <1>2, <1>3, TypesPrimed DEF TypeOK
  <1>5. Shape' /\ WhatThreadsWrite'
    BY <1>1, <1>3 DEF Shape, WhatThreadsWrite, TimedPCs
  <1>6. UsageIsCounted' /\ SentIsStored' /\ CompletedIsWhole'
    BY <1>1, <1>3 DEF UsageIsCounted, SentIsStored, CompletedIsWhole
  <1> QED BY <1>4, <1>5, <1>6

LEMMA RecoveryKeeps == ASSUME IInv, Requeue \/ Restart PROVE IInv'
  <1> USE DEF IInv
  <1>1. /\ ~up /\ exec' = exec /\ jobs' = jobs
        /\ UNCHANGED <<tools, out, tokens, answers, sent, spent>>
        /\ \/ run' = run /\ up' \in BOOLEAN
           \/ run \in {"running", "cancelling"} /\ run' = "queued" /\ up' = up
    BY DEF Requeue, Restart, row
  <1>2. exec \in Execution /\ exec.pc = "idle" /\ jobs = {}
    BY <1>1, Types DEF Shape
  <1>3. TypeOK'
    BY <1>1, <1>2, TypesPrimed DEF TypeOK, Active, Budgets
  <1>4. Shape' /\ WhatThreadsWrite'
    BY <1>1, <1>2 DEF Shape, WhatThreadsWrite, TimedPCs
  <1>5. UsageIsCounted' /\ SentIsStored' /\ CompletedIsWhole'
    BY <1>1 DEF UsageIsCounted, SentIsStored, CompletedIsWhole, Terminal
  <1> QED BY <1>3, <1>4, <1>5

LEMMA StutterKeeps == ASSUME IInv, UNCHANGED vars PROVE IInv'
  BY DEF vars, IInv, TypeOK, Shape, WhatThreadsWrite, UsageIsCounted, SentIsStored,
         CompletedIsWhole

LEMMA StepKeeps == IInv /\ [Next]_vars => IInv'
  <1> SUFFICES ASSUME IInv, [Next]_vars PROVE IInv'
    OBVIOUS
  <1>1. CASE Provider
    BY <1>1, DeltaKeeps, ResponseKeeps, StreamEndsKeeps, ProviderFailsKeeps DEF Provider
  <1>2. CASE Resume
    BY <1>2, StartKeeps, ToolsDoneKeeps, SaveReturnsKeeps, FinishReturnsKeeps DEF Resume
  <1>3. CASE Threads
    BY <1>3, ThreadCommitsKeeps, ThreadRefusedKeeps DEF Threads
  <1>4. CASE Interrupts
    BY <1>4, UserCancelsKeeps, NewerMessageKeeps DEF Interrupts
  <1>5. CASE \E kept \in BOOLEAN : Timeout(kept)
    BY <1>5, TimeoutKeeps
  <1>6. CASE \E j \in jobs : ThreadRaises(j)
    BY <1>6, ThreadRaisesKeeps
  <1>7. CASE Crash \/ Requeue \/ Restart
    BY <1>7, CrashKeeps, RecoveryKeeps
  <1>8. CASE UNCHANGED vars
    BY <1>8, StutterKeeps
  <1> QED BY <1>1, <1>2, <1>3, <1>4, <1>5, <1>6, <1>7, <1>8 DEF Next

THEOREM Invariance == Spec => []IInv
  BY InitHolds, StepKeeps, PTL DEF Spec
-----------------------------------------------------------------------------
(* What follows.                                                           *)

(* The run, its output and its usage always have the types of the schema.  *)
THEOREM TypeCorrect == Spec => []TypeOK
  BY Invariance, PTL DEF IInv

(* After any sequence of cancellations, timeouts, failed transactions and  *)
(* crashes, with threads that commit late, the run holds at least the text *)
(* its client has been sent.                                               *)
THEOREM ClientsAreSentWhatIsStored == Spec => []SentIsStored
  BY Invariance, PTL DEF IInv

(* A run that was completed, the message inserted for it and what was sent *)
(* agree, whatever else was asked of the run meanwhile.                    *)
THEOREM AnswersAreWhole == Spec => []CompletedIsWhole
  BY Invariance, PTL DEF IInv

(* No save or handler that is late changes the output or the usage of a    *)
(* run that has ended.                                                     *)
THEOREM OutputsAreFinal == Spec => OutputIsFinal
  <1> DEFINE Kept == run \in Terminal => out' = out /\ tokens' = tokens
  <1>1. [Next]_vars => [Kept]_vars
    <2> SUFFICES ASSUME Next PROVE Kept
      OBVIOUS
    <2>1. CASE Provider
      BY <2>1 DEF Provider, Delta, Response, StreamEnds, ProviderFails, row
    <2>2. CASE Resume
      BY <2>2 DEF Resume, Start, ToolsDone, SaveReturns, FinishReturns, row
    <2>3. ASSUME NEW j \in jobs, ThreadCommits(j) PROVE Kept
      <3>1. "completed" \notin Active /\ "failed" \notin Active /\ "cancelled" \notin Active
        BY DEF Active
      <3>2. CASE j.kind = "save" /\ SaveText(j)
        BY <3>2 DEF SaveText, Terminal
      <3>3. CASE j.kind = "complete" /\ CompleteRow(j)
        BY <3>3 DEF CompleteRow, FinishRow, Terminal, row
      <3>4. CASE FinishRow(Active, j.kind, j)
        BY <3>1, <3>4 DEF FinishRow, Terminal, row
      <3>5. CASE CancelRow(Active) \/ CancelRow({"queued", "cancelling"})
        BY <3>5 DEF CancelRow
      <3> QED BY <2>3, <3>2, <3>3, <3>4, <3>5 DEF ThreadCommits, Commits
    <2>4. ASSUME NEW j \in jobs, RollsBack(j) PROVE Kept
      BY <2>4 DEF RollsBack, row
    <2>5. CASE Interrupts \/ \E kept \in BOOLEAN : Timeout(kept)
      BY <2>5 DEF Interrupts, UserCancels, NewerMessage, Timeout, row
    <2>6. CASE Crash \/ Requeue \/ Restart
      BY <2>6 DEF Crash, Requeue, Restart, row
    <2> QED BY <2>1, <2>2, <2>3, <2>4, <2>5, <2>6
            DEF Next, Threads, ThreadRefused, ThreadRaises
  <1> QED BY <1>1, PTL DEF Spec, OutputIsFinal

(* The status of the run, as a client that polls sees it.                  *)
Transition ==
    \/ run' = run /\ up' = up
    \/ up' = ~up /\ run' = run
    \/ /\ up' = up
       /\ \/ up /\ run \in {"queued", "running"} /\ run' = "cancelling"
          \/ run = "queued" /\ run' = "running"
          \/ run = "running" /\ run' = "completed"
          \/ run \in {"running", "cancelling"} /\ run' = "failed"
          \/ run \in Active /\ run' = "cancelled"
          \/ ~up /\ run \in {"running", "cancelling"} /\ run' = "queued"

LEMMA TransitionMaps == Transition => [Lifecycle!Next]_<<run, up>>
  <1> SUFFICES ASSUME Transition, <<run, up>>' # <<run, up>> PROVE Lifecycle!Next
    OBVIOUS
  <1> DEFINE status == [m \in {"m"} |-> run]
             new == [m \in {"m"} |-> run']
  <1>1. status["m"] = run /\ \A s : run' = s => new = [status EXCEPT !["m"] = s]
    OBVIOUS
  <1>2. CASE up' = ~up /\ run' = run
    BY <1>2 DEF Lifecycle!Next, Lifecycle!ProcessChanges
  <1>3. CASE up' = up /\ run' # run
    <2>1. \E m \in {"m"} : Lifecycle!RunStep(m)
      <3>1. Lifecycle!RunStep("m")
        <4>1. CASE up /\ run \in {"queued", "running"} /\ run' = "cancelling"
          BY <1>1, <1>3, <4>1 DEF Lifecycle!RunStep, Lifecycle!RequestCancel, Lifecycle!Becomes
        <4>2. CASE run = "queued" /\ run' = "running"
          BY <1>1, <1>3, <4>2 DEF Lifecycle!RunStep, Lifecycle!Start, Lifecycle!Becomes
        <4>3. CASE run = "running" /\ run' = "completed"
          BY <1>1, <1>3, <4>3 DEF Lifecycle!RunStep, Lifecycle!Complete, Lifecycle!Becomes
        <4>4. CASE run \in {"running", "cancelling"} /\ run' = "failed"
          BY <1>1, <1>3, <4>4 DEF Lifecycle!RunStep, Lifecycle!Fail, Lifecycle!Becomes
        <4>5. CASE run \in Active /\ run' = "cancelled"
          BY <1>1, <1>3, <4>5 DEF Lifecycle!RunStep, Lifecycle!Cancel, Lifecycle!Becomes, Active
        <4>6. CASE ~up /\ run \in {"running", "cancelling"} /\ run' = "queued"
          BY <1>1, <1>3, <4>6 DEF Lifecycle!RunStep, Lifecycle!Requeue, Lifecycle!Becomes
        <4> QED BY <1>3, <4>1, <4>2, <4>3, <4>4, <4>5, <4>6 DEF Transition
      <3> QED BY <3>1
    <2> QED BY <2>1 DEF Lifecycle!Next
  <1> QED BY <1>2, <1>3 DEF Transition

LEMMA StepIsTransition == IInv /\ [Next]_vars => Transition
  <1> SUFFICES ASSUME IInv, Next PROVE Transition
    BY DEF vars, Transition
  <1>1. CASE Provider
    BY <1>1 DEF Provider, Delta, Response, StreamEnds, ProviderFails, row, Transition
  <1>2. CASE Resume
    BY <1>2 DEF Resume, Start, ToolsDone, SaveReturns, FinishReturns, row, Transition
  <1>3. ASSUME NEW j \in jobs, ThreadCommits(j) PROVE Transition
    <2>1. run # "queued" /\ run \in Active \union Terminal /\ up' = up
      BY <1>3 DEF IInv, WhatThreadsWrite, TypeOK, ThreadCommits
    <2>2. CASE j.kind = "save" /\ SaveText(j)
      BY <2>1, <2>2 DEF SaveText, Transition
    <2>3. CASE j.kind = "complete" /\ CompleteRow(j)
      BY <2>1, <2>3 DEF CompleteRow, FinishRow, row, Transition
    <2>4. CASE j.kind \in {"cancelled", "failed"} /\ FinishRow(Active, j.kind, j)
      BY <2>1, <2>4 DEF FinishRow, row, Transition, Active
    <2>5. CASE CancelRow(Active) \/ CancelRow({"queued", "cancelling"})
      BY <2>1, <2>5 DEF CancelRow, Transition, Active
    <2> QED BY <1>3, <2>2, <2>3, <2>4, <2>5 DEF ThreadCommits, Commits
  <1>4. ASSUME NEW j \in jobs, RollsBack(j) PROVE Transition
    BY <1>4 DEF RollsBack, row, Transition
  <1>5. ASSUME NEW kept \in BOOLEAN, UserCancels(kept) PROVE Transition
    BY <1>5 DEF UserCancels, Transition, Active
  <1>6. ASSUME NEW kept \in BOOLEAN, NewerMessage(kept) \/ Timeout(kept) PROVE Transition
    BY <1>6 DEF NewerMessage, Timeout, row, Transition, Active
  <1>7. CASE Crash \/ Requeue \/ Restart
    BY <1>7 DEF Crash, Requeue, Restart, row, Transition
  <1> QED BY <1>1, <1>2, <1>3, <1>4, <1>5, <1>6, <1>7
          DEF Next, Threads, Interrupts, ThreadRefused, ThreadRaises

(* Also with each transaction of an execution in a step of its own, a run  *)
(* takes only the transitions that RunLifecycle promises.                  *)
THEOREM StatusFollowsLifecycle == Spec => LifecycleSteps
  <1>1. IInv /\ [Next]_vars => [Lifecycle!Next]_<<run, up>>
    BY StepIsTransition, TransitionMaps
  <1> QED BY <1>1, Invariance, PTL DEF Spec, LifecycleSteps
=============================================================================
