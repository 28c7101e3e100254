--------------------------- MODULE RagIndexProofs ---------------------------
(* Theorems about RagIndex, for any snapshots and documents, any number of *)
(* commands and agent runs, every batch size and every limit.              *)
EXTENDS RagIndex, FiniteSetTheorems, SequenceTheorems, TLAPS

(* What a command has built is what the documents of its snapshot need: a  *)
(* vector is missing, or it is of this content and by this model.          *)
BuiltBy(i) ==
    /\ job[i].pc \in {"begun", "embedding"} =>
          job[i].snapshot \in Snapshots /\ job[i].model \in Models
    /\ job[i].pc = "embedding" => DOMAIN job[i].rows = Documents
    /\ job[i].pc = "embedding" => \A d \in Documents :
          LET c == content[job[i].snapshot][d] IN
          /\ job[i].rows[d].content = c
          /\ job[i].rows[d].vector \in {None, [of |-> c, by |-> job[i].model]}

WhatIsBuilt == \A i \in Commands : BuiltBy(i)

(* The pointer follows the history of publications; a command publishes at *)
(* most once, and then it is over.                                         *)
History ==
    /\ pointer = IF published = <<>> THEN None ELSE published[Len(published)]
    /\ pointer # None => gen[pointer].status = "active"
    /\ \A m, n \in 1..Len(published) : published[m] = published[n] => m = n
    /\ \A n \in 1..Len(published) : gen[published[n]].status # "none"
    /\ \A i \in Commands : gen[i].status # "none" =>
          job[i].pc = "done" /\ \E n \in 1..Len(published) : published[n] = i

(* What a command found current is where the history ended at that time.   *)
CurrentFor(i) == job[i].pc = "embedding" =>
    /\ job[i].base <= Len(published)
    /\ job[i].previous = IF job[i].base = 0 THEN None ELSE published[job[i].base]

WhatWasCurrent == \A i \in Commands : CurrentFor(i)

(* A search has read a pointer to a generation that exists for ever.       *)
WhatIsSearched == \A r \in Readers :
    /\ reader[r].pc = "idle" => reader[r].found = {}
    /\ reader[r].index # None => gen[reader[r].index].status # "none"

IInv ==
    /\ TypeOK /\ WhatIsBuilt /\ History /\ WhatWasCurrent /\ WhatIsSearched
    /\ GenerationIsComplete /\ OneActiveUnlessOverlapping /\ SearchIsOfSnapshot
-----------------------------------------------------------------------------
(* Types, as records.                                                      *)

PCs == {"idle", "begun", "embedding", "done", "failed", "killed"}
Job == [pc : PCs, snapshot : Snapshots \union {None}, model : Models \union {None},
        previous : Commands \union {None}, base : Nat, rows : Rows,
        todo : SUBSET Documents, batches : Nat]
Generation == [status : {"none", "active", "retired"}, snapshot : Snapshots \union {None},
               model : Models \union {None}, rows : Rows]
Run == [pc : {"idle", "pinned", "searching"}, snapshot : Snapshots \union {None},
        index : Commands \union {None}, found : SUBSET (Documents \X Contents)]

LEMMA Types == TypeOK => /\ job \in [Commands -> Job]
                         /\ gen \in [Commands -> Generation]
                         /\ reader \in [Readers -> Run]
                         /\ content \in [Snapshots -> [Documents -> Contents]]
  BY DEF TypeOK, Job, PCs, Generation, Run

LEMMA TypesPrimed ==
  ASSUME job' \in [Commands -> Job], gen' \in [Commands -> Generation],
         reader' \in [Readers -> Run], content' \in [Snapshots -> [Documents -> Contents]],
         current' \in Snapshots, pointer' \in Commands \union {None},
         published' \in Seq(Commands)
  PROVE  TypeOK'
  BY DEF TypeOK, Job, PCs, Generation, Run

LEMMA NoRowsFacts == NoRows \in Rows /\ DOMAIN NoRows = {}
  BY DEF Rows, NoRows

LEMMA RowsFacts ==
  ASSUME NEW rows \in Rows, NEW d \in DOMAIN rows
  PROVE  d \in Documents /\ DOMAIN rows = Documents /\ rows[d] \in Row
  BY DEF Rows, NoRows

(* The history: nothing is published, or the last one is what is current.  *)
LEMMA HistoryFacts ==
  ASSUME TypeOK
  PROVE  /\ Len(published) \in Nat /\ DOMAIN published = 1..Len(published)
         /\ \A n \in 1..Len(published) : published[n] \in Commands
         /\ published = <<>> <=> Len(published) = 0
  <1>1. published \in Seq(Commands)
    BY DEF TypeOK
  <1> QED BY <1>1

LEMMA EndsEffect ==
  ASSUME TypeOK, NEW i \in Commands, NEW pc \in PCs, Ends(i, pc)
  PROVE  /\ job' \in [Commands -> Job]
         /\ job'[i].pc = pc /\ job'[i].base = job[i].base
         /\ \A j \in Commands : j # i => job'[j] = job[j]
  <1>1. job[i] \in Job
    BY Types
  <1>2. [NotBegun EXCEPT !.pc = pc, !.base = job[i].base] \in Job
    BY <1>1, NoRowsFacts DEF NotBegun, Job, PCs
  <1>3. job'[i] = [NotBegun EXCEPT !.pc = pc, !.base = job[i].base]
    BY Types DEF Ends
  <1>4. job'[i].pc = pc /\ job'[i].base = job[i].base
    BY <1>3 DEF NotBegun
  <1> QED BY <1>2, <1>4, Types DEF Ends

LEMMA InitHolds == Init => IInv
  <1> SUFFICES ASSUME Init PROVE IInv
    OBVIOUS
  <1>1. /\ \A i \in Commands : job[i] = NotBegun /\ gen[i] = NotPublished
        /\ \A r \in Readers : reader[r] = NotPinned
        /\ published = <<>> /\ Len(published) = 0 /\ pointer = None
        /\ content \in [Snapshots -> [Documents -> Contents]] /\ current \in Snapshots
    BY DEF Init
  <1>2. NotBegun \in Job /\ NotPublished \in Generation /\ NotPinned \in Run
    BY NoRowsFacts DEF NotBegun, NotPublished, NotPinned, Job, PCs, Generation, Run
  <1>3. TypeOK
    <2>1. /\ job \in [Commands -> Job] /\ gen \in [Commands -> Generation]
          /\ reader \in [Readers -> Run]
      BY <1>2 DEF Init
    <2> QED BY <1>1, <2>1 DEF TypeOK, Job, PCs, Generation, Run
  <1>4. WhatIsBuilt /\ History /\ WhatWasCurrent /\ WhatIsSearched
    BY <1>1 DEF WhatIsBuilt, BuiltBy, History, WhatWasCurrent, CurrentFor, WhatIsSearched, NotBegun, NotPublished, NotPinned
  <1>5. Generations = {}
    BY <1>1 DEF Generations, NotPublished
  <1>6. GenerationIsComplete /\ OneActiveUnlessOverlapping
    BY <1>1, <1>5 DEF GenerationIsComplete, OneActiveUnlessOverlapping
  <1>7. SearchIsOfSnapshot
    BY <1>1 DEF SearchIsOfSnapshot, NotPinned
  <1> QED BY <1>3, <1>4, <1>6, <1>7 DEF IInv
-----------------------------------------------------------------------------
(* A command that works on its own rows changes nothing others can see.    *)
Published == <<content, gen, pointer, published, reader>>

LEMMA UnseenKeeps ==
  ASSUME IInv, UNCHANGED Published, current' \in Snapshots,
         NEW i \in Commands, gen[i].status = "none" \/ job'[i] = job[i],
         job' \in [Commands -> Job], \A j \in Commands : j # i => job'[j] = job[j],
         BuiltBy(i)', CurrentFor(i)'
  PROVE  IInv'
  <1> USE DEF IInv, Published
  <1>1. TypeOK'
    BY Types, TypesPrimed DEF TypeOK
  <1>2. \A j \in Commands : gen[j].status # "none" => job'[j] = job[j]
    OBVIOUS
  <1>3. History'
    BY <1>2 DEF History
  <1>4. WhatIsSearched'
    BY DEF WhatIsSearched
  <1>5. GenerationIsComplete'
    BY DEF GenerationIsComplete, Generations
  <1>6. \A m \in 1..Len(published) : job'[published[m]] = job[published[m]]
    BY <1>2, HistoryFacts DEF History
  <1>7. OneActiveUnlessOverlapping'
    <2>1. \A n \in DOMAIN published : \A m \in n + 1..Len(published) :
            job'[published[m]].base = job[published[m]].base
      BY <1>6, HistoryFacts
    <2> QED BY <2>1 DEF OneActiveUnlessOverlapping, Generations
  <1>8. SearchIsOfSnapshot'
    BY DEF SearchIsOfSnapshot
  <1>9. ASSUME NEW j \in Commands PROVE BuiltBy(j)'
    <2>1. CASE j # i
      BY <2>1 DEF WhatIsBuilt, BuiltBy
    <2> QED BY <2>1
  <1>10. ASSUME NEW j \in Commands PROVE CurrentFor(j)'
    <2>1. CASE j # i
      BY <2>1 DEF WhatWasCurrent, CurrentFor
    <2> QED BY <2>1
  <1>11. WhatIsBuilt' /\ WhatWasCurrent'
    BY <1>9, <1>10 DEF WhatIsBuilt, WhatWasCurrent
  <1> QED BY <1>1, <1>3, <1>4, <1>5, <1>7, <1>8, <1>11

LEMMA BeginKeeps ==
  ASSUME IInv, NEW i \in Commands, NEW model \in Models, Begin(i, model)
  PROVE  IInv'
  <1> USE DEF IInv
  <1>1. job[i].pc = "idle" /\ UNCHANGED <<Published, current>> /\ current \in Snapshots
    BY DEF Begin, At, Published, database, TypeOK
  <1>2. job[i] \in Job
    BY Types
  <1>3. /\ job'[i] = [job[i] EXCEPT !.pc = "begun", !.snapshot = current, !.model = model]
        /\ \A j \in Commands : j # i => job'[j] = job[j]
    BY Types DEF Begin
  <1>4. job'[i] \in Job /\ job'[i].pc = "begun" /\ job'[i].snapshot = current /\ job'[i].model = model
    BY <1>1, <1>2, <1>3 DEF Job, PCs
  <1>5. job' \in [Commands -> Job]
    BY <1>3, <1>4, Types DEF Begin
  <1>6. gen[i].status = "none"
    BY <1>1 DEF History
  <1>7. BuiltBy(i)' /\ CurrentFor(i)'
    BY <1>1, <1>4 DEF BuiltBy, CurrentFor
  <1> QED BY <1>1, <1>3, <1>5, <1>6, <1>7, UnseenKeeps

(* What is taken over from the current generation is complete, so a vector *)
(* whose document has the same content is of that content.                 *)
LEMMA ReadPointerKeeps ==
  ASSUME IInv, NEW i \in Commands, ReadPointer(i)
  PROVE  IInv'
  <1> USE DEF IInv
  <1> DEFINE of == content[job[i].snapshot]
             old == IF pointer = None THEN NoRows ELSE gen[pointer].rows
             keeps == {d \in DOMAIN old \intersect DOMAIN of :
                          Reusable(old[d], of[d], job[i].model)}
             rows == [d \in DOMAIN of |->
                        [content |-> of[d], batch |-> 0,
                         vector |-> IF d \in keeps THEN old[d].vector ELSE None]]
  <1>1. /\ job[i].pc = "begun" /\ UNCHANGED <<Published, current>> /\ current \in Snapshots
        /\ job' = [job EXCEPT ![i].pc = "embedding", ![i].previous = pointer,
                              ![i].base = Len(published), ![i].rows = rows,
                              ![i].todo = DOMAIN of \ keeps]
    BY DEF ReadPointer, Built, At, Published, database, TypeOK
  <1>2. job[i] \in Job /\ job[i].snapshot \in Snapshots /\ job[i].model \in Models
    BY <1>1, Types DEF WhatIsBuilt, BuiltBy
  <1>3. of \in [Documents -> Contents] /\ DOMAIN of = Documents
    BY <1>2, Types
  <1>4. pointer # None => pointer \in Commands /\ pointer \in Generations
    BY DEF History, Generations, TypeOK
  <1>5. ASSUME NEW d \in keeps
        PROVE  old[d].vector = [of |-> of[d], by |-> job[i].model] /\ old[d].vector \in Vector
    <2>1. pointer # None
      BY NoRowsFacts
    <2>2. /\ d \in Documents /\ old = gen[pointer].rows
          /\ old[d].content = of[d] /\ old[d].vector.by = job[i].model
      BY <1>3, <2>1 DEF Reusable
    <2>3. old[d] = [content |-> content[gen[pointer].snapshot][d], batch |-> old[d].batch,
                    vector |-> [of |-> content[gen[pointer].snapshot][d], by |-> gen[pointer].model]]
      BY <1>4, <2>1, <2>2 DEF GenerationIsComplete
    <2> QED BY ONLY <1>2, <1>3, <2>2, <2>3 DEF Vector
  <1> HIDE DEF of, old, keeps
  <1>6. ASSUME NEW d \in Documents
        PROVE  /\ rows[d] \in Row /\ rows[d].content = of[d]
               /\ rows[d].vector \in {None, [of |-> of[d], by |-> job[i].model]}
    BY <1>3, <1>5 DEF Row
  <1>7. rows \in Rows /\ DOMAIN rows = Documents
    BY <1>3, <1>6 DEF Rows
  <1>8. DOMAIN of \ keeps \in SUBSET Documents /\ pointer \in Commands \union {None}
        /\ Len(published) \in Nat
    BY <1>3, HistoryFacts DEF TypeOK
  <1> HIDE DEF rows
  <1>9. job'[i] = [job[i] EXCEPT !.pc = "embedding", !.previous = pointer,
                      !.base = Len(published), !.rows = rows, !.todo = DOMAIN of \ keeps]
        /\ \A j \in Commands : j # i => job'[j] = job[j]
    BY <1>1, Types
  <1>10. /\ job'[i] \in Job /\ job'[i].pc = "embedding" /\ job'[i].previous = pointer
         /\ job'[i].base = Len(published) /\ job'[i].rows = rows
         /\ job'[i].snapshot = job[i].snapshot /\ job'[i].model = job[i].model
    BY <1>2, <1>7, <1>8, <1>9 DEF Job, PCs
  <1>11. job' \in [Commands -> Job]
    BY <1>1, <1>9, <1>10, Types
  <1>12. gen[i].status = "none"
    BY <1>1 DEF History
  <1>13. BuiltBy(i)'
    <2>1. content' = content
      BY <1>1 DEF Published
    <2> QED BY <1>2, <1>6, <1>7, <1>10, <2>1 DEF BuiltBy, of
  <1>14. CurrentFor(i)'
    <2>1. pointer = IF Len(published) = 0 THEN None ELSE published[Len(published)]
      BY HistoryFacts DEF History
    <2> QED BY <1>1, <1>8, <1>10, <2>1 DEF CurrentFor, Published
  <1> QED BY <1>1, <1>9, <1>11, <1>12, <1>13, <1>14, UnseenKeeps

LEMMA EmbedKeeps ==
  ASSUME IInv, NEW i \in Commands, Embed(i)
  PROVE  IInv'
  <1> USE DEF IInv
  <1>1. /\ job[i].pc = "embedding" /\ UNCHANGED <<Published, current>> /\ current \in Snapshots
    BY DEF Embed, At, Published, database, TypeOK
  <1>2. /\ job[i] \in Job /\ job[i].snapshot \in Snapshots /\ job[i].model \in Models
        /\ DOMAIN job[i].rows = Documents
    BY <1>1, Types DEF WhatIsBuilt, BuiltBy
  <1>3. PICK failed \in Failures(i) :
           job' = [job EXCEPT
               ![i].todo = @ \ Batch(i), ![i].batches = @ + 1,
               ![i].rows = [d \in DOMAIN @ |->
                   IF d \in Batch(i) \ failed
                     THEN [content |-> @[d].content, batch |-> job[i].batches + 1,
                           vector |-> [of |-> @[d].content, by |-> job[i].model]]
                     ELSE @[d]]]
    BY DEF Embed
  <1> DEFINE rows == [d \in Documents |->
                   IF d \in Batch(i) \ failed
                     THEN [content |-> job[i].rows[d].content, batch |-> job[i].batches + 1,
                           vector |-> [of |-> job[i].rows[d].content, by |-> job[i].model]]
                     ELSE job[i].rows[d]]
             c(d) == content[job[i].snapshot][d]
  <1>4. /\ job'[i] = [job[i] EXCEPT !.todo = job[i].todo \ Batch(i),
                          !.batches = job[i].batches + 1, !.rows = rows]
        /\ \A j \in Commands : j # i => job'[j] = job[j]
        /\ job' = [job EXCEPT ![i] = job'[i]]
    BY <1>2, <1>3, Types
  <1>5. ASSUME NEW d \in Documents
        PROVE  /\ rows[d] \in Row /\ rows[d].content = c(d)
               /\ rows[d].vector \in {None, [of |-> c(d), by |-> job[i].model]}
    <2>1. /\ job[i].rows[d] \in Row /\ job[i].rows[d].content = c(d)
          /\ job[i].rows[d].vector \in {None, [of |-> c(d), by |-> job[i].model]}
          /\ c(d) \in Contents /\ job[i].batches + 1 \in Nat
      BY <1>1, <1>2, RowsFacts, Types DEF WhatIsBuilt, BuiltBy, Job
    <2> HIDE DEF c
    <2>2. CASE d \in Batch(i) \ failed
      <3>1. rows[d] = [content |-> c(d), batch |-> job[i].batches + 1,
                       vector |-> [of |-> c(d), by |-> job[i].model]]
        BY <2>1, <2>2
      <3> QED BY <1>2, <2>1, <3>1 DEF Row, Vector
    <2>3. CASE d \notin Batch(i) \ failed
      <3>1. rows[d] = job[i].rows[d]
        BY <2>3
      <3> QED BY <2>1, <3>1
    <2> QED BY <2>2, <2>3
  <1>6. rows \in Rows /\ DOMAIN rows = Documents
    BY <1>5 DEF Rows
  <1> HIDE DEF rows
  <1>7. /\ job'[i] \in Job /\ job'[i].pc = "embedding" /\ job'[i].rows = rows
        /\ job'[i].previous = job[i].previous /\ job'[i].base = job[i].base
        /\ job'[i].snapshot = job[i].snapshot /\ job'[i].model = job[i].model
    <2>1. /\ job[i].todo \ Batch(i) \in SUBSET Documents /\ job[i].batches + 1 \in Nat
      BY <1>2 DEF Job
    <2> DEFINE todo == job[i].todo \ Batch(i)
               batches == job[i].batches + 1
    <2>2. job'[i] = [job[i] EXCEPT !.todo = todo, !.batches = batches, !.rows = rows]
      BY <1>4
    <2> HIDE DEF todo, batches
    <2>3. todo \in SUBSET Documents /\ batches \in Nat
      BY <2>1 DEF todo, batches
    <2> QED BY ONLY <1>1, <1>2, <1>6, <2>2, <2>3 DEF Job
  <1>8. job' \in [Commands -> Job]
    BY <1>4, <1>7, Types
  <1>9. gen[i].status = "none"
    BY <1>1 DEF History
  <1>10. BuiltBy(i)'
    <2>1. content' = content
      BY <1>1 DEF Published
    <2> QED BY <1>2, <1>5, <1>6, <1>7, <2>1 DEF BuiltBy
  <1>11. CurrentFor(i)'
    BY <1>1, <1>7 DEF WhatWasCurrent, CurrentFor, Published
  <1> QED BY <1>1, <1>4, <1>8, <1>9, <1>10, <1>11, UnseenKeeps

LEMMA EndKeeps ==
  ASSUME IInv, NEW i \in Commands, Fail(i) \/ Kill(i)
  PROVE  IInv'
  <1> USE DEF IInv
  <1>1. PICK pc \in {"failed", "killed"} : Ends(i, pc)
    BY DEF Fail, Kill
  <1>2. /\ job[i].pc \in {"begun", "embedding"} /\ UNCHANGED <<Published, current>>
        /\ current \in Snapshots
    BY DEF Fail, Kill, At, Published, database, TypeOK
  <1>3. /\ job' \in [Commands -> Job] /\ job'[i].pc = pc
        /\ \A j \in Commands : j # i => job'[j] = job[j]
    BY <1>1, EndsEffect DEF PCs
  <1>4. gen[i].status = "none"
    BY <1>2 DEF History
  <1>5. BuiltBy(i)' /\ CurrentFor(i)'
    BY <1>3 DEF BuiltBy, CurrentFor
  <1> QED BY <1>2, <1>3, <1>4, <1>5, UnseenKeeps

LEMMA MoveCurrentKeeps == IInv /\ MoveCurrent => IInv'
  <1> SUFFICES ASSUME IInv, MoveCurrent PROVE IInv'
    OBVIOUS
  <1> USE DEF IInv
  <1>1. UNCHANGED <<content, gen, pointer, published, job, reader>> /\ current' \in Snapshots
    BY DEF MoveCurrent, database
  <1>2. TypeOK'
    BY <1>1, Types, TypesPrimed DEF TypeOK
  <1>3. WhatIsBuilt' /\ History' /\ WhatWasCurrent' /\ WhatIsSearched'
    BY <1>1 DEF WhatIsBuilt, BuiltBy, History, WhatWasCurrent, CurrentFor, WhatIsSearched
  <1>4. GenerationIsComplete' /\ OneActiveUnlessOverlapping' /\ SearchIsOfSnapshot'
    BY <1>1 DEF GenerationIsComplete, OneActiveUnlessOverlapping, SearchIsOfSnapshot, Generations
  <1> QED BY <1>2, <1>3, <1>4

(* The publication: the new generation is complete; of the others only the *)
(* one found current changes, and only its status.                         *)
LEMMA PublishEffect ==
  ASSUME IInv, NEW i \in Commands, Publish(i)
  PROVE  /\ job[i].pc = "embedding" /\ gen[i].status = "none"
         /\ gen' \in [Commands -> Generation]
         /\ gen'[i].status = "active"
         /\ gen'[i].rows = [d \in Documents |->
               [content |-> content[gen'[i].snapshot][d], batch |-> gen'[i].rows[d].batch,
                vector |-> [of |-> content[gen'[i].snapshot][d], by |-> gen'[i].model]]]
         /\ \A j \in Commands : j # i =>
               /\ gen'[j].snapshot = gen[j].snapshot /\ gen'[j].model = gen[j].model
               /\ gen'[j].rows = gen[j].rows
               /\ gen'[j].status = IF j = job[i].previous THEN "retired" ELSE gen[j].status
         /\ job[i].previous # None => /\ job[i].previous \in Commands \ {i}
                                      /\ gen[job[i].previous].status # "none"
  <1> USE DEF IInv
  <1> DEFINE new == [status |-> "active", snapshot |-> job[i].snapshot,
                     model |-> job[i].model, rows |-> job[i].rows]
             prev == job[i].previous
             c(d) == content[job[i].snapshot][d]
  <1>1. /\ job[i].pc = "embedding" /\ Complete(i)
        /\ gen' = Retire(i, [gen EXCEPT ![i] = new])
    BY DEF Publish, At
  <1>2. gen[i].status = "none"
    BY <1>1 DEF History
  <1>3. /\ job[i] \in Job /\ job[i].snapshot \in Snapshots /\ job[i].model \in Models
        /\ DOMAIN job[i].rows = Documents
    BY <1>1, Types DEF WhatIsBuilt, BuiltBy
  <1>4. new \in Generation
    BY <1>3 DEF Generation, Job
  <1>5. prev # None => prev \in Commands \ {i} /\ gen[prev].status # "none"
    <2>1. SUFFICES ASSUME prev # None PROVE prev \in Commands \ {i} /\ gen[prev].status # "none"
      OBVIOUS
    <2>2. job[i].base \in 1..Len(published) /\ prev = published[job[i].base]
      BY <1>1, <1>3, <2>1, HistoryFacts DEF WhatWasCurrent, CurrentFor, Job
    <2> QED BY <1>2, <2>2, HistoryFacts DEF History
  <1>6. job[i].rows = [d \in Documents |->
            [content |-> c(d), batch |-> job[i].rows[d].batch,
             vector |-> [of |-> c(d), by |-> job[i].model]]]
    <2>1. ASSUME NEW d \in Documents
          PROVE  job[i].rows[d] = [content |-> c(d), batch |-> job[i].rows[d].batch,
                                   vector |-> [of |-> c(d), by |-> job[i].model]]
      <3>1. /\ job[i].rows[d] \in Row /\ job[i].rows[d].content = c(d)
            /\ job[i].rows[d].vector = [of |-> c(d), by |-> job[i].model]
        BY <1>1, <1>3, RowsFacts DEF WhatIsBuilt, BuiltBy, Job, Complete
      <3> HIDE DEF c
      <3> QED BY ONLY <3>1 DEF Row
    <2>2. job[i].rows \in [Documents -> Row] \/ Documents = {}
      BY <1>3, NoRowsFacts DEF Job, Rows
    <2>3. job[i].rows = [d \in Documents |-> job[i].rows[d]]
      BY <1>3, <2>2 DEF Job, Rows, NoRows
    <2> HIDE DEF c
    <2> QED BY <2>1, <2>3
  <1>7. CASE prev = None
    <2>1. gen' = [gen EXCEPT ![i] = new]
      BY <1>1, <1>7 DEF Retire
    <2>2. gen' \in [Commands -> Generation] /\ gen'[i] = new
          /\ \A j \in Commands : j # i => gen'[j] = gen[j]
      BY <1>4, <2>1, Types
    <2>3. \A j \in Commands : j # prev
      BY <1>7, IndexAssumption
    <2>4. /\ new.status = "active" /\ new.rows = job[i].rows
          /\ new.snapshot = job[i].snapshot /\ new.model = job[i].model
      OBVIOUS
    <2> HIDE DEF prev, new
    <2>5. /\ gen'[i].status = "active" /\ gen'[i].rows = job[i].rows
          /\ gen'[i].snapshot = job[i].snapshot /\ gen'[i].model = job[i].model
      BY <2>2, <2>4
    <2> QED BY <1>1, <1>2, <1>5, <1>6, <2>2, <2>3, <2>5 DEF prev
  <1>8. CASE prev # None
    <2>1. gen' = [[gen EXCEPT ![i] = new] EXCEPT ![prev].status = "retired"]
      BY <1>1, <1>8 DEF Retire
    <2>2. gen[prev] \in Generation /\ prev \in Commands /\ prev # i
      BY <1>5, <1>8, Types
    <2> HIDE DEF prev, new
    <2>3. /\ gen'[i] = new
          /\ gen'[prev] = [gen[prev] EXCEPT !.status = "retired"]
          /\ \A j \in Commands : j # i /\ j # prev => gen'[j] = gen[j]
          /\ gen' = [j \in Commands |-> gen'[j]]
      BY <2>1, <2>2, Types
    <2>4. /\ [gen[prev] EXCEPT !.status = "retired"] \in Generation
          /\ gen'[prev].status = "retired" /\ gen'[prev].snapshot = gen[prev].snapshot
          /\ gen'[prev].model = gen[prev].model /\ gen'[prev].rows = gen[prev].rows
      BY <2>2, <2>3 DEF Generation
    <2>5. gen' \in [Commands -> Generation]
      <3>1. \A j \in Commands : gen'[j] \in Generation
        BY <1>4, <2>2, <2>3, <2>4, Types
      <3> QED BY <2>3, <3>1
    <2>6. \A j \in Commands : j # i =>
               /\ gen'[j].snapshot = gen[j].snapshot /\ gen'[j].model = gen[j].model
               /\ gen'[j].rows = gen[j].rows
               /\ gen'[j].status = IF j = prev THEN "retired" ELSE gen[j].status
      BY <2>3, <2>4
    <2>7. /\ gen'[i].status = "active" /\ gen'[i].rows = job[i].rows
          /\ gen'[i].snapshot = job[i].snapshot /\ gen'[i].model = job[i].model
      BY <2>3 DEF new
    <2> QED BY <1>1, <1>2, <1>5, <1>6, <2>5, <2>6, <2>7 DEF prev
  <1> QED BY <1>7, <1>8

LEMMA PublishKeeps ==
  ASSUME IInv, NEW i \in Commands, Publish(i)
  PROVE  IInv'
  <1> USE DEF IInv
  <1> DEFINE k == Len(published)
             prev == job[i].previous
  <1>1. /\ job[i].pc = "embedding" /\ gen[i].status = "none"
        /\ gen' \in [Commands -> Generation] /\ gen'[i].status = "active"
        /\ gen'[i].rows = [d \in Documents |->
              [content |-> content[gen'[i].snapshot][d], batch |-> gen'[i].rows[d].batch,
               vector |-> [of |-> content[gen'[i].snapshot][d], by |-> gen'[i].model]]]
    BY PublishEffect
  <1>2. \A j \in Commands : j # i =>
               /\ gen'[j].snapshot = gen[j].snapshot /\ gen'[j].model = gen[j].model
               /\ gen'[j].rows = gen[j].rows
               /\ gen'[j].status = IF j = prev THEN "retired" ELSE gen[j].status
    BY PublishEffect
  <1>3. prev # None => prev \in Commands \ {i} /\ gen[prev].status # "none"
    BY PublishEffect
  <1>4. /\ pointer' = i /\ published' = Append(published, i)
        /\ (prev = None => pointer = None)
        /\ UNCHANGED <<content, current, reader>>
    BY DEF Publish
  <1>5. /\ job' \in [Commands -> Job] /\ job'[i].pc = "done" /\ job'[i].base = job[i].base
        /\ \A j \in Commands : j # i => job'[j] = job[j]
    BY EndsEffect DEF Publish, PCs
  <1>6. /\ k \in Nat /\ published' \in Seq(Commands)
        /\ Len(published') = k + 1 /\ published'[k + 1] = i
        /\ \A n \in 1..k : published'[n] = published[n] /\ published[n] \in Commands
        /\ DOMAIN published' = 1..(k + 1) /\ DOMAIN published = 1..k
        /\ published' # <<>>
    <2>1. published \in Seq(Commands)
      BY DEF TypeOK
    <2> QED BY <1>4, <2>1
  <1>7. \A n \in 1..k : published[n] # i
    BY <1>1 DEF History
  <1>8. TypeOK'
    BY <1>1, <1>4, <1>5, <1>6, Types, TypesPrimed DEF TypeOK
  <1>9. WhatIsBuilt'
    <2>1. ASSUME NEW j \in Commands PROVE BuiltBy(j)'
      <3>1. CASE j = i
        BY <1>5, <3>1 DEF BuiltBy
      <3>2. CASE j # i
        BY <1>4, <1>5, <3>2 DEF WhatIsBuilt, BuiltBy
      <3> QED BY <3>1, <3>2
    <2> QED BY <2>1 DEF WhatIsBuilt
  <1>10. \A j \in Commands : gen[j].status # "none" => gen'[j].status # "none"
    BY <1>1, <1>2
  <1>11. History'
    <2>1. pointer' = published'[Len(published')] /\ gen'[pointer'].status = "active"
      BY <1>1, <1>4, <1>6
    <2>2. \A m, n \in 1..(k + 1) : published'[m] = published'[n] => m = n
      <3> SUFFICES ASSUME NEW m \in 1..(k + 1), NEW n \in 1..(k + 1), published'[m] = published'[n]
                   PROVE  m = n
        OBVIOUS
      <3>1. CASE m \in 1..k /\ n \in 1..k
        BY <1>6, <3>1 DEF History
      <3>2. CASE m = k + 1 \/ n = k + 1
        BY <1>6, <1>7, <3>2
      <3> QED BY <1>6, <3>1, <3>2
    <2>3. \A n \in 1..(k + 1) : gen'[published'[n]].status # "none"
      <3> SUFFICES ASSUME NEW n \in 1..(k + 1) PROVE gen'[published'[n]].status # "none"
        OBVIOUS
      <3>1. CASE n = k + 1
        BY <1>1, <1>6, <3>1
      <3>2. CASE n \in 1..k
        BY <1>6, <1>10, <3>2 DEF History
      <3> QED BY <1>6, <3>1, <3>2
    <2>4. ASSUME NEW j \in Commands, gen'[j].status # "none"
          PROVE  job'[j].pc = "done" /\ \E n \in 1..(k + 1) : published'[n] = j
      <3>1. CASE j = i
        BY <1>5, <1>6, <3>1
      <3>2. CASE j # i
        <4>1. gen[j].status # "none"
          BY <1>2, <1>3, <2>4, <3>2, IndexAssumption
        <4>2. PICK n \in 1..k : published[n] = j
          BY <4>1 DEF History
        <4>3. n \in 1..(k + 1) /\ published'[n] = j
          BY <1>6, <4>2
        <4> QED BY <1>5, <3>2, <4>1, <4>3 DEF History
      <3> QED BY <3>1, <3>2
    <2> QED BY <1>6, <2>1, <2>2, <2>3, <2>4 DEF History
  <1>12. WhatWasCurrent'
    <2>1. ASSUME NEW j \in Commands PROVE CurrentFor(j)'
      <3>1. CASE j = i
        BY <1>5, <3>1 DEF CurrentFor
      <3>2. CASE j # i /\ job[j].pc = "embedding"
        <4>1. job[j].base \in 0..k
          BY <1>6, <3>2, Types DEF WhatWasCurrent, CurrentFor, Job
        <4>2. job[j].base # 0 => published'[job[j].base] = published[job[j].base]
          BY <1>6, <4>1
        <4> QED BY <1>5, <1>6, <3>2, <4>1, <4>2 DEF WhatWasCurrent, CurrentFor
      <3>3. CASE j # i /\ job[j].pc # "embedding"
        BY <1>5, <3>3 DEF CurrentFor
      <3> QED BY <3>1, <3>2, <3>3
    <2> QED BY <2>1 DEF WhatWasCurrent
  <1>13. WhatIsSearched'
    <2>1. \A r \in Readers : reader[r].index \in Commands \union {None}
      BY Types DEF Run
    <2> QED BY <1>4, <1>10, <2>1 DEF WhatIsSearched
  <1>14. GenerationIsComplete'
    <2>1. ASSUME NEW g \in Commands, gen'[g].status # "none"
          PROVE  gen'[g].rows = [d \in Documents |->
              [content |-> content[gen'[g].snapshot][d], batch |-> gen'[g].rows[d].batch,
               vector |-> [of |-> content[gen'[g].snapshot][d], by |-> gen'[g].model]]]
      <3>1. CASE g = i
        BY <1>1, <3>1
      <3>2. CASE g # i
        <4>1. g \in Generations
          BY <1>2, <1>3, <2>1, <3>2, IndexAssumption DEF Generations
        <4>2. gen'[g].snapshot = gen[g].snapshot /\ gen'[g].model = gen[g].model
              /\ gen'[g].rows = gen[g].rows
          BY <1>2, <3>2
        <4> QED BY <4>1, <4>2 DEF GenerationIsComplete
      <3> QED BY <3>1, <3>2
    <2> QED BY <1>4, <2>1 DEF GenerationIsComplete, Generations
  <1>15. OneActiveUnlessOverlapping'
    <2>1. pointer' # None /\ gen'[pointer'].status = "active"
      BY <1>1, <1>4, IndexAssumption
    <2>2. ASSUME NEW n \in 1..(k + 1), gen'[published'[n]].status = "active"
          PROVE  \/ pointer' = published'[n]
                 \/ \E m \in (n + 1)..(k + 1) : job'[published'[m]].base < n
      <3>1. CASE n = k + 1
        BY <1>4, <1>6, <3>1
      <3>2. CASE n \in 1..k
        <4>1. /\ published[n] \in Commands /\ published[n] # i /\ published'[n] = published[n]
          BY <1>6, <1>7, <3>2
        <4>2. gen[published[n]].status = "active" /\ published[n] # prev
          BY <1>2, <2>2, <4>1
        <4>3. job[i].base \in 0..k /\ prev = IF job[i].base = 0 THEN None ELSE published[job[i].base]
          BY <1>1, <1>6, Types DEF WhatWasCurrent, CurrentFor, Job
        <4>4. CASE job[i].base < n
          BY <1>5, <1>6, <3>2, <4>4
        <4>5. CASE ~(job[i].base < n)
          <5>0. k \in Nat /\ n \in 1..k /\ k \in 1..k
            BY <1>6, <3>2
          <5>1. n # job[i].base /\ n < job[i].base
            BY <1>6, <3>2, <4>2, <4>3, <4>5
          <5>2. n # k
            BY ONLY <4>3, <5>0, <5>1
          <5>3. pointer = published[k]
            BY <1>6, <3>2, HistoryFacts DEF History
          <5>4. pointer # published[n]
            <6>1. \A m \in 1..k : published[m] = published[n] => m = n
              BY <5>0 DEF History
            <6> QED BY <5>0, <5>2, <5>3, <6>1
          <5>5. PICK m \in (n + 1)..k : job[published[m]].base < n
            BY <1>6, <3>2, <4>2, <5>4 DEF OneActiveUnlessOverlapping
          <5>6. /\ m \in 1..k /\ m \in (n + 1)..(k + 1)
            BY <1>6, <3>2
          <5>7. job'[published'[m]] = job[published[m]]
            BY <1>5, <1>6, <1>7, <5>6
          <5> QED BY <5>5, <5>6, <5>7
        <4> QED BY <4>4, <4>5
      <3> QED BY <1>6, <3>1, <3>2
    <2> QED BY <1>6, <2>1, <2>2 DEF OneActiveUnlessOverlapping
  <1>16. SearchIsOfSnapshot'
    BY <1>4 DEF SearchIsOfSnapshot
  <1> QED BY <1>8, <1>9, <1>11, <1>12, <1>13, <1>14, <1>15, <1>16
-----------------------------------------------------------------------------
(* The searches change nothing but what the agent run has found.           *)
FoundBy(r) ==
    LET found == reader[r].found IN
    /\ \A h \in found : h[2] = content[reader[r].snapshot][h[1]]
    /\ found # {} => Cardinality(found) = Least(Limit, Cardinality(Documents))

SearchedBy(r) ==
    /\ reader[r].pc = "idle" => reader[r].found = {}
    /\ reader[r].index # None => gen[reader[r].index].status # "none"

LEMMA ReadKeeps ==
  ASSUME IInv, UNCHANGED <<content, current, gen, pointer, published, job>>,
         NEW r \in Readers, reader' \in [Readers -> Run],
         \A q \in Readers : q # r => reader'[q] = reader[q],
         FoundBy(r)', SearchedBy(r)'
  PROVE  IInv'
  <1> USE DEF IInv
  <1>1. TypeOK'
    BY Types, TypesPrimed DEF TypeOK
  <1>2. WhatIsBuilt' /\ History' /\ WhatWasCurrent'
    BY DEF WhatIsBuilt, BuiltBy, History, WhatWasCurrent, CurrentFor
  <1>3. GenerationIsComplete' /\ OneActiveUnlessOverlapping'
    BY DEF GenerationIsComplete, OneActiveUnlessOverlapping, Generations
  <1>4. ASSUME NEW q \in Readers PROVE FoundBy(q)' /\ SearchedBy(q)'
    <2>1. CASE q # r
      BY <2>1 DEF SearchIsOfSnapshot, WhatIsSearched, FoundBy, SearchedBy
    <2> QED BY <2>1
  <1>5. SearchIsOfSnapshot' /\ WhatIsSearched'
    BY <1>4 DEF SearchIsOfSnapshot, WhatIsSearched, FoundBy, SearchedBy
  <1> QED BY <1>1, <1>2, <1>3, <1>5

(* As many pairs are found as documents.                                   *)
LEMMA PairsAreAsMany ==
  ASSUME NEW f \in SUBSET Documents, NEW rows
  PROVE  Cardinality({<<d, rows[d].content>> : d \in f}) = Cardinality(f)
  <1> DEFINE pairs == {<<d, rows[d].content>> : d \in f}
             bij == [d \in f |-> <<d, rows[d].content>>]
  <1>1. IsFiniteSet(f)
    BY IndexAssumption, FS_Subset
  <1>2. bij \in Bijection(f, pairs)
    BY DEF Bijection, Injection, Surjection, IsInjective
  <1> QED BY <1>1, <1>2, FS_Bijection DEF ExistsBijection

LEMMA PinKeeps ==
  ASSUME IInv, NEW r \in Readers, Pin(r)
  PROVE  IInv'
  <1> USE DEF IInv
  <1>1. /\ reader[r].pc = "idle" /\ reader[r].found = {} /\ reader[r] \in Run
        /\ reader[r].index # None => gen[reader[r].index].status # "none"
        /\ current \in Snapshots
        /\ UNCHANGED <<content, current, gen, pointer, published, job>>
    BY Types DEF Pin, WhatIsSearched, database, TypeOK
  <1>2. /\ reader'[r] = [reader[r] EXCEPT !.pc = "pinned", !.snapshot = current]
        /\ \A q \in Readers : q # r => reader'[q] = reader[q]
        /\ reader' = [q \in Readers |-> reader'[q]]
    BY Types DEF Pin
  <1>3. /\ reader'[r] \in Run /\ reader'[r].pc = "pinned"
        /\ reader'[r].found = {} /\ reader'[r].index = reader[r].index
    BY <1>1, <1>2 DEF Run
  <1>4. reader' \in [Readers -> Run]
    <2>1. \A q \in Readers : reader'[q] \in Run
      BY <1>2, <1>3, Types
    <2> QED BY <1>2, <2>1
  <1>5. FoundBy(r)' /\ SearchedBy(r)'
    BY <1>1, <1>3 DEF FoundBy, SearchedBy
  <1> QED BY <1>1, <1>2, <1>4, <1>5, ReadKeeps

LEMMA SearchPointerKeeps ==
  ASSUME IInv, NEW r \in Readers, SearchPointer(r)
  PROVE  IInv'
  <1> USE DEF IInv
  <1>1. /\ reader[r] \in Run /\ pointer \in Commands \union {None}
        /\ pointer # None => gen[pointer].status # "none"
        /\ UNCHANGED <<content, current, gen, pointer, published, job>>
    BY Types DEF SearchPointer, History, database, TypeOK
  <1>2. /\ reader'[r] = [reader[r] EXCEPT !.pc = "searching", !.index = pointer]
        /\ \A q \in Readers : q # r => reader'[q] = reader[q]
        /\ reader' = [q \in Readers |-> reader'[q]]
    BY Types DEF SearchPointer
  <1>3. /\ reader'[r] \in Run /\ reader'[r].pc = "searching" /\ reader'[r].index = pointer
        /\ reader'[r].found = reader[r].found /\ reader'[r].snapshot = reader[r].snapshot
    BY <1>1, <1>2 DEF Run
  <1>4. reader' \in [Readers -> Run]
    <2>1. \A q \in Readers : reader'[q] \in Run
      BY <1>2, <1>3, Types
    <2> QED BY <1>2, <2>1
  <1>5. FoundBy(r)' /\ SearchedBy(r)'
    BY <1>1, <1>3 DEF FoundBy, SearchedBy, SearchIsOfSnapshot
  <1> QED BY <1>1, <1>2, <1>4, <1>5, ReadKeeps

LEMMA SearchRowsKeeps ==
  ASSUME IInv, NEW r \in Readers, SearchRows(r)
  PROVE  IInv'
  <1> USE DEF IInv
  <1> DEFINE rows == Hits(r)
             Pairs(f) == {<<d, rows[d].content>> : d \in f}
  <1>1. /\ reader[r] \in Run /\ UNCHANGED <<content, current, gen, pointer, published, job>>
        /\ reader[r].pc = "searching"
    BY Types DEF SearchRows, database
  <1>2. PICK f \in Newest(rows, Limit) :
           reader' = [reader EXCEPT ![r].pc = "pinned", ![r].found = Pairs(f)]
    BY DEF SearchRows
  <1>3. f \in SUBSET DOMAIN rows /\ Cardinality(f) = Least(Limit, Cardinality(DOMAIN rows))
    BY DEF Newest
  <1>4. ASSUME NEW d \in DOMAIN rows
        PROVE  /\ DOMAIN rows = Documents /\ d \in Documents
               /\ rows[d].content = content[reader[r].snapshot][d]
               /\ rows[d].content \in Contents
    <2>1. /\ reader[r].index # None /\ rows = gen[reader[r].index].rows
          /\ gen[reader[r].index].snapshot = reader[r].snapshot
      BY <1>4, NoRowsFacts DEF Hits
    <2>2. reader[r].index \in Generations /\ rows \in Rows
      BY <1>1, <2>1, Types DEF WhatIsSearched, Generations, Run, Generation
    <2> DEFINE g == reader[r].index
    <2>3. gen[g].rows = [e \in Documents |->
              [content |-> content[gen[g].snapshot][e], batch |-> gen[g].rows[e].batch,
               vector |-> [of |-> content[gen[g].snapshot][e], by |-> gen[g].model]]]
      BY <2>2 DEF GenerationIsComplete
    <2>4. rows[d] \in Row /\ DOMAIN rows = Documents /\ d \in Documents
      BY <1>4, <2>2, RowsFacts
    <2> HIDE DEF g
    <2>5. rows[d].content = content[reader[r].snapshot][d]
      <3>1. rows[d] = gen[g].rows[d] /\ gen[g].snapshot = reader[r].snapshot
        BY <2>1 DEF g
      <3>2. gen[g].rows[d].content = content[gen[g].snapshot][d]
        BY ONLY <2>3, <2>4
      <3> QED BY ONLY <3>1, <3>2
    <2> QED BY <2>4, <2>5 DEF Row
  <1> HIDE DEF rows
  <1>5. Pairs(f) \in SUBSET (Documents \X Contents)
    BY <1>3, <1>4
  <1>6. Pairs(f) # {} => Cardinality(Pairs(f)) = Least(Limit, Cardinality(Documents))
    <2>1. SUFFICES ASSUME Pairs(f) # {}
                   PROVE Cardinality(Pairs(f)) = Least(Limit, Cardinality(Documents))
      OBVIOUS
    <2>2. DOMAIN rows = Documents /\ f \in SUBSET Documents
      BY <1>3, <1>4, <2>1
    <2>3. Cardinality(Pairs(f)) = Cardinality(f)
      BY <2>2, PairsAreAsMany
    <2> QED BY <1>3, <2>2, <2>3
  <1>7. \A h \in Pairs(f) : h[2] = content[reader[r].snapshot][h[1]]
    BY <1>3, <1>4
  <1> DEFINE pairs == Pairs(f)
  <1>8. /\ pairs \in SUBSET (Documents \X Contents)
        /\ pairs # {} => Cardinality(pairs) = Least(Limit, Cardinality(Documents))
        /\ \A h \in pairs : h[2] = content[reader[r].snapshot][h[1]]
        /\ reader' = [reader EXCEPT ![r].pc = "pinned", ![r].found = pairs]
    BY <1>2, <1>5, <1>6, <1>7
  <1> HIDE DEF pairs
  <1>9. /\ reader'[r] = [reader[r] EXCEPT !.pc = "pinned", !.found = pairs]
        /\ \A q \in Readers : q # r => reader'[q] = reader[q]
        /\ reader' = [q \in Readers |-> reader'[q]]
    BY <1>8, Types
  <1>10. /\ reader'[r] \in Run /\ reader'[r].pc = "pinned" /\ reader'[r].index = reader[r].index
         /\ reader'[r].found = pairs /\ reader'[r].snapshot = reader[r].snapshot
    BY <1>1, <1>8, <1>9 DEF Run
  <1>11. reader' \in [Readers -> Run]
    <2>1. \A q \in Readers : reader'[q] \in Run
      BY <1>9, <1>10, Types
    <2> QED BY <1>9, <2>1
  <1>12. FoundBy(r)'
    BY <1>1, <1>8, <1>10 DEF FoundBy
  <1>13. SearchedBy(r)'
    BY <1>1, <1>10 DEF SearchedBy, WhatIsSearched
  <1> QED BY <1>1, <1>9, <1>11, <1>12, <1>13, ReadKeeps
-----------------------------------------------------------------------------
LEMMA StepKeeps == IInv /\ [Next]_vars => IInv'
  <1> SUFFICES ASSUME IInv, [Next]_vars PROVE IInv'
    OBVIOUS
  <1>1. ASSUME NEW i \in Commands, Index(i) PROVE IInv'
    BY <1>1, BeginKeeps, ReadPointerKeeps, EmbedKeeps, PublishKeeps, EndKeeps DEF Index
  <1>2. ASSUME NEW r \in Readers, Search(r) PROVE IInv'
    BY <1>2, PinKeeps, SearchPointerKeeps, SearchRowsKeeps DEF Search
  <1>3. CASE MoveCurrent
    BY <1>3, MoveCurrentKeeps
  <1>4. CASE UNCHANGED vars
    <2> USE <1>4 DEF IInv, vars, database
    <2>1. TypeOK' /\ WhatIsBuilt' /\ History'
      BY Types, TypesPrimed DEF TypeOK, WhatIsBuilt, BuiltBy, History
    <2>2. WhatWasCurrent' /\ WhatIsSearched' /\ SearchIsOfSnapshot'
      BY DEF WhatWasCurrent, CurrentFor, WhatIsSearched, SearchIsOfSnapshot
    <2>3. GenerationIsComplete' /\ OneActiveUnlessOverlapping'
      BY DEF GenerationIsComplete, OneActiveUnlessOverlapping, Generations
    <2> QED BY <2>1, <2>2, <2>3
  <1> QED BY <1>1, <1>2, <1>3, <1>4 DEF Next

THEOREM Invariance == Spec => []IInv
  BY InitHolds, StepKeeps, PTL DEF Spec
-----------------------------------------------------------------------------
(* What follows.                                                           *)

(* The rows, the jobs and the searches always have their types.            *)
THEOREM TypeCorrect == Spec => []TypeOK
  BY Invariance, PTL DEF IInv

(* Every generation others can see covers its snapshot, each document with *)
(* a vector of its content there by the generation's model, however many   *)
(* generations the vectors were taken over through.                        *)
THEOREM GenerationsAreComplete == Spec => []GenerationIsComplete
  BY Invariance, PTL DEF IInv

(* Commands that do not overlap leave one active generation, the one the   *)
(* pointer names.                                                          *)
THEOREM OneGenerationIsActive == Spec => []OneActiveUnlessOverlapping
  BY Invariance, PTL DEF IInv

(* A search finds contents of the pinned snapshot only, and nothing or as  *)
(* many as its limit allows.                                               *)
THEOREM SearchesAreOfTheSnapshot == Spec => []SearchIsOfSnapshot
  BY Invariance, PTL DEF IInv
=============================================================================
