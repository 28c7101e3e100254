------------------------- MODULE AgentRuntimeProofs -------------------------
(* Theorems about AgentRuntime, for every number of messages and every     *)
(* bound on retries, cancellations, crashes and faults.                    *)
EXTENDS AgentRuntime, TLAPS

USE DEF NoMessage

LEMMA NoMessageIsNone == NoMessage \notin Messages
  BY NAssumption DEF Messages

LEMMA MoveType ==
  ASSUME NEW f \in [Messages -> Statuses], NEW S, NEW from, NEW to \in Statuses
  PROVE  Move(f, S, from, to) \in [Messages -> Statuses]
  BY DEF Move

(* A conditional UPDATE leaves alone every row that is not selected.       *)
LEMMA MoveAt ==
  ASSUME NEW f, NEW S, NEW from, NEW to, NEW k \in Messages
  PROVE  Move(f, S, from, to)[k] = IF k \in S /\ f[k] \in from THEN to ELSE f[k]
  BY DEF Move

LEMMA UpdateStatusType ==
  ASSUME TypeOK, NEW S, NEW from, NEW to \in Statuses, UpdateStatus(S, from, to)
  PROVE  run' \in [Messages -> Statuses] /\ msg' \in [Messages -> Statuses]
  BY MoveType DEF TypeOK, UpdateStatus

LEMMA PublishType ==
  ASSUME TypeOK, NEW S, NEW s \in Terminal, Publish(S, s)
  PROVE  published' \in [Messages -> SUBSET Terminal]
  BY DEF TypeOK, Publish

SpentWithinBounds ==
    spent \in [Budgets -> Nat] /\ \A b \in Budgets : spent[b] <= Bound(b)

LEMMA BoundIsNat == \A b \in Budgets : Bound(b) \in Nat
  BY BoundsAssumption DEF Bound, Budgets

LEMMA SpendType ==
  ASSUME TypeOK, NEW what \in Budgets, Spend(what)
  PROVE  SpentWithinBounds'
  BY BoundIsNat DEF TypeOK, SpentWithinBounds, Spend

(* Cancelling the current task keeps exec well formed and abandons at most *)
(* one transaction, of the message being executed.                         *)
LEMMA CancelType ==
  ASSUME TypeOK, ExecShape, NEW kept \in BOOLEAN
  PROVE  /\ CancelledTask \in [m : Messages \union {NoMessage}, pc : ExecPCs]
         /\ Abandoned(kept) \in SUBSET Jobs
  <1>1. AwaitedJob(exec.pc) \in SUBSET JobKinds
    BY DEF AwaitedJob, JobKinds
  <1>2. Live => exec.m \in Messages
    BY DEF TypeOK, ExecShape, Live
  <1>3. Abandoned(kept) \in SUBSET Jobs
    BY <1>1, <1>2 DEF Abandoned, Jobs
  <1>4. CancelledTask \in [m : Messages \union {NoMessage}, pc : ExecPCs]
    BY DEF CancelledTask, AfterCancel, TypeOK, ExecPCs, Live
  <1> QED BY <1>3, <1>4
-----------------------------------------------------------------------------
IInv == TypeOK /\ RunMessageAgree /\ ExecutingIsRunning /\ Ownership

THEOREM InitIInv == Init => IInv
  <1> SUFFICES ASSUME Init PROVE IInv
    OBVIOUS
  <1> USE NAssumption, BoundsAssumption
  <1>0. SpentWithinBounds
    BY BoundIsNat DEF Init, SpentWithinBounds
  <1>1. TypeOK
    BY <1>0 DEF Init, TypeOK, Statuses, Unlocked, Idle, EnqPCs, ExecPCs,
                SpentWithinBounds
  <1>2. RunMessageAgree /\ ExecutingIsRunning
    BY DEF Init, RunMessageAgree, ExecutingIsRunning, Idle, Working
  <1>3. Ownership
    BY DEF Init, Ownership, JobsOwnNothing, RecoverOwnsNothing, ExecShape, Idle, Unlocked
  <1> QED BY <1>1, <1>2, <1>3 DEF IInv
-----------------------------------------------------------------------------
(* Type correctness of each step.                                          *)

LEMMA HeadTail ==
  ASSUME NEW q \in Seq(Messages), q # <<>>
  PROVE  Head(q) \in Messages /\ Tail(q) \in Seq(Messages) /\ Len(Tail(q)) <= Len(q)
  OBVIOUS

EnqTypes == [pc : EnqPCs, on : Messages \union {NoMessage}, sel : SUBSET Messages]

LEMMA UnlockedType == Unlocked \in EnqTypes
  BY DEF Unlocked, EnqPCs, EnqTypes

LEMMA LoseProcessType ==
  ASSUME TypeOK, LoseProcess, run' \in [Messages -> Statuses],
         msg' \in [Messages -> Statuses], SpentWithinBounds'
  PROVE  TypeOK'
  BY NAssumption DEF TypeOK, LoseProcess, SpentWithinBounds, Unlocked, Idle, EnqPCs, ExecPCs

LEMMA HttpType == TypeOK /\ ExecShape /\ Http => TypeOK'
  <1> SUFFICES ASSUME TypeOK, ExecShape, Http PROVE TypeOK'
    OBVIOUS
  <1>1. ASSUME NEW m \in Messages, CreateMessage(m) PROVE TypeOK'
    BY <1>1 DEF TypeOK, CreateMessage, Statuses, Active
  <1>2. ASSUME NEW m \in Messages, RetryMessage(m) PROVE TypeOK'
    <2>1. SpentWithinBounds'
      BY <1>2, SpendType DEF RetryMessage, Budgets
    <2> QED BY <1>2, <2>1 DEF TypeOK, RetryMessage, Statuses, Active, SpentWithinBounds
  <1>3. ASSUME NEW m \in Messages, NEW kept \in BOOLEAN, CancelMessage(m, kept)
        PROVE  TypeOK'
    <2>1. SpentWithinBounds'
      BY <1>3, SpendType DEF CancelMessage, Budgets
    <2>2. run' \in [Messages -> Statuses] /\ msg' \in [Messages -> Statuses]
      BY <1>3, UpdateStatusType DEF CancelMessage, RequestCancel, Statuses, Active
    <2>3. jobs' \in SUBSET Jobs /\ exec' \in [m : Messages \union {NoMessage}, pc : ExecPCs]
      BY <1>3, CancelType DEF CancelMessage, Jobs, JobKinds, TypeOK
    <2> QED BY <1>3, <2>1, <2>2, <2>3
            DEF TypeOK, CancelMessage, RequestCancel, SpentWithinBounds
  <1> QED BY <1>1, <1>2, <1>3 DEF Http

LEMMA EnqueueType == TypeOK /\ ExecShape /\ Enqueue => TypeOK'
  <1> SUFFICES ASSUME TypeOK, ExecShape, Enqueue PROVE TypeOK'
    OBVIOUS
  <1>1. ASSUME NEW kept \in BOOLEAN, EnqueueStart(kept) PROVE TypeOK'
    BY <1>1, CancelType DEF TypeOK, EnqueueStart, EnqPCs
  <1>2. CASE EnqueueAwaited
    BY <1>2 DEF TypeOK, EnqueueAwaited, EnqPCs
  <1>3. CASE CancelQueuedSelect
    BY <1>3 DEF TypeOK, CancelQueuedSelect, EnqPCs
  <1>4. CASE CancelQueuedUpdate
    BY <1>4, UpdateStatusType DEF TypeOK, CancelQueuedUpdate, EnqPCs, Statuses, Terminal
  <1>5. CASE EnqueuePut
    <2>1. Enqueued \in Messages /\ Tail(waiters) \in Seq(Messages)
      BY <1>5, HeadTail DEF EnqueuePut, Locked, Enqueued, TypeOK
    <2>2. published' \in [Messages -> SUBSET Terminal]
      BY <1>5, PublishType DEF EnqueuePut, Terminal
    <2>3. queue' \in Seq(Messages) /\ Len(queue') <= 1
      BY <1>5, <2>1 DEF EnqueuePut
    <2> QED BY <1>5, <2>1, <2>2, <2>3, NAssumption DEF TypeOK, EnqueuePut, Unlocked, EnqPCs
  <1> QED BY <1>1, <1>2, <1>3, <1>4, <1>5 DEF Enqueue

LEMMA ConsumeType == TypeOK /\ Consume => TypeOK'
  <1> SUFFICES ASSUME TypeOK, Consume PROVE TypeOK'
    OBVIOUS
  <1>1. CASE ConsumerTake
    <2>1. /\ Head(queue) \in Messages
          /\ Tail(queue) \in Seq(Messages) /\ Len(Tail(queue)) <= 1
      BY <1>1, HeadTail DEF ConsumerTake, TypeOK
    <2> QED BY <1>1, <2>1 DEF TypeOK, ConsumerTake, ExecPCs
  <1>2. CASE ConsumerResume
    BY <1>2 DEF TypeOK, ConsumerResume, Idle, ExecPCs
  <1> QED BY <1>1, <1>2 DEF Consume

LEMMA ExecGoesToType ==
  ASSUME TypeOK, ExecShape, NEW pc \in ExecPCs, ExecGoesTo(pc),
         run' \in [Messages -> Statuses], msg' \in [Messages -> Statuses],
         answers' \in [Messages -> Nat],
         published' \in [Messages -> SUBSET Terminal], SpentWithinBounds'
  PROVE  TypeOK'
  <1>1. exec' \in [m : Messages \union {NoMessage}, pc : ExecPCs]
    BY DEF TypeOK, ExecGoesTo
  <1> QED BY <1>1 DEF TypeOK, ExecGoesTo, SpentWithinBounds

LEMMA CompleteRunType ==
  ASSUME TypeOK, NEW m \in Messages, CompleteRun(m)
  PROVE  /\ run' \in [Messages -> Statuses] /\ msg' \in [Messages -> Statuses]
         /\ answers' \in [Messages -> Nat]
  <1>1. run' \in [Messages -> Statuses] /\ msg' \in [Messages -> Statuses]
    BY UpdateStatusType DEF CompleteRun, Statuses, Terminal
  <1>2. answers' \in [Messages -> Nat]
    BY DEF TypeOK, CompleteRun
  <1> QED BY <1>1, <1>2

LEMMA FinishRunType ==
  ASSUME TypeOK, NEW m, NEW s \in Terminal, FinishRun(m, s)
  PROVE  run' \in [Messages -> Statuses] /\ msg' \in [Messages -> Statuses]
  BY UpdateStatusType DEF FinishRun, Statuses

LEMMA MarkRunningType ==
  ASSUME TypeOK, NEW m, MarkRunning(m)
  PROVE  run' \in [Messages -> Statuses] /\ msg' \in [Messages -> Statuses]
  BY UpdateStatusType DEF MarkRunning, Statuses, Active

LEMMA ExecuteType == TypeOK /\ ExecShape /\ Execute => TypeOK'
  <1> SUFFICES ASSUME TypeOK, ExecShape, Execute PROVE TypeOK'
    OBVIOUS
  <1>1. CASE ExecStart \/ ExecHistory \/ LlmAnswers \/ LlmFails
    BY <1>1 DEF TypeOK, ExecStart, ExecHistory, LlmAnswers, LlmFails, ExecGoesTo, ExecPCs
  <1>2. CASE ExecMark
    <2>1. run' \in [Messages -> Statuses] /\ msg' \in [Messages -> Statuses]
      BY <1>2, MarkRunningType DEF ExecMark
    <2> QED BY <1>2, <2>1 DEF TypeOK, ExecMark, ExecGoesTo, ExecPCs
  <1>3. CASE ExecComplete
    <2>1. published' \in [Messages -> SUBSET Terminal]
      BY <1>3, PublishType DEF ExecComplete, Terminal
    <2>2. CompleteRun(exec.m) /\ exec.m \in Messages
      BY <1>3 DEF ExecComplete, ExecAt, ExecShape, TypeOK
    <2> QED BY <1>3, <2>1, <2>2, CompleteRunType, ExecGoesToType
            DEF ExecComplete, ExecPCs, SpentWithinBounds, TypeOK
  <1>4. ASSUME NEW pc, NEW s \in Terminal, ExecFinish(pc, s) PROVE TypeOK'
    <2>1. published' \in [Messages -> SUBSET Terminal]
      BY <1>4, PublishType DEF ExecFinish
    <2>2. run' \in [Messages -> Statuses] /\ msg' \in [Messages -> Statuses]
      BY <1>4, FinishRunType DEF ExecFinish
    <2> QED BY <1>4, <2>1, <2>2, ExecGoesToType DEF ExecFinish, ExecPCs, SpentWithinBounds, TypeOK
  <1>5. CASE ExecCancel \/ ExecFail
    BY <1>4, <1>5 DEF ExecCancel, ExecFail, Terminal
  <1> QED BY <1>1, <1>2, <1>3, <1>5 DEF Execute

LEMMA ThreadsType == TypeOK /\ Threads => TypeOK'
  <1> SUFFICES ASSUME TypeOK, NEW j \in jobs, ThreadCommits(j) PROVE TypeOK'
    BY DEF Threads
  <1> DEFINE Rows == /\ run' \in [Messages -> Statuses]
                     /\ msg' \in [Messages -> Statuses]
                     /\ answers' \in [Messages -> Nat]
                     /\ published' \in [Messages -> SUBSET Terminal]
  <1>1. ASSUME MarkRunning(j.m) /\ UNCHANGED <<answers, published>>
        PROVE  Rows
    BY <1>1, MarkRunningType DEF TypeOK
  <1>2. ASSUME CompleteRun(j.m) /\ UNCHANGED published
        PROVE  Rows
    BY <1>2, CompleteRunType DEF TypeOK, Jobs
  <1>3. ASSUME FinishRun(j.m, "cancelled") /\ UNCHANGED <<answers, published>>
        PROVE  Rows
    BY <1>3, FinishRunType DEF TypeOK, Terminal
  <1>4. ASSUME FinishRun(j.m, "failed") /\ UNCHANGED <<answers, published>>
        PROVE  Rows
    BY <1>4, FinishRunType DEF TypeOK, Terminal
  <1>5. ASSUME FinishRun(j.m, "cancelled") /\ Publish({j.m}, "cancelled") /\ UNCHANGED answers
        PROVE  Rows
    BY <1>5, FinishRunType, PublishType DEF TypeOK, Terminal
  <1>6. ASSUME NEW S, CancelQueuedMessage(j.m), Publish(S, "cancelled"), UNCHANGED answers
        PROVE  Rows
    BY <1>6, UpdateStatusType, PublishType DEF TypeOK, CancelQueuedMessage, Terminal, Statuses
  <1>7. Rows
    BY <1>1, <1>2, <1>3, <1>4, <1>5, <1>6 DEF ThreadCommits
  <1> QED BY <1>7 DEF TypeOK, ThreadCommits

LEMMA FaultsType == TypeOK /\ ExecShape /\ Faults => TypeOK'
  <1> SUFFICES ASSUME TypeOK, ExecShape, Faults PROVE TypeOK'
    OBVIOUS
  <1>1. SpentWithinBounds'
    BY SpendType DEF Faults, CompleteRaises, ExecRaises, ConsumerRaises,
                     CancelQueuedRaises, ThreadRaises, Fault, Budgets
  <1> USE <1>1 DEF SpentWithinBounds
  <1>2. CASE CompleteRaises
    BY <1>2 DEF TypeOK, CompleteRaises, ExecGoesTo, ExecPCs
  <1>3. CASE ConsumerRaises
    BY <1>3, HeadTail DEF TypeOK, ConsumerRaises, db
  <1>4. ASSUME NEW j \in jobs, ThreadRaises(j) PROVE TypeOK'
    BY <1>4 DEF TypeOK, ThreadRaises, db
  <1>5. CASE CancelQueuedRaises
    <2>1. CASE mode = "starting"
      BY <1>5, <2>1, LoseProcessType DEF CancelQueuedRaises, EnqueueFails, TypeOK
    <2>2. CASE mode # "starting"
      <3>1. Tail(waiters) \in Seq(Messages)
        BY <1>5, HeadTail DEF CancelQueuedRaises, Locked, TypeOK
      <3> QED BY <1>5, <2>2, <3>1, UnlockedType
              DEF CancelQueuedRaises, EnqueueFails, TypeOK, EnqTypes
    <2> QED BY <2>1, <2>2
  <1>6. CASE ExecRaises
    <2>1. /\ exec' \in [m : Messages \union {NoMessage}, pc : ExecPCs]
          /\ consumer' \in {"get", "exec", "off"}
          /\ run' = run /\ msg' = msg
      BY <1>6 DEF ExecRaises, Idle, ExecPCs
    <2>2. CASE LoseProcess
      BY <2>1, <2>2, LoseProcessType DEF TypeOK
    <2>3. CASE waiters # <<>> /\ EnqueueFails /\ mode # "starting"
      <3>1. Tail(waiters) \in Seq(Messages)
        BY <2>3, HeadTail DEF TypeOK
      <3> QED BY <2>1, <2>3, <3>1, UnlockedType DEF EnqueueFails, TypeOK, EnqTypes
    <2>4. CASE UNCHANGED <<mode, recover, waiters, enq, queue, jobs, answers, asked, published>>
      BY <2>1, <2>4 DEF TypeOK
    <2> QED BY <1>6, <2>2, <2>3, <2>4 DEF ExecRaises, EnqueueFails
  <1> QED BY <1>2, <1>3, <1>4, <1>5, <1>6 DEF Faults

LEMMA LifespanType == TypeOK /\ ExecShape /\ Lifespan => TypeOK'
  <1> SUFFICES ASSUME TypeOK, ExecShape, Lifespan PROVE TypeOK'
    OBVIOUS
  <1>1. CASE Crash
    BY <1>1, SpendType, LoseProcessType DEF Crash, Budgets, TypeOK
  <1>2. ASSUME NEW m \in Messages, CrashInCreateMessage(m) PROVE TypeOK'
    <2>1. SpentWithinBounds'
      BY <1>2, SpendType DEF CrashInCreateMessage, Budgets
    <2>2. run' \in [Messages -> Statuses] /\ msg' \in [Messages -> Statuses]
      BY <1>2 DEF CrashInCreateMessage, TypeOK, Statuses, Active
    <2> QED BY <1>2, <2>1, <2>2, LoseProcessType DEF CrashInCreateMessage
  <1>3. ASSUME NEW kept \in BOOLEAN, Stop(kept) PROVE TypeOK'
    <2>1. SpentWithinBounds'
      BY <1>3, SpendType DEF Stop, Budgets
    <2> QED BY <1>3, <2>1, CancelType DEF TypeOK, Stop, SpentWithinBounds
  <1>4. ASSUME NEW kept \in BOOLEAN, StopTimesOut(kept) PROVE TypeOK'
    BY <1>4, CancelType DEF TypeOK, StopTimesOut, db
  <1>5. CASE Exit
    BY <1>5, LoseProcessType DEF Exit, TypeOK, SpentWithinBounds
  <1>6. CASE Restart
    BY <1>6 DEF TypeOK, Restart
  <1>7. ASSUME NEW m \in Messages, EnqueueExisting(m) PROVE TypeOK'
    <2>1. run' \in [Messages -> Statuses] /\ msg' \in [Messages -> Statuses]
      BY <1>7, UpdateStatusType DEF EnqueueExisting, Statuses, Active
    <2> QED BY <1>7, <2>1 DEF TypeOK, EnqueueExisting
  <1>8. CASE Started
    BY <1>8 DEF TypeOK, Started, db, process
  <1> QED BY <1>1, <1>2, <1>3, <1>4, <1>5, <1>6, <1>7, <1>8 DEF Lifespan

LEMMA TypeStep == IInv /\ [Next]_vars => TypeOK'
  <1>1. TypeOK /\ UNCHANGED vars => TypeOK'
    BY DEF TypeOK, vars
  <1> QED BY <1>1, HttpType, EnqueueType, ConsumeType, ExecuteType, ThreadsType,
             FaultsType, LifespanType DEF IInv, Ownership, Next
-----------------------------------------------------------------------------
(* The two rows of a message agree.                                        *)

LEMMA UpdateStatusAgree ==
  ASSUME TypeOK, RunMessageAgree, NEW S, NEW from, NEW to \in Active \union Terminal,
         from \subseteq Active \union Terminal,
         \A m \in Messages : m \in S => run[m] # "none",
         UpdateStatus(S, from, to)
  PROVE  RunMessageAgree'
  <1> SUFFICES ASSUME NEW m \in Messages
               PROVE  IF run'[m] = "none" THEN msg'[m] \in {"none", "queued"}
                      ELSE msg'[m] = run'[m]
    BY DEF RunMessageAgree
  <1>1. /\ run'[m] = IF m \in S /\ run[m] \in from THEN to ELSE run[m]
        /\ msg'[m] = IF m \in S /\ msg[m] \in from THEN to ELSE msg[m]
    BY MoveAt DEF UpdateStatus
  <1> QED BY <1>1 DEF RunMessageAgree, Active, Terminal

LEMMA MarkRunningAgree ==
  ASSUME TypeOK, RunMessageAgree, NEW m, MarkRunning(m)
  PROVE  RunMessageAgree'
  BY UpdateStatusAgree DEF MarkRunning, Startable, Active, Terminal

LEMMA CompleteRunAgree ==
  ASSUME TypeOK, RunMessageAgree, NEW m, run[m] # "none", CompleteRun(m)
  PROVE  RunMessageAgree'
  BY UpdateStatusAgree DEF CompleteRun, Active, Terminal

LEMMA FinishRunAgree ==
  ASSUME TypeOK, RunMessageAgree, NEW m, run[m] # "none", NEW s \in Terminal,
         FinishRun(m, s)
  PROVE  RunMessageAgree'
  BY UpdateStatusAgree DEF FinishRun

LEMMA ThreadCommitsAgree ==
  ASSUME IInv, NEW j \in jobs, ThreadCommits(j)
  PROVE  RunMessageAgree'
  <1> USE DEF IInv
  <1>1. j.kind # "mark_running" => run[j.m] # "none"
    BY DEF Ownership, JobsOwnNothing
  <1>2. CASE MarkRunning(j.m)
    BY <1>2, MarkRunningAgree
  <1>3. CASE j.kind = "complete" /\ CompleteRun(j.m)
    BY <1>1, <1>3, CompleteRunAgree
  <1>4. ASSUME NEW s \in Terminal, FinishRun(j.m, s), j.kind # "mark_running"
        PROVE  RunMessageAgree'
    BY <1>1, <1>4, FinishRunAgree
  <1>5. CASE j.kind = "cancel_queued_message" /\ CancelQueuedMessage(j.m)
    BY <1>1, <1>5, UpdateStatusAgree DEF CancelQueuedMessage, Active, Terminal
  <1> QED BY <1>2, <1>3, <1>4, <1>5 DEF ThreadCommits, Terminal

LEMMA AgreeStep == IInv /\ [Next]_vars => RunMessageAgree'
  <1> SUFFICES ASSUME IInv, [Next]_vars PROVE RunMessageAgree'
    OBVIOUS
  <1> USE DEF IInv
  <1>0. ASSUME UNCHANGED <<run, msg>> PROVE RunMessageAgree'
    BY <1>0 DEF RunMessageAgree
  <1>1. ASSUME NEW m \in Messages, CreateMessage(m) \/ CrashInCreateMessage(m)
        PROVE  RunMessageAgree'
    BY <1>1 DEF CreateMessage, CrashInCreateMessage, RunMessageAgree, TypeOK
  <1>2. ASSUME NEW m \in Messages, RetryMessage(m) PROVE RunMessageAgree'
    BY <1>2 DEF RetryMessage, RunMessageAgree, TypeOK
  <1>3. ASSUME NEW m \in Messages, NEW kept \in BOOLEAN, CancelMessage(m, kept)
        PROVE  RunMessageAgree'
    BY <1>3, UpdateStatusAgree DEF CancelMessage, RequestCancel, Active
  <1>4. CASE Enqueue
    <2>1. CASE CancelQueuedUpdate
      BY <2>1, UpdateStatusAgree DEF CancelQueuedUpdate, Ownership, ExecShape, Active, Terminal
    <2> QED BY <1>0, <1>4, <2>1
            DEF Enqueue, EnqueueStart, EnqueueAwaited, CancelQueuedSelect, EnqueuePut
  <1>5. CASE Consume
    BY <1>0, <1>5 DEF Consume, ConsumerTake, ConsumerResume
  <1>6. CASE Execute
    <2>1. exec.pc # "none" => run[exec.m] # "none"
      BY DEF Ownership, ExecShape
    <2>2. CASE ExecMark
      BY <2>2, MarkRunningAgree DEF ExecMark
    <2>3. CASE ExecComplete
      BY <2>1, <2>3, CompleteRunAgree DEF ExecComplete, ExecAt
    <2>4. CASE ExecCancel
      BY <2>1, <2>4, FinishRunAgree DEF ExecCancel, ExecFinish, ExecAt, Terminal
    <2>5. CASE ExecFail
      BY <2>1, <2>5, FinishRunAgree DEF ExecFail, ExecFinish, ExecAt, Terminal
    <2> QED BY <1>0, <1>6, <2>2, <2>3, <2>4, <2>5
            DEF Execute, ExecStart, ExecHistory, LlmAnswers, LlmFails
  <1>7. CASE Threads
    BY <1>7, ThreadCommitsAgree DEF Threads
  <1>8. CASE Faults
    BY <1>0, <1>8 DEF Faults, CompleteRaises, ExecRaises, ConsumerRaises,
                      CancelQueuedRaises, ThreadRaises, db
  <1>9. CASE Lifespan
    <2>1. ASSUME NEW m \in Messages, EnqueueExisting(m) PROVE RunMessageAgree'
      BY <2>1, UpdateStatusAgree
         DEF EnqueueExisting, Ownership, RecoverOwnsNothing, Active, Terminal
    <2> QED BY <1>0, <1>1, <1>9, <2>1
            DEF Lifespan, Crash, Stop, StopTimesOut, Exit, Restart, Started, db
  <1>10. CASE UNCHANGED vars
    BY <1>0, <1>10 DEF vars
  <1> QED BY <1>1, <1>2, <1>3, <1>4, <1>5, <1>6, <1>7, <1>8, <1>9, <1>10 DEF Next, Http
-----------------------------------------------------------------------------
(* The run that is being executed is running.                              *)

LEMMA CancelledTaskIdles ==
  ASSUME TypeOK
  PROVE  CancelledTask.pc \in {"none", "cancelling", "done"} /\ CancelledTask.m = exec.m
  BY DEF CancelledTask, Live, AfterCancel, TypeOK

LEMMA RunAt ==
  ASSUME NEW S, NEW from, NEW to, UpdateStatus(S, from, to), NEW k \in Messages
  PROVE  run'[k] = IF k \in S /\ run[k] \in from THEN to ELSE run[k]
  BY MoveAt DEF UpdateStatus

LEMMA MarkRunningAt ==
  ASSUME NEW m, MarkRunning(m), NEW k \in Messages
  PROVE  run'[k] = IF k = m /\ Startable(m) THEN "running" ELSE run[k]
  BY RunAt DEF MarkRunning, Startable

(* No transaction of an unattended thread moves a run that is executing.   *)
LEMMA ThreadsSpareWorking ==
  ASSUME IInv, NEW j \in jobs, ThreadCommits(j), NEW k \in Messages,
         run[k] = "running", j.m = k => exec.m = k /\ exec.pc \in Working
  PROVE  run'[k] = "running"
  <1> USE DEF IInv
  <1>1. CASE MarkRunning(j.m)
    BY <1>1, MarkRunningAt
  <1>2. CASE j.kind # "mark_running" /\ j.m # k
    BY <1>2, RunAt DEF ThreadCommits, CompleteRun, FinishRun, CancelQueuedMessage
  <1>3. CASE j.kind # "mark_running" /\ j.m = k
    BY <1>3 DEF Ownership, JobsOwnNothing
  <1> QED BY <1>1, <1>2, <1>3 DEF ThreadCommits

LEMMA ExecutingStep == IInv /\ [Next]_vars => ExecutingIsRunning'
  <1> SUFFICES ASSUME IInv, [Next]_vars PROVE ExecutingIsRunning'
    OBVIOUS
  <1> USE DEF IInv
  <1>a. exec.pc \in Working => exec.m \in Messages
    BY DEF TypeOK, Ownership, ExecShape, Working
  <1>b. ASSUME exec' = exec, run' = run PROVE ExecutingIsRunning'
    BY <1>b DEF ExecutingIsRunning
  <1>c. ASSUME exec'.pc \notin Working PROVE ExecutingIsRunning'
    BY <1>c DEF ExecutingIsRunning
  <1>d. Idle.pc \notin Working
    BY DEF Idle, Working
  <1>1. ASSUME NEW m \in Messages, CreateMessage(m) PROVE ExecutingIsRunning'
    <2>1. run[m] = "none"
      BY <1>1 DEF CreateMessage, RunMessageAgree
    <2> QED BY <1>1, <1>a, <2>1 DEF CreateMessage, ExecutingIsRunning, TypeOK
  <1>2. ASSUME NEW m \in Messages, RetryMessage(m) PROVE ExecutingIsRunning'
    BY <1>2, <1>a DEF RetryMessage, ExecutingIsRunning, TypeOK
  <1>3. ASSUME NEW m \in Messages, NEW kept \in BOOLEAN, CancelMessage(m, kept)
        PROVE  ExecutingIsRunning'
    <2>1. CASE exec.m = m
      BY <1>3, <1>c, <2>1, CancelledTaskIdles DEF CancelMessage, Working
    <2>2. CASE exec.m # m
      BY <1>3, <1>a, <2>2, RunAt DEF CancelMessage, RequestCancel, ExecutingIsRunning
    <2> QED BY <2>1, <2>2
  <1>4. CASE Enqueue
    <2>1. ASSUME NEW kept \in BOOLEAN, EnqueueStart(kept) PROVE ExecutingIsRunning'
      BY <1>c, <2>1, CancelledTaskIdles DEF EnqueueStart, Working
    <2>2. CASE CancelQueuedUpdate
      BY <1>a, <2>2, RunAt DEF CancelQueuedUpdate, ExecutingIsRunning
    <2> QED BY <1>b, <1>4, <2>1, <2>2
            DEF Enqueue, EnqueueAwaited, CancelQueuedSelect, EnqueuePut
  <1>5. CASE Consume
    <2>1. CASE ConsumerTake
      BY <2>1, <1>b, <1>c DEF ConsumerTake, Working
    <2>2. CASE ConsumerResume
      BY <2>2, <1>c, <1>d DEF ConsumerResume
    <2> QED BY <1>5, <2>1, <2>2 DEF Consume
  <1>6. CASE Execute
    <2>1. CASE ExecMark
      <3>1. exec.m \in Messages
        BY <2>1 DEF ExecMark, ExecAt, TypeOK, Ownership, ExecShape
      <3> QED BY <2>1, <3>1, MarkRunningAt
              DEF ExecMark, ExecGoesTo, ExecutingIsRunning, TypeOK, Working
    <2>2. CASE ExecStart \/ ExecComplete \/ ExecCancel \/ ExecFail
      BY <2>2, <1>c DEF ExecStart, ExecComplete, ExecCancel, ExecFail, ExecFinish,
                        ExecGoesTo, TypeOK, Working
    <2>3. CASE ExecHistory \/ LlmAnswers \/ LlmFails
      BY <2>3 DEF ExecHistory, LlmAnswers, LlmFails, ExecAt, ExecGoesTo,
                  ExecutingIsRunning, TypeOK, Working
    <2> QED BY <1>6, <2>1, <2>2, <2>3 DEF Execute
  <1>7. CASE Threads
    <2> SUFFICES ASSUME NEW j \in jobs, ThreadCommits(j) PROVE ExecutingIsRunning'
      BY <1>7 DEF Threads
    <2>1. exec' = exec
      BY DEF ThreadCommits
    <2>2. exec.pc \in Working => run'[exec.m] = "running"
      BY <1>a, ThreadsSpareWorking DEF ExecutingIsRunning
    <2> QED BY <2>1, <2>2 DEF ExecutingIsRunning
  <1>8. CASE Faults
    <2>1. CASE CompleteRaises
      BY <2>1 DEF CompleteRaises, ExecAt, ExecGoesTo, ExecutingIsRunning, TypeOK, Working
    <2>2. CASE ExecRaises
      BY <2>2, <1>c, <1>d DEF ExecRaises
    <2>3. CASE CancelQueuedRaises
      BY <2>3, <1>b, <1>c, <1>d DEF CancelQueuedRaises, EnqueueFails, LoseProcess
    <2> QED BY <1>b, <1>8, <2>1, <2>2, <2>3 DEF Faults, ConsumerRaises, ThreadRaises, db
  <1>9. CASE Lifespan
    <2>1. CASE LoseProcess
      BY <2>1, <1>c, <1>d DEF LoseProcess
    <2>2. ASSUME NEW kept \in BOOLEAN, Stop(kept) \/ StopTimesOut(kept)
          PROVE  ExecutingIsRunning'
      BY <1>c, <2>2, CancelledTaskIdles DEF Stop, StopTimesOut, Working
    <2>3. ASSUME NEW m \in Messages, EnqueueExisting(m) PROVE ExecutingIsRunning'
      BY <2>3, <1>a, RunAt
         DEF EnqueueExisting, ExecutingIsRunning, Ownership, RecoverOwnsNothing
    <2> QED BY <1>b, <1>9, <2>1, <2>2, <2>3
            DEF Lifespan, Crash, CrashInCreateMessage, Exit, Restart, Started, db, process
  <1>10. CASE UNCHANGED vars
    BY <1>b, <1>10 DEF vars
  <1> QED BY <1>1, <1>2, <1>3, <1>4, <1>5, <1>6, <1>7, <1>8, <1>9, <1>10 DEF Next, Http
-----------------------------------------------------------------------------
(* Nobody but its task writes to an executing run.                         *)

(* A job that is left behind is of the executing message, which is neither *)
(* queued nor, once its task is cancelled, executing.                      *)
LEMMA AbandonedOwnNothing ==
  ASSUME IInv, NEW kept \in BOOLEAN, NEW j \in Abandoned(kept)
  PROVE  /\ j.m = exec.m
         /\ j.kind \in {"mark_running", "complete", "cancel", "fail"}
         /\ exec.pc # "none"
         /\ j.kind # "mark_running" => run[exec.m] \notin {"none", "queued"}
  <1> USE DEF IInv
  <1>1. Live /\ j \in [kind : AwaitedJob(exec.pc), m : {exec.m}]
    BY DEF Abandoned
  <1>2. CASE exec.pc \in {"completing", "failing"}
    BY <1>1, <1>2 DEF AwaitedJob, ExecutingIsRunning, Working
  <1>3. CASE exec.pc = "cancelling"
    BY <1>1, <1>3 DEF AwaitedJob, Ownership, ExecShape
  <1>4. CASE exec.pc \notin {"completing", "failing", "cancelling"}
    BY <1>1, <1>4 DEF AwaitedJob, Live
  <1> QED BY <1>2, <1>3, <1>4

OwnsNothing(j) ==
    /\ run[j.m] \notin {"none", "queued"}
    /\ ~ (exec.m = j.m /\ exec.pc \in Working)
    /\ j.kind \in {"mark_cancelled", "cancel_queued_message"} => run[j.m] # "running"

LEMMA JobsOwnNothingDef ==
  JobsOwnNothing <=> \A j \in jobs : j.kind # "mark_running" => OwnsNothing(j)
  BY DEF JobsOwnNothing, OwnsNothing

(* What an update may do to the run of a job that owns nothing.            *)
LEMMA OwnsNothingKept ==
  ASSUME NEW j, OwnsNothing(j),
         run'[j.m] = run[j.m] \/ run'[j.m] \in {"cancelling"} \union Terminal,
         exec' = exec \/ exec'.pc \notin Working
  PROVE  OwnsNothing(j)'
  BY DEF OwnsNothing, Terminal

LEMMA ThreadCommitsMoves ==
  ASSUME IInv, NEW j \in jobs, ThreadCommits(j), NEW k \in Messages,
         run[k] \notin {"none", "queued"}
  PROVE  run'[k] = run[k] \/ run'[k] \in Terminal
  <1>1. CASE MarkRunning(j.m)
    BY <1>1, MarkRunningAt DEF Startable
  <1>2. CASE ~ MarkRunning(j.m)
    BY <1>2, RunAt DEF ThreadCommits, CompleteRun, FinishRun, CancelQueuedMessage, Terminal
  <1> QED BY <1>1, <1>2

LEMMA JobsStep == IInv /\ [Next]_vars => JobsOwnNothing'
  <1> SUFFICES ASSUME IInv, [Next]_vars, NEW j \in jobs', j.kind # "mark_running"
               PROVE  OwnsNothing(j)'
    BY DEF JobsOwnNothing, OwnsNothing
  <1> USE DEF IInv
  <1>a. j \in jobs => OwnsNothing(j) /\ j.m \in Messages
    BY JobsOwnNothingDef DEF Ownership, TypeOK, Jobs
  <1>b. ASSUME exec' = exec \/ exec'.pc \notin Working, run' = run, jobs' \subseteq jobs
        PROVE  OwnsNothing(j)'
    BY <1>a, <1>b, OwnsNothingKept
  <1>c. Idle.pc \notin Working
    BY DEF Idle, Working
  <1>d. exec.pc # "none" => exec.m \in Messages
    BY DEF TypeOK, Ownership, ExecShape
  <1>1. ASSUME NEW m \in Messages, CreateMessage(m) PROVE OwnsNothing(j)'
    <2>1. run[m] = "none"
      BY <1>1 DEF CreateMessage, RunMessageAgree
    <2> QED BY <1>1, <1>a, <2>1, OwnsNothingKept DEF CreateMessage, OwnsNothing, TypeOK
  <1>2. ASSUME NEW m \in Messages, RetryMessage(m) PROVE OwnsNothing(j)'
    BY <1>2, <1>a, OwnsNothingKept DEF RetryMessage, OwnsNothing, TypeOK
  <1>3. ASSUME NEW m \in Messages, NEW kept \in BOOLEAN, CancelMessage(m, kept)
        PROVE  OwnsNothing(j)'
    <2>1. \A k \in Messages : run'[k] = IF k = m /\ run[k] \in Active
                                       THEN "cancelling" ELSE run[k]
      BY <1>3, RunAt DEF CancelMessage, RequestCancel
    <2>2. (exec' = exec /\ exec.m # m) \/ exec' = CancelledTask
      BY <1>3 DEF CancelMessage
    <2>3. exec' = exec \/ exec'.pc \notin Working
      BY <2>2, CancelledTaskIdles DEF Working
    <2>4. CASE j \in jobs
      BY <1>a, <2>1, <2>3, <2>4, OwnsNothingKept
    <2>5. CASE j \in Abandoned(kept) /\ exec' = CancelledTask
      BY <1>d, <2>1, <2>5, AbandonedOwnNothing, CancelledTaskIdles DEF OwnsNothing, Working
    <2>6. run'[m] \in {"cancelling"} \union Terminal
      BY <1>3, <2>1 DEF CancelMessage, TypeOK, Statuses, Active
    <2>7. CASE exec.m = m
      <3>1. exec' = CancelledTask
        BY <1>3, <2>7 DEF CancelMessage
      <3>2. j \in jobs \/ j \in Abandoned(kept) \/ j.m = m
        BY <1>3, <2>7 DEF CancelMessage
      <3>3. CASE j \in Abandoned(kept)
        BY <2>5, <3>1, <3>3
      <3>4. CASE j.m = m
        BY <2>6, <3>1, <3>4, CancelledTaskIdles DEF OwnsNothing, Working, Terminal
      <3> QED BY <2>4, <3>2, <3>3, <3>4
    <2>8. CASE exec.m # m
      <3>1. exec' = exec /\ (j \in jobs \/ j.m = m)
        BY <1>3, <2>8 DEF CancelMessage
      <3> QED BY <2>4, <2>6, <2>8, <3>1 DEF OwnsNothing, Terminal
    <2> QED BY <2>7, <2>8
  <1>4. CASE Enqueue
    <2>1. ASSUME NEW kept \in BOOLEAN, EnqueueStart(kept) PROVE OwnsNothing(j)'
      <3>1. run' = run /\ exec' = CancelledTask /\ exec'.pc \notin Working
        BY <2>1, CancelledTaskIdles DEF EnqueueStart, Working
      <3>2. CASE j \in jobs
        BY <1>a, <3>1, <3>2, OwnsNothingKept
      <3>3. CASE j \in Abandoned(kept)
        BY <3>1, <3>3, AbandonedOwnNothing, CancelledTaskIdles DEF OwnsNothing
      <3> QED BY <2>1, <3>2, <3>3 DEF EnqueueStart
    <2>2. CASE CancelQueuedUpdate
      BY <1>a, <2>2, RunAt, OwnsNothingKept DEF CancelQueuedUpdate, Terminal
    <2> QED BY <1>b, <1>4, <2>1, <2>2
            DEF Enqueue, EnqueueAwaited, CancelQueuedSelect, EnqueuePut
  <1>5. CASE Consume
    <2>1. CASE ConsumerTake
      BY <2>1, <1>b DEF ConsumerTake, Working
    <2>2. CASE ConsumerResume
      BY <2>2, <1>b, <1>c DEF ConsumerResume
    <2> QED BY <1>5, <2>1, <2>2 DEF Consume
  <1>6. CASE Execute
    <2>0. jobs' = jobs
      BY <1>6 DEF Execute, ExecStart, ExecMark, ExecHistory, LlmAnswers, LlmFails,
                  ExecComplete, ExecCancel, ExecFail, ExecFinish, ExecGoesTo
    <2>1. CASE ExecMark
      <3>1. CASE Startable(exec.m)
        <4>1. j.m # exec.m
          BY <1>a, <2>0, <3>1 DEF Startable, OwnsNothing
        <4>2. /\ exec.m \in Messages /\ j.m \in Messages
              /\ MarkRunning(exec.m)
          BY <1>a, <1>d, <2>0, <2>1 DEF ExecMark, ExecAt
        <4> QED BY <1>a, <2>0, <2>1, <4>1, <4>2, MarkRunningAt
                DEF ExecMark, ExecGoesTo, OwnsNothing, TypeOK
      <3>2. CASE ~ Startable(exec.m)
        <4>1. exec'.pc \notin Working
          BY <2>1, <3>2 DEF ExecMark, ExecGoesTo, TypeOK, Working
        <4>2. run'[j.m] = run[j.m]
          BY <1>a, <2>0, <2>1, <3>2, MarkRunningAt DEF ExecMark
        <4> QED BY <1>a, <2>0, <4>1, <4>2, OwnsNothingKept
      <3> QED BY <3>1, <3>2
    <2>2. CASE ExecComplete
      <3>1. exec'.pc \notin Working
        BY <2>2 DEF ExecComplete, ExecGoesTo, TypeOK, Working
      <3>2. run'[j.m] = run[j.m] \/ run'[j.m] \in Terminal
        BY <1>a, <2>0, <2>2, RunAt DEF ExecComplete, CompleteRun, Terminal
      <3> QED BY <1>a, <2>0, <3>1, <3>2, OwnsNothingKept
    <2>3. CASE ExecCancel \/ ExecFail
      <3>1. ASSUME NEW pc, NEW s \in Terminal, ExecFinish(pc, s) PROVE OwnsNothing(j)'
        <4>1. exec'.pc \notin Working
          BY <3>1 DEF ExecFinish, ExecGoesTo, TypeOK, Working
        <4>2. run'[j.m] = run[j.m] \/ run'[j.m] \in Terminal
          BY <1>a, <2>0, <3>1, RunAt DEF ExecFinish, FinishRun
        <4> QED BY <1>a, <2>0, <4>1, <4>2, OwnsNothingKept
      <3> QED BY <2>3, <3>1 DEF ExecCancel, ExecFail, Terminal
    <2>4. CASE ExecHistory \/ LlmAnswers \/ LlmFails
      BY <1>a, <2>0, <2>4 DEF ExecHistory, LlmAnswers, LlmFails, ExecAt, ExecGoesTo,
                              OwnsNothing, TypeOK, Working
    <2>5. CASE ExecStart
      BY <1>b, <2>5 DEF ExecStart, ExecGoesTo, TypeOK, Working
    <2> QED BY <1>6, <2>1, <2>2, <2>3, <2>4, <2>5 DEF Execute
  <1>7. CASE Threads
    <2> SUFFICES ASSUME NEW i \in jobs, ThreadCommits(i) PROVE OwnsNothing(j)'
      BY <1>7 DEF Threads
    <2>1. j \in jobs /\ exec' = exec
      BY DEF ThreadCommits
    <2>2. run'[j.m] = run[j.m] \/ run'[j.m] \in Terminal
      BY <1>a, <2>1, ThreadCommitsMoves DEF OwnsNothing
    <2> QED BY <1>a, <2>1, <2>2, OwnsNothingKept
  <1>8. CASE Faults
    <2>1. CASE CompleteRaises
      BY <1>a, <2>1 DEF CompleteRaises, ExecAt, ExecGoesTo, OwnsNothing, TypeOK, Working
    <2>2. CASE ExecRaises
      BY <2>2, <1>b, <1>c DEF ExecRaises, EnqueueFails, LoseProcess
    <2>3. CASE CancelQueuedRaises
      BY <2>3, <1>b, <1>c DEF CancelQueuedRaises, EnqueueFails, LoseProcess
    <2> QED BY <1>b, <1>8, <2>1, <2>2, <2>3 DEF Faults, ConsumerRaises, ThreadRaises, db
  <1>9. CASE Lifespan
    <2>1. ASSUME LoseProcess PROVE FALSE
      BY <2>1 DEF LoseProcess
    <2>2. ASSUME NEW kept \in BOOLEAN, Stop(kept) \/ StopTimesOut(kept)
          PROVE  OwnsNothing(j)'
      <3>1. run' = run /\ exec' = CancelledTask /\ exec'.pc \notin Working
        BY <2>2, CancelledTaskIdles DEF Stop, StopTimesOut, Working, db
      <3>2. CASE j \in jobs
        BY <1>a, <3>1, <3>2, OwnsNothingKept
      <3>3. CASE j \in Abandoned(kept)
        BY <3>1, <3>3, AbandonedOwnNothing, CancelledTaskIdles DEF OwnsNothing
      <3> QED BY <2>2, <3>2, <3>3 DEF Stop, StopTimesOut
    <2>3. ASSUME NEW m \in Messages, EnqueueExisting(m) PROVE OwnsNothing(j)'
      <3>1. j \in jobs /\ j.m # m /\ exec' = exec
        BY <2>3 DEF EnqueueExisting, Ownership, RecoverOwnsNothing
      <3> QED BY <1>a, <2>3, <3>1, RunAt, OwnsNothingKept DEF EnqueueExisting
    <2> QED BY <1>b, <1>9, <2>1, <2>2, <2>3
            DEF Lifespan, Crash, CrashInCreateMessage, Exit, Restart, Started, db, process
  <1>10. CASE UNCHANGED vars
    BY <1>b, <1>10 DEF vars
  <1> QED BY <1>1, <1>2, <1>3, <1>4, <1>5, <1>6, <1>7, <1>8, <1>9, <1>10 DEF Next, Http
-----------------------------------------------------------------------------
(* What start() listed is nobody's until it enqueues it.                   *)

(* A run row is never deleted.                                             *)
LEMMA UpdateKeepsRun ==
  ASSUME NEW S, NEW from, NEW to \in Active \union Terminal, UpdateStatus(S, from, to),
         NEW k \in Messages, run[k] # "none"
  PROVE  run'[k] # "none"
  BY RunAt DEF Active, Terminal

LEMMA RunKept ==
  ASSUME IInv, [Next]_vars, NEW k \in Messages, run[k] # "none"
  PROVE  run'[k] # "none"
  <1>1. CASE Http
    <2>1. ASSUME NEW m \in Messages, CreateMessage(m) \/ RetryMessage(m)
          PROVE  run'[k] # "none"
      BY <2>1 DEF CreateMessage, RetryMessage, IInv, TypeOK
    <2>2. ASSUME NEW m \in Messages, NEW kept \in BOOLEAN, CancelMessage(m, kept)
          PROVE  run'[k] # "none"
      BY <2>2, UpdateKeepsRun DEF CancelMessage, RequestCancel, Active
    <2> QED BY <1>1, <2>1, <2>2 DEF Http
  <1>2. CASE Enqueue
    <2>1. CASE CancelQueuedUpdate
      BY <2>1, UpdateKeepsRun DEF CancelQueuedUpdate, Terminal
    <2> QED BY <1>2, <2>1
            DEF Enqueue, EnqueueStart, EnqueueAwaited, CancelQueuedSelect, EnqueuePut
  <1>3. CASE Consume
    BY <1>3 DEF Consume, ConsumerTake, ConsumerResume
  <1>4. CASE Execute
    <2>1. CASE ExecMark
      BY <2>1, UpdateKeepsRun DEF ExecMark, MarkRunning, Active
    <2>2. CASE ExecComplete
      BY <2>2, UpdateKeepsRun DEF ExecComplete, CompleteRun, Terminal
    <2>3. CASE ExecCancel \/ ExecFail
      BY <2>3, UpdateKeepsRun DEF ExecCancel, ExecFail, ExecFinish, FinishRun, Terminal
    <2> QED BY <1>4, <2>1, <2>2, <2>3
            DEF Execute, ExecStart, ExecHistory, LlmAnswers, LlmFails
  <1>5. CASE Threads
    <2> SUFFICES ASSUME NEW j \in jobs, ThreadCommits(j) PROVE run'[k] # "none"
      BY <1>5 DEF Threads
    <2>1. CASE MarkRunning(j.m)
      BY <2>1, MarkRunningAt
    <2>2. CASE ~ MarkRunning(j.m)
      BY <2>2, UpdateKeepsRun
         DEF ThreadCommits, CompleteRun, FinishRun, CancelQueuedMessage, Terminal
    <2> QED BY <2>1, <2>2
  <1>6. CASE Faults
    BY <1>6 DEF Faults, CompleteRaises, ExecRaises, ConsumerRaises,
                CancelQueuedRaises, ThreadRaises, db
  <1>7. CASE Lifespan
    <2>1. ASSUME NEW m \in Messages, EnqueueExisting(m) PROVE run'[k] # "none"
      BY <2>1, UpdateKeepsRun DEF EnqueueExisting, Active
    <2> QED BY <1>7, <2>1 DEF Lifespan, Crash, CrashInCreateMessage, Stop, StopTimesOut,
                              Exit, Restart, Started, db
  <1>8. CASE UNCHANGED vars
    BY <1>8 DEF vars
  <1> QED BY <1>1, <1>2, <1>3, <1>4, <1>5, <1>6, <1>7, <1>8 DEF Next

Spared(m) ==
    /\ mode = "starting"
    /\ run[m] # "none"
    /\ exec.m # m
    /\ \A j \in jobs : j.m # m
    /\ \A i \in DOMAIN waiters : waiters[i] # m
    /\ \A i \in DOMAIN queue : queue[i] # m

LEMMA RecoverOwnsNothingDef ==
  RecoverOwnsNothing <=> \A m \in recover : Spared(m)
  BY DEF RecoverOwnsNothing, Spared

(* Where the entries of a shortened sequence come from.                    *)
LEMMA TailFrom ==
  ASSUME NEW q \in Seq(Messages), q # <<>>, NEW m, \A i \in DOMAIN q : q[i] # m
  PROVE  Head(q) # m /\ \A i \in DOMAIN Tail(q) : Tail(q)[i] # m
  <1>1. 1 \in DOMAIN q /\ Head(q) = q[1]
    OBVIOUS
  <1>2. ASSUME NEW i \in DOMAIN Tail(q)
        PROVE  i + 1 \in DOMAIN q /\ Tail(q)[i] = q[i + 1]
    OBVIOUS
  <1> QED BY <1>1, <1>2

(* The steps that leave the process where it is, or only shorten a queue.  *)
LEMMA SparedKept ==
  ASSUME IInv, [Next]_vars, NEW m \in Messages, Spared(m), mode' = mode,
         exec'.m \in {exec.m, NoMessage},
         \A j \in jobs' : j \in jobs \/ (j.m = exec.m /\ exec.m # m),
         waiters' = waiters \/ (waiters # <<>> /\ waiters' = Tail(waiters)),
         queue' = queue \/ (queue # <<>> /\ queue' = Tail(queue))
  PROVE  Spared(m)'
  <1>1. run'[m] # "none"
    BY RunKept DEF Spared
  <1>2. exec'.m # m
    BY NoMessageIsNone DEF Spared
  <1>3. \A i \in DOMAIN waiters' : waiters'[i] # m
    BY TailFrom DEF Spared, IInv, TypeOK
  <1>4. \A i \in DOMAIN queue' : queue'[i] # m
    BY TailFrom DEF Spared, IInv, TypeOK
  <1> QED BY <1>1, <1>2, <1>3, <1>4 DEF Spared

LEMMA RecoverStep == IInv /\ [Next]_vars => RecoverOwnsNothing'
  <1> SUFFICES ASSUME IInv, [Next]_vars, NEW m \in recover'
               PROVE  Spared(m)'
    BY DEF RecoverOwnsNothing, Spared
  <1>a. m \in recover => Spared(m) /\ m \in Messages
    BY RecoverOwnsNothingDef DEF IInv, Ownership, TypeOK
  <1>b. ASSUME m \in recover, mode' = mode, exec'.m \in {exec.m, NoMessage},
               jobs' \subseteq jobs,
               waiters' = waiters \/ (waiters # <<>> /\ waiters' = Tail(waiters)),
               queue' = queue \/ (queue # <<>> /\ queue' = Tail(queue))
        PROVE  Spared(m)'
    BY <1>a, <1>b, SparedKept
  <1>c. ASSUME NEW kept \in BOOLEAN, exec' = CancelledTask,
               jobs' = jobs \union Abandoned(kept),
               m \in recover, mode' = mode, waiters' = waiters, queue' = queue
        PROVE  Spared(m)'
    <2>1. \A j \in Abandoned(kept) : j.m = exec.m
      BY DEF Abandoned
    <2>2. exec'.m = exec.m
      BY <1>c, CancelledTaskIdles DEF IInv
    <2>3. Spared(m) /\ m \in Messages /\ exec.m # m
      BY <1>a, <1>c DEF Spared
    <2>4. \A j \in jobs' : j \in jobs \/ (j.m = exec.m /\ exec.m # m)
      BY <1>c, <2>1, <2>3
    <2> QED BY <1>c, <2>2, <2>3, <2>4, SparedKept
  <1>1. CASE Http
    BY <1>1, <1>a DEF Http, CreateMessage, RetryMessage, CancelMessage, Spared
  <1>2. CASE Enqueue
    <2>1. ASSUME NEW kept \in BOOLEAN, EnqueueStart(kept) PROVE Spared(m)'
      BY <1>c, <2>1 DEF EnqueueStart
    <2>2. CASE EnqueuePut
      <3>1. Head(waiters) # m /\ \A i \in DOMAIN Tail(waiters) : Tail(waiters)[i] # m
        BY <1>a, <2>2, TailFrom DEF EnqueuePut, Locked, IInv, TypeOK, Spared
      <3>2. \A i \in DOMAIN queue' : queue'[i] # m
        BY <2>2, <3>1 DEF EnqueuePut, Enqueued
      <3> QED BY <1>a, <2>2, <3>1, <3>2 DEF EnqueuePut, Spared
    <2> QED BY <1>2, <1>b, <2>1, <2>2
            DEF Enqueue, EnqueueAwaited, CancelQueuedSelect, CancelQueuedUpdate
  <1>3. CASE Consume
    <2>1. CASE ConsumerTake
      <3>1. m \in recover /\ mode' = mode /\ run' = run /\ jobs' = jobs /\ waiters' = waiters
        BY <2>1 DEF ConsumerTake
      <3>2. Head(queue) # m /\ \A i \in DOMAIN queue' : queue'[i] # m
        BY <1>a, <2>1, TailFrom DEF ConsumerTake, IInv, TypeOK, Spared
      <3>3. exec'.m # m
        BY <1>a, <2>1, <3>2 DEF ConsumerTake, Spared
      <3> QED BY <1>a, <3>1, <3>2, <3>3 DEF Spared
    <2>2. CASE ConsumerResume
      BY <2>2, <1>b DEF ConsumerResume, Idle
    <2> QED BY <1>3, <2>1, <2>2 DEF Consume
  <1>4. CASE Execute
    <2>1. ASSUME NEW pc, ExecGoesTo(pc) PROVE Spared(m)'
      <3>1. exec'.m = exec.m
        BY <2>1 DEF ExecGoesTo, IInv, TypeOK
      <3> QED BY <1>b, <2>1, <3>1 DEF ExecGoesTo
    <2> QED BY <1>4, <2>1 DEF Execute, ExecStart, ExecMark, ExecHistory, LlmAnswers,
               LlmFails, ExecComplete, ExecCancel, ExecFail, ExecFinish
  <1>5. CASE Threads
    BY <1>5, <1>b DEF Threads, ThreadCommits
  <1>6. CASE Faults
    <2>1. CASE CompleteRaises
      <3>1. exec'.m = exec.m
        BY <2>1 DEF CompleteRaises, ExecGoesTo, IInv, TypeOK
      <3> QED BY <1>b, <2>1, <3>1 DEF CompleteRaises, ExecGoesTo
    <2>2. CASE ConsumerRaises
      BY <1>b, <2>2 DEF ConsumerRaises
    <2>3. ASSUME NEW j \in jobs, ThreadRaises(j) PROVE Spared(m)'
      BY <1>b, <2>3 DEF ThreadRaises
    <2>4. mode # "starting" => m \notin recover
      BY <1>a DEF Spared
    <2>5. CASE CancelQueuedRaises
      BY <2>4, <2>5 DEF CancelQueuedRaises, EnqueueFails, LoseProcess
    <2>6. CASE ExecRaises
      <3>1. exec'.m = NoMessage
        BY <2>6 DEF ExecRaises, Idle
      <3> QED BY <1>b, <2>4, <2>6, <3>1 DEF ExecRaises, EnqueueFails, LoseProcess
    <2> QED BY <1>6, <2>1, <2>2, <2>3, <2>5, <2>6 DEF Faults
  <1>7. CASE Lifespan
    <2>1. CASE LoseProcess
      BY <2>1 DEF LoseProcess
    <2>2. ASSUME NEW kept \in BOOLEAN, Stop(kept) PROVE Spared(m)'
      BY <1>a, <2>2 DEF Stop, Spared
    <2>3. ASSUME NEW kept \in BOOLEAN, StopTimesOut(kept) PROVE Spared(m)'
      BY <1>c, <2>3 DEF StopTimesOut
    <2>4. CASE Restart
      <3>1. exec = Idle /\ jobs = {} /\ waiters = <<>> /\ queue = <<>>
        BY <2>4 DEF Restart, IInv, Ownership, ExecShape
      <3>2. m \in Messages /\ run[m] # "none"
        BY <2>4 DEF Restart, Active
      <3> QED BY <2>4, <3>1, <3>2, NoMessageIsNone DEF Restart, Spared, Idle
    <2>5. ASSUME NEW k \in Messages, EnqueueExisting(k) PROVE Spared(m)'
      <3>1. m \in recover /\ m # k /\ waiters' = <<k>>
        BY <2>5 DEF EnqueueExisting
      <3>2. \A i \in DOMAIN waiters' : waiters'[i] # m
        BY <3>1
      <3>3. run'[m] # "none"
        BY <1>a, <3>1, RunKept DEF Spared
      <3> QED BY <1>a, <2>5, <3>1, <3>2, <3>3 DEF EnqueueExisting, Spared
    <2>6. CASE Started
      BY <2>6 DEF Started, process
    <2> QED BY <1>7, <2>1, <2>2, <2>3, <2>4, <2>5, <2>6
            DEF Lifespan, Crash, CrashInCreateMessage, Exit
  <1>8. CASE UNCHANGED vars
    BY <1>8, <1>b DEF vars
  <1> QED BY <1>1, <1>2, <1>3, <1>4, <1>5, <1>6, <1>7, <1>8 DEF Next
-----------------------------------------------------------------------------
(* Only start() returns a run to the queue.                                *)

LEMMA UpdateQueuesNothing ==
  ASSUME NEW S, NEW from, NEW to, to # "queued", UpdateStatus(S, from, to),
         NEW k \in Messages, run[k] # "queued"
  PROVE  run'[k] # "queued"
  BY RunAt

LEMMA QueuedKept ==
  ASSUME IInv, [Next]_vars, NEW k \in Messages, run[k] \notin {"none", "queued"},
         k \notin recover
  PROVE  run'[k] # "queued"
  <1>1. CASE Http
    <2>1. ASSUME NEW m \in Messages, CreateMessage(m) PROVE run'[k] # "queued"
      BY <2>1 DEF CreateMessage, IInv, TypeOK, RunMessageAgree
    <2>2. ASSUME NEW m \in Messages, RetryMessage(m) PROVE run'[k] # "queued"
      BY <2>2 DEF RetryMessage, IInv, TypeOK
    <2>3. ASSUME NEW m \in Messages, NEW kept \in BOOLEAN, CancelMessage(m, kept)
          PROVE  run'[k] # "queued"
      BY <2>3, UpdateQueuesNothing DEF CancelMessage, RequestCancel
    <2> QED BY <1>1, <2>1, <2>2, <2>3 DEF Http
  <1>2. CASE Enqueue
    <2>1. CASE CancelQueuedUpdate
      BY <2>1, UpdateQueuesNothing DEF CancelQueuedUpdate
    <2> QED BY <1>2, <2>1
            DEF Enqueue, EnqueueStart, EnqueueAwaited, CancelQueuedSelect, EnqueuePut
  <1>3. CASE Consume
    BY <1>3 DEF Consume, ConsumerTake, ConsumerResume
  <1>4. CASE Execute
    <2>1. CASE ExecMark
      BY <2>1, UpdateQueuesNothing DEF ExecMark, MarkRunning
    <2>2. CASE ExecComplete
      BY <2>2, UpdateQueuesNothing DEF ExecComplete, CompleteRun
    <2>3. CASE ExecCancel \/ ExecFail
      BY <2>3, UpdateQueuesNothing DEF ExecCancel, ExecFail, ExecFinish, FinishRun
    <2> QED BY <1>4, <2>1, <2>2, <2>3
            DEF Execute, ExecStart, ExecHistory, LlmAnswers, LlmFails
  <1>5. CASE Threads
    BY <1>5, ThreadCommitsMoves DEF Threads, Terminal
  <1>6. CASE Faults
    BY <1>6 DEF Faults, CompleteRaises, ExecRaises, ConsumerRaises,
                CancelQueuedRaises, ThreadRaises, db
  <1>7. CASE Lifespan
    <2>1. ASSUME NEW m \in Messages, EnqueueExisting(m) PROVE run'[k] # "queued"
      BY <2>1, RunAt DEF EnqueueExisting
    <2> QED BY <1>7, <2>1 DEF Lifespan, Crash, CrashInCreateMessage, Stop, StopTimesOut,
                              Exit, Restart, Started, db
  <1>8. CASE UNCHANGED vars
    BY <1>8 DEF vars
  <1> QED BY <1>1, <1>2, <1>3, <1>4, <1>5, <1>6, <1>7, <1>8 DEF Next

(* The parts of ExecShape.                                                 *)
IdleIsEmpty == exec.pc = "none" <=> exec.m = NoMessage
ExecHasRun == exec.pc # "none" => run[exec.m] # "none"
CancelsNoQueued == exec.pc = "cancelling" => run[exec.m] # "queued"
SelectedHaveRun == \A m \in enq.sel : run[m] # "none"
DownIsEmpty ==
    mode = "down" => exec = Idle /\ jobs = {} /\ waiters = <<>> /\ queue = <<>>

(* How a step changes the execution: it moves on with the same message, is *)
(* cleared, or starts with the entry the consumer takes.                   *)
Continues == exec'.m = exec.m /\ exec.pc # "none" /\ exec'.pc # "none"
Cleared == exec' = Idle
Starts ==
    /\ exec'.m \in Messages /\ exec'.pc = "fresh"
    /\ run' = run /\ run[exec'.m] = "queued"

LEMMA GoesToContinues ==
  ASSUME TypeOK, NEW from \in ExecPCs \ {"none"}, NEW pc \in ExecPCs \ {"none"},
         ExecAt(from), ExecGoesTo(pc)
  PROVE  Continues /\ exec'.pc = pc
  BY DEF TypeOK, ExecAt, ExecGoesTo, Continues

LEMMA CancelContinues ==
  ASSUME IInv, exec' = CancelledTask
  PROVE  /\ exec' = exec \/ Continues
         /\ exec'.pc = "cancelling" => run[exec.m] # "queued"
  <1>1. exec \in [m : Messages \union {NoMessage}, pc : ExecPCs]
    BY DEF IInv, TypeOK
  <1>2. exec' = exec \/ Continues
    BY <1>1 DEF CancelledTask, Live, AfterCancel, Continues
  <1>3. exec'.pc = "cancelling" =>
          exec.pc \in {"cancelling", "llm", "completing"}
    BY <1>1 DEF CancelledTask, Live, AfterCancel
  <1>4. exec.pc \in {"cancelling", "llm", "completing"} => run[exec.m] # "queued"
    BY DEF IInv, ExecutingIsRunning, Ownership, ExecShape, Working
  <1> QED BY <1>2, <1>3, <1>4

LEMMA ExecMoves ==
  ASSUME IInv, [Next]_vars
  PROVE  /\ exec' = exec \/ Continues \/ Cleared \/ Starts
         /\ exec'.pc = "cancelling" => exec.m = exec'.m /\ run[exec.m] # "queued"
  <1> DEFINE Moves ==
        /\ exec' = exec \/ Continues \/ Cleared \/ Starts
        /\ exec'.pc = "cancelling" => exec.m = exec'.m /\ run[exec.m] # "queued"
  <1> USE DEF IInv
  <1>a. ASSUME exec' = exec PROVE Moves
    BY <1>a DEF Ownership, ExecShape
  <1>b. ASSUME exec' = CancelledTask PROVE Moves
    BY <1>b, CancelContinues, CancelledTaskIdles
  <1>c. ASSUME exec' = Idle PROVE Moves
    BY <1>c DEF Cleared, Idle
  <1>d. ASSUME NEW from \in ExecPCs \ {"none"}, NEW pc \in ExecPCs \ {"none", "cancelling"},
               ExecAt(from), ExecGoesTo(pc)
        PROVE  Moves
    BY <1>d, GoesToContinues
  <1>1. CASE Http
    BY <1>1, <1>a, <1>b DEF Http, CreateMessage, RetryMessage, CancelMessage
  <1>2. CASE Enqueue
    BY <1>2, <1>a, <1>b DEF Enqueue, EnqueueStart, EnqueueAwaited, CancelQueuedSelect,
                            CancelQueuedUpdate, EnqueuePut
  <1>3. CASE Consume
    <2>1. CASE ConsumerTake
      <3>1. Head(queue) \in Messages
        BY <2>1, HeadTail DEF ConsumerTake, TypeOK
      <3>2. exec' = exec \/ (exec'.pc = "fresh" /\ Starts)
        BY <2>1, <3>1 DEF ConsumerTake, Starts
      <3> QED BY <1>a, <3>2
    <2>2. CASE ConsumerResume
      BY <2>2, <1>c DEF ConsumerResume
    <2> QED BY <1>3, <2>1, <2>2 DEF Consume
  <1>4. CASE Execute
    BY <1>4, <1>d DEF Execute, ExecStart, ExecMark, ExecHistory, LlmAnswers, LlmFails,
                      ExecComplete, ExecCancel, ExecFail, ExecFinish, ExecPCs
  <1>5. CASE Threads
    BY <1>5, <1>a DEF Threads, ThreadCommits
  <1>6. CASE Faults
    BY <1>6, <1>a, <1>c, <1>d
       DEF Faults, CompleteRaises, ExecRaises, ConsumerRaises, CancelQueuedRaises,
           ThreadRaises, EnqueueFails, LoseProcess, ExecPCs
  <1>7. CASE Lifespan
    BY <1>7, <1>a, <1>b, <1>c
       DEF Lifespan, Crash, CrashInCreateMessage, LoseProcess, Stop, StopTimesOut, Exit,
           Restart, EnqueueExisting, Started, process
  <1>8. CASE UNCHANGED vars
    BY <1>8, <1>a DEF vars
  <1> QED BY <1>1, <1>2, <1>3, <1>4, <1>5, <1>6, <1>7, <1>8 DEF Next

LEMMA DownStep == IInv /\ [Next]_vars => DownIsEmpty'
  <1> SUFFICES ASSUME IInv, [Next]_vars, mode' = "down" PROVE DownIsEmpty'
    BY DEF DownIsEmpty
  <1> USE DEF IInv, Ownership, ExecShape
  <1>1. CASE LoseProcess
    BY <1>1 DEF LoseProcess, DownIsEmpty
  <1>2. CASE mode = "down" /\ UNCHANGED <<exec, jobs, waiters, queue>>
    BY <1>2 DEF DownIsEmpty
  <1>3. CASE Http \/ Enqueue \/ Consume
    BY <1>3 DEF Http, CreateMessage, RetryMessage, CancelMessage,
                Enqueue, EnqueueStart, EnqueueAwaited, CancelQueuedSelect,
                CancelQueuedUpdate, EnqueuePut, Locked,
                Consume, ConsumerTake, ConsumerResume
  <1>4. CASE Execute \/ Threads
    BY <1>4 DEF Execute, ExecStart, ExecMark, ExecHistory, LlmAnswers, LlmFails,
                ExecComplete, ExecCancel, ExecFail, ExecFinish, ExecAt, ExecGoesTo,
                Threads, ThreadCommits
  <1>5. CASE Faults
    BY <1>1, <1>5 DEF Faults, CompleteRaises, ExecRaises, ConsumerRaises,
                      CancelQueuedRaises, ThreadRaises, EnqueueFails, ExecAt, ExecGoesTo, Locked
  <1>6. CASE Lifespan
    BY <1>1, <1>6 DEF Lifespan, Crash, CrashInCreateMessage, Stop, StopTimesOut, Exit,
                      Restart, EnqueueExisting, Started
  <1>7. CASE UNCHANGED vars
    BY <1>2, <1>7 DEF vars
  <1> QED BY <1>3, <1>4, <1>5, <1>6, <1>7 DEF Next

LEMMA SelectedStep == IInv /\ [Next]_vars => SelectedHaveRun'
  <1> SUFFICES ASSUME IInv, [Next]_vars, NEW m \in enq'.sel PROVE run'[m] # "none"
    BY DEF SelectedHaveRun
  <1>1. enq'.sel \subseteq enq.sel \/ \A k \in enq'.sel : k \in Messages /\ run[k] = "queued"
    <2>1. enq \in EnqTypes /\ Unlocked.sel = {}
      BY DEF IInv, TypeOK, EnqTypes, Unlocked
    <2>2. CASE enq' = enq \/ enq' = Unlocked
      BY <2>1, <2>2
    <2>3. CASE Enqueue
      <3>1. CASE CancelQueuedSelect
        BY <2>1, <3>1 DEF CancelQueuedSelect, EnqTypes
      <3>2. enq'.sel = enq.sel \/ enq' = Unlocked \/ CancelQueuedSelect
        BY <2>1, <2>3 DEF Enqueue, EnqueueStart, EnqueueAwaited, CancelQueuedUpdate,
                          EnqueuePut, EnqTypes
      <3> QED BY <2>1, <3>1, <3>2
    <2>4. CASE Http \/ Consume \/ Execute \/ Threads
      BY <2>2, <2>4
         DEF Http, CreateMessage, RetryMessage, CancelMessage, Consume, ConsumerTake,
             ConsumerResume, Execute, ExecStart, ExecMark, ExecHistory, LlmAnswers, LlmFails,
             ExecComplete, ExecCancel, ExecFail, ExecFinish, ExecGoesTo, Threads, ThreadCommits
    <2>5. CASE Faults \/ Lifespan
      BY <2>2, <2>5
         DEF Faults, CompleteRaises, ExecRaises, ConsumerRaises, CancelQueuedRaises,
             ThreadRaises, EnqueueFails, ExecGoesTo, LoseProcess, Lifespan, Crash,
             CrashInCreateMessage, Stop, StopTimesOut, Exit, Restart, EnqueueExisting,
             Started, process
    <2>6. CASE UNCHANGED vars
      BY <2>2, <2>6 DEF vars
    <2> QED BY <2>3, <2>4, <2>5, <2>6 DEF Next
  <1>2. m \in Messages /\ run[m] # "none"
    BY <1>1 DEF IInv, TypeOK, Ownership, ExecShape
  <1> QED BY <1>2, RunKept

LEMMA ExecShapeStep == IInv /\ [Next]_vars => ExecShape'
  <1> SUFFICES ASSUME IInv, [Next]_vars PROVE ExecShape'
    OBVIOUS
  <1> USE DEF IInv, Ownership, ExecShape
  <1>1. IdleIsEmpty'
    BY ExecMoves, NoMessageIsNone DEF Continues, Cleared, Starts, Idle, IdleIsEmpty
  <1>2. ExecHasRun'
    <2>1. exec.pc # "none" => run'[exec.m] # "none"
      BY RunKept DEF TypeOK
    <2> QED BY <2>1, ExecMoves DEF Continues, Cleared, Starts, Idle, ExecHasRun
  <1>3. CancelsNoQueued'
    <2> SUFFICES ASSUME exec'.pc = "cancelling" PROVE run'[exec'.m] # "queued"
      BY DEF CancelsNoQueued
    <2>1. exec'.m = exec.m /\ run[exec.m] # "queued" /\ exec.pc # "none"
      BY ExecMoves DEF Continues, Cleared, Starts, Idle
    <2>2. exec.m \in Messages /\ run[exec.m] # "none" /\ exec.m \notin recover
      BY <2>1 DEF TypeOK, RecoverOwnsNothing
    <2> QED BY <2>1, <2>2, QueuedKept
  <1> QED BY <1>1, <1>2, <1>3, DownStep, SelectedStep
          DEF IdleIsEmpty, ExecHasRun, CancelsNoQueued, SelectedHaveRun, DownIsEmpty
-----------------------------------------------------------------------------
(* The invariant is inductive.                                             *)

THEOREM StepIInv == IInv /\ [Next]_vars => IInv'
  <1> SUFFICES ASSUME IInv, [Next]_vars PROVE IInv'
    OBVIOUS
  <1>1. TypeOK' /\ RunMessageAgree' /\ ExecutingIsRunning'
    BY TypeStep, AgreeStep, ExecutingStep
  <1>2. Ownership'
    BY JobsStep, RecoverStep, ExecShapeStep DEF Ownership
  <1> QED BY <1>1, <1>2 DEF IInv

(* The inductive invariant holds of every behaviour.                       *)
THEOREM Invariance == Spec => []IInv
  BY InitIInv, StepIInv, PTL DEF Spec

(* Every variable keeps its type, and runtime.queue never holds more than  *)
(* its capacity of one, so put_nowait in enqueue() never raises QueueFull. *)
THEOREM TypeCorrect == Spec => []TypeOK
  <1>1. IInv => TypeOK
    BY DEF IInv
  <1> QED BY <1>1, Invariance, PTL

(* agent_runs.status and agent_messages.status never drift apart, although *)
(* every transaction updates them with two conditions of their own.        *)
THEOREM RowsAgree == Spec => []RunMessageAgree
  <1>1. IInv => RunMessageAgree
    BY DEF IInv
  <1> QED BY <1>1, Invariance, PTL

(* While execute() works on a run nobody else moves it, however many       *)
(* messages, cancellations, retries, restarts and errors there are.        *)
THEOREM ExecutionIsExclusive == Spec => []ExecutingIsRunning
  <1>1. IInv => ExecutingIsRunning
    BY DEF IInv
  <1> QED BY <1>1, Invariance, PTL

(* Who may still write to a run: what is left in worker threads, and what  *)
(* start() listed, is never what waits, executes or is queued.             *)
THEOREM OwnershipHolds == Spec => []Ownership
  <1>1. IInv => Ownership
    BY DEF IInv
  <1> QED BY <1>1, Invariance, PTL
-----------------------------------------------------------------------------
(* The runtime implements the status machine of RunLifecycle.              *)

ServingKept == (mode = "up")' = (mode = "up")

(* One conditional UPDATE of one run changes it or leaves all runs alone.  *)
LEMMA SingleMove ==
  ASSUME TypeOK, NEW m \in Messages, NEW from, NEW to, UpdateStatus({m}, from, to)
  PROVE  run' = run \/ (run[m] \in from /\ run' = [run EXCEPT ![m] = to])
  BY DEF TypeOK, UpdateStatus, Move

LEMMA StutterOrSwitch ==
  ASSUME run' = run
  PROVE  [Lifecycle!Next]_(Lifecycle!vars)
  BY DEF Lifecycle!Next, Lifecycle!vars, Lifecycle!ProcessChanges

LEMMA RunStepIsNext ==
  ASSUME NEW m \in Messages, Lifecycle!RunStep(m)
  PROVE  Lifecycle!Next
  BY DEF Lifecycle!Next

LEMMA CancelIsStep ==
  ASSUME TypeOK, NEW m \in Messages, ServingKept, UpdateStatus({m}, Active, "cancelled")
  PROVE  run' = run \/ Lifecycle!RunStep(m)
  <1>1. run' = run \/ (run[m] \in Active /\ run' = [run EXCEPT ![m] = "cancelled"])
    BY SingleMove
  <1>2. run' = run \/ Lifecycle!Cancel(m)
    BY <1>1 DEF ServingKept, Active, Lifecycle!Cancel, Lifecycle!Becomes
  <1> QED BY <1>2 DEF Lifecycle!RunStep

LEMMA FailIsStep ==
  ASSUME TypeOK, NEW m \in Messages, ServingKept, UpdateStatus({m}, Active, "failed"),
         run[m] # "queued"
  PROVE  run' = run \/ Lifecycle!RunStep(m)
  <1>1. run' = run \/ (run[m] \in Active /\ run' = [run EXCEPT ![m] = "failed"])
    BY SingleMove
  <1>2. run' = run \/ Lifecycle!Fail(m)
    BY <1>1 DEF ServingKept, Active, Lifecycle!Fail, Lifecycle!Becomes
  <1> QED BY <1>2 DEF Lifecycle!RunStep

LEMMA CompleteIsStep ==
  ASSUME TypeOK, NEW m \in Messages, ServingKept, UpdateStatus({m}, {"running"}, "completed")
  PROVE  run' = run \/ Lifecycle!RunStep(m)
  <1>1. run' = run \/ (run[m] \in {"running"} /\ run' = [run EXCEPT ![m] = "completed"])
    BY SingleMove
  <1>2. run' = run \/ Lifecycle!Complete(m)
    BY <1>1 DEF ServingKept, Lifecycle!Complete, Lifecycle!Becomes
  <1> QED BY <1>2 DEF Lifecycle!RunStep

LEMMA StartIsStep ==
  ASSUME TypeOK, NEW m \in Messages, ServingKept, MarkRunning(m)
  PROVE  run' = run \/ Lifecycle!RunStep(m)
  <1>1. CASE Startable(m)
    <2>1. UpdateStatus({m}, {"queued"}, "running")
      BY <1>1 DEF MarkRunning
    <2>2. run' = run \/ (run[m] = "queued" /\ run' = [run EXCEPT ![m] = "running"])
      BY <2>1, SingleMove
    <2>3. run' = run \/ Lifecycle!Start(m)
      BY <2>2 DEF ServingKept, Lifecycle!Start, Lifecycle!Becomes
    <2> QED BY <2>3 DEF Lifecycle!RunStep
  <1>2. CASE ~ Startable(m)
    BY <1>2 DEF MarkRunning, UpdateStatus, Move, TypeOK
  <1> QED BY <1>1, <1>2

LEMMA LifecycleStep == IInv /\ [Next]_vars => [Lifecycle!Next]_(Lifecycle!vars)
  <1> SUFFICES ASSUME IInv, [Next]_vars
               PROVE  run' = run \/ Lifecycle!Next
    BY StutterOrSwitch
  <1> USE DEF IInv
  <1>1. ASSUME NEW m \in Messages, CreateMessage(m) PROVE Lifecycle!Next
    <2>1. run[m] = "none"
      BY <1>1 DEF CreateMessage, RunMessageAgree
    <2>2. Lifecycle!Submit(m)
      BY <1>1, <2>1 DEF CreateMessage, Lifecycle!Submit, Lifecycle!Becomes
    <2> QED BY <2>2, RunStepIsNext DEF Lifecycle!RunStep
  <1>2. ASSUME NEW m \in Messages, RetryMessage(m) PROVE run' = run \/ Lifecycle!Next
    <2>1. CASE run[m] = "none"
      <3>1. Lifecycle!Submit(m)
        BY <1>2, <2>1 DEF RetryMessage, Lifecycle!Submit, Lifecycle!Becomes
      <3> QED BY <3>1, RunStepIsNext DEF Lifecycle!RunStep
    <2>2. CASE run[m] = "queued"
      BY <1>2, <2>2 DEF RetryMessage, TypeOK
    <2> QED BY <1>2, <2>1, <2>2 DEF RetryMessage
  <1>3. ASSUME NEW m \in Messages, NEW kept \in BOOLEAN, CancelMessage(m, kept)
        PROVE  run' = run \/ Lifecycle!Next
    <2>1. run' = run \/ (run[m] \in Active /\ run' = [run EXCEPT ![m] = "cancelling"])
      BY <1>3, SingleMove DEF CancelMessage, RequestCancel
    <2>2. CASE run[m] = "cancelling"
      BY <2>1, <2>2 DEF TypeOK
    <2>3. CASE run[m] # "cancelling" /\ run' # run
      <3>1. Lifecycle!RequestCancel(m)
        BY <1>3, <2>1, <2>3
           DEF CancelMessage, Active, Lifecycle!RequestCancel, Lifecycle!Becomes
      <3> QED BY <3>1, RunStepIsNext DEF Lifecycle!RunStep
    <2> QED BY <2>2, <2>3
  <1>4. CASE Enqueue
    <2>1. CASE CancelQueuedUpdate
      <3>1. Lifecycle!Supersede({k \in enq.sel : run[k] = "queued"})
        BY <2>1 DEF CancelQueuedUpdate, UpdateStatus, Move, TypeOK, Lifecycle!Supersede
      <3>2. {k \in enq.sel : run[k] = "queued"} \in SUBSET Messages
        BY DEF TypeOK
      <3> QED BY <3>1, <3>2 DEF Lifecycle!Next
    <2> QED BY <1>4, <2>1
            DEF Enqueue, EnqueueStart, EnqueueAwaited, CancelQueuedSelect, EnqueuePut
  <1>5. CASE Consume
    BY <1>5 DEF Consume, ConsumerTake, ConsumerResume
  <1>6. CASE Execute
    <2>1. exec.pc # "none" => exec.m \in Messages
      BY DEF TypeOK, Ownership, ExecShape
    <2>2. CASE ExecMark
      BY <2>1, <2>2, StartIsStep, RunStepIsNext DEF ExecMark, ExecAt, ExecGoesTo, ServingKept
    <2>3. CASE ExecComplete
      BY <2>1, <2>3, CompleteIsStep, RunStepIsNext
         DEF ExecComplete, CompleteRun, ExecAt, ExecGoesTo, ServingKept
    <2>4. CASE ExecCancel
      BY <2>1, <2>4, CancelIsStep, RunStepIsNext
         DEF ExecCancel, ExecFinish, FinishRun, ExecAt, ExecGoesTo, ServingKept
    <2>5. CASE ExecFail
      <3>1. run[exec.m] # "queued"
        BY <2>5 DEF ExecFail, ExecFinish, ExecAt, ExecutingIsRunning, Working
      <3> QED BY <2>1, <2>5, <3>1, FailIsStep, RunStepIsNext
              DEF ExecFail, ExecFinish, FinishRun, ExecAt, ExecGoesTo, ServingKept
    <2> QED BY <1>6, <2>2, <2>3, <2>4, <2>5
            DEF Execute, ExecStart, ExecHistory, LlmAnswers, LlmFails
  <1>7. CASE Threads
    <2> SUFFICES ASSUME NEW j \in jobs, ThreadCommits(j) PROVE run' = run \/ Lifecycle!Next
      BY <1>7 DEF Threads
    <2>1. j.m \in Messages /\ ServingKept
      BY DEF ThreadCommits, TypeOK, Jobs, ServingKept
    <2>2. CASE MarkRunning(j.m)
      BY <2>1, <2>2, StartIsStep, RunStepIsNext
    <2>3. CASE CompleteRun(j.m)
      BY <2>1, <2>3, CompleteIsStep, RunStepIsNext DEF CompleteRun
    <2>4. CASE FinishRun(j.m, "cancelled")
      BY <2>1, <2>4, CancelIsStep, RunStepIsNext DEF FinishRun
    <2>5. CASE j.kind = "fail" /\ FinishRun(j.m, "failed")
      <3>1. run[j.m] # "queued"
        BY <2>5 DEF Ownership, JobsOwnNothing
      <3>2. UpdateStatus({j.m}, Active, "failed")
        BY <2>5 DEF FinishRun
      <3> QED BY <2>1, <3>1, <3>2, FailIsStep, RunStepIsNext
    <2>6. CASE CancelQueuedMessage(j.m)
      <3>1. UpdateStatus({j.m}, {"queued", "cancelling"}, "cancelled")
        BY <2>6 DEF CancelQueuedMessage
      <3>2. \/ run' = run
            \/ /\ run[j.m] \in {"queued", "cancelling"}
               /\ run' = [run EXCEPT ![j.m] = "cancelled"]
        BY <2>1, <3>1, SingleMove
      <3>3. run' = run \/ Lifecycle!Cancel(j.m)
        BY <2>1, <3>2 DEF ServingKept, Lifecycle!Cancel, Lifecycle!Becomes
      <3> QED BY <2>1, <3>3, RunStepIsNext DEF Lifecycle!RunStep
    <2> QED BY <2>2, <2>3, <2>4, <2>5, <2>6 DEF ThreadCommits
  <1>8. CASE Faults
    BY <1>8 DEF Faults, CompleteRaises, ExecRaises, ConsumerRaises,
                CancelQueuedRaises, ThreadRaises, db
  <1>9. CASE Lifespan
    <2>1. ASSUME NEW m \in Messages, EnqueueExisting(m) PROVE run' = run \/ Lifecycle!Next
      <3>1. \/ run' = run
            \/ /\ run[m] \in {"running", "cancelling"}
               /\ run' = [run EXCEPT ![m] = "queued"]
        BY <2>1, SingleMove DEF EnqueueExisting
      <3>2. run' = run \/ Lifecycle!Requeue(m)
        BY <2>1, <3>1 DEF EnqueueExisting, Lifecycle!Requeue, Lifecycle!Becomes
      <3> QED BY <3>2, RunStepIsNext DEF Lifecycle!RunStep
    <2> QED BY <1>9, <2>1 DEF Lifespan, Crash, CrashInCreateMessage, Stop, StopTimesOut,
                              Exit, Restart, Started, db
  <1>10. CASE UNCHANGED vars
    BY <1>10 DEF vars
  <1> QED BY <1>1, <1>2, <1>3, <1>4, <1>5, <1>6, <1>7, <1>8, <1>9, <1>10 DEF Next, Http

(* Every behaviour of the runtime is one of the status machine: only a     *)
(* queued run starts, only a running one completes, and only a process     *)
(* that is not serving yet returns a run to the queue.                     *)
THEOREM ImplementsLifecycle == Spec => LifecycleSpec
  <1>1. Init => Lifecycle!Init
    BY DEF Init, Lifecycle!Init
  <1>2. IInv /\ [Next]_vars => [Lifecycle!Next]_(Lifecycle!vars)
    BY LifecycleStep
  <1> QED BY <1>1, <1>2, Invariance, PTL DEF Spec, LifecycleSpec, Lifecycle!Spec

(* A terminal status is final, whatever transaction commits late: the      *)
(* status machine leaves it alone, and the message row follows the run.    *)
THEOREM TerminalIsFinal == Spec => TerminalStable
  <1>1. ASSUME IInv, [Next]_vars, NEW m \in Messages, run[m] \in Terminal
        PROVE  run'[m] = run[m] /\ msg'[m] = msg[m]
    <2>1. [Lifecycle!Next]_(Lifecycle!vars)
      BY <1>1, LifecycleStep
    <2>2. run'[m] = run[m]
      BY <1>1, <2>1
         DEF IInv, TypeOK, Terminal, Lifecycle!Next, Lifecycle!vars, Lifecycle!RunStep,
             Lifecycle!Submit, Lifecycle!RequestCancel, Lifecycle!Supersede, Lifecycle!Start,
             Lifecycle!Complete, Lifecycle!Fail, Lifecycle!Cancel, Lifecycle!Requeue,
             Lifecycle!ProcessChanges, Lifecycle!Becomes
    <2>3. RunMessageAgree /\ RunMessageAgree'
      BY <1>1, AgreeStep DEF IInv
    <2> QED BY <1>1, <2>2, <2>3 DEF RunMessageAgree, Terminal
  <1>2. IInv /\ [Next]_vars =>
          [\A m \in Messages :
             run[m] \in Terminal => run'[m] = run[m] /\ msg'[m] = msg[m]]_vars
    BY <1>1
  <1> QED BY <1>2, Invariance, PTL DEF Spec, TerminalStable
-----------------------------------------------------------------------------
(* As long as the process that posted it runs, a message is answered once, *)
(* and an accepted cancellation stands.  (After a crash the requests it    *)
(* cut off are executed again, and neither holds: README, section 6.)      *)

FirstProcess == spent["crash"] = 0

(* No answer has been inserted for a message that may still get one.       *)
Unanswered ==
    /\ \A m \in Messages : run[m] \in {"none", "queued"} => answers[m] = 0
    /\ exec.pc \in Working => answers[exec.m] = 0
    /\ \A j \in jobs : j.kind = "complete" => answers[j.m] = 0

(* A run whose cancellation was accepted is on its way to another end.     *)
AskedIsCancelling == \A m \in asked : run[m] \in {"cancelling", "failed", "cancelled"}

Uninterrupted == mode = "up" /\ Unanswered /\ AnsweredOnce /\ AskedIsCancelling

UInv == IInv /\ (FirstProcess => Uninterrupted)

LEMMA FirstProcessStep ==
  ASSUME UInv, Next, FirstProcess'
  PROVE  FirstProcess /\ Uninterrupted /\ ~ Lifespan /\ mode' = "up"
  <1> USE DEF UInv, IInv
  <1>1. spent["crash"] \in Nat /\ "crash" \in Budgets /\ spent \in [Budgets -> Nat]
    BY DEF TypeOK, Budgets
  <1>2. \/ UNCHANGED spent
        \/ \E what \in Budgets : Spend(what)
    BY DEF Next, Http, CreateMessage, RetryMessage, CancelMessage, Enqueue, EnqueueStart,
           EnqueueAwaited, CancelQueuedSelect, CancelQueuedUpdate, EnqueuePut, Consume,
           ConsumerTake, ConsumerResume, Execute, ExecStart, ExecMark, ExecHistory, LlmAnswers,
           LlmFails, ExecComplete, ExecCancel, ExecFail, ExecFinish, Threads, ThreadCommits,
           Faults, Fault, CompleteRaises, ExecRaises, ConsumerRaises, CancelQueuedRaises,
           ThreadRaises, Lifespan, Crash, CrashInCreateMessage, Stop, StopTimesOut, Exit,
           Restart, EnqueueExisting, Started, Budgets
  <1>3. FirstProcess /\ ~ Spend("crash")
    BY <1>1, <1>2 DEF FirstProcess, Spend
  <1>4. Uninterrupted
    BY <1>3
  <1>5. ~ Lifespan
    BY <1>3, <1>4 DEF Uninterrupted, Lifespan, Crash, CrashInCreateMessage, Stop, StopTimesOut,
                      Exit, Restart, EnqueueExisting, Started
  <1>6. mode' = "up"
    BY <1>4, <1>5
       DEF Uninterrupted, Next, Http, CreateMessage, RetryMessage, CancelMessage, Enqueue,
           EnqueueStart, EnqueueAwaited, CancelQueuedSelect, CancelQueuedUpdate, EnqueuePut,
           Consume, ConsumerTake, ConsumerResume, Execute, ExecStart, ExecMark, ExecHistory,
           LlmAnswers, LlmFails, ExecComplete, ExecCancel, ExecFail, ExecFinish, ExecGoesTo,
           Threads, ThreadCommits, Faults, CompleteRaises, ExecRaises, ConsumerRaises,
           CancelQueuedRaises, EnqueueFails, ThreadRaises
  <1> QED BY <1>3, <1>4, <1>5, <1>6

(* What the status machine allows while requests are served.               *)
LEMMA ServedMoves ==
  ASSUME IInv, [Next]_vars, mode = "up", NEW m \in Messages
  PROVE  /\ run'[m] \in {"none", "queued"} => run[m] \in {"none", "queued"}
         /\ run[m] \in {"cancelling", "failed", "cancelled"} =>
               run'[m] \in {"cancelling", "failed", "cancelled"}
  <1>1. [Lifecycle!Next]_(Lifecycle!vars)
    BY LifecycleStep
  <1> QED BY <1>1
     DEF IInv, TypeOK, Lifecycle!Next, Lifecycle!vars, Lifecycle!RunStep,
         Lifecycle!Submit, Lifecycle!RequestCancel, Lifecycle!Supersede, Lifecycle!Start,
         Lifecycle!Complete, Lifecycle!Fail, Lifecycle!Cancel, Lifecycle!Requeue,
         Lifecycle!ProcessChanges, Lifecycle!Becomes

LEMMA AskedStep ==
  ASSUME UInv, Next, FirstProcess'
  PROVE  AskedIsCancelling'
  <1> USE FirstProcessStep DEF Uninterrupted
  <1>1. ASSUME NEW m \in asked PROVE run'[m] \in {"cancelling", "failed", "cancelled"}
    <2>1. m \in Messages
      BY DEF UInv, IInv, TypeOK
    <2> QED BY <1>1, <2>1, ServedMoves DEF UInv, AskedIsCancelling
  <1>2. ASSUME NEW m \in Messages, NEW kept \in BOOLEAN, CancelMessage(m, kept)
        PROVE  asked' \subseteq asked \union {k \in {m} : run'[k] = "cancelling"}
    BY <1>2, RunAt DEF CancelMessage, RequestCancel
  <1>3. asked' = asked \/ \E m \in Messages, kept \in BOOLEAN : CancelMessage(m, kept)
    BY DEF Next, Http, CreateMessage, RetryMessage, Enqueue, EnqueueStart,
           EnqueueAwaited, CancelQueuedSelect, CancelQueuedUpdate, EnqueuePut, Consume,
           ConsumerTake, ConsumerResume, Execute, ExecStart, ExecMark, ExecHistory, LlmAnswers,
           LlmFails, ExecComplete, ExecCancel, ExecFail, ExecFinish, ExecGoesTo, Threads,
           ThreadCommits, Faults, CompleteRaises, ExecRaises, ConsumerRaises,
           CancelQueuedRaises, EnqueueFails, LoseProcess, ThreadRaises
  <1> QED BY <1>1, <1>2, <1>3 DEF AskedIsCancelling

(* Who inserts an answer, and for which message.                           *)
LEMMA AnswersStep ==
  ASSUME UInv, Next, FirstProcess'
  PROVE  \/ answers' = answers
         \/ ExecComplete
         \/ \E j \in jobs : ThreadCommits(j) /\ j.kind = "complete" /\ CompleteRun(j.m)
  BY FirstProcessStep
     DEF Uninterrupted, Next, Http, CreateMessage, RetryMessage, CancelMessage, Enqueue,
         EnqueueStart, EnqueueAwaited, CancelQueuedSelect, CancelQueuedUpdate, EnqueuePut,
         Consume, ConsumerTake, ConsumerResume, Execute, ExecStart, ExecMark, ExecHistory,
         LlmAnswers, LlmFails, ExecCancel, ExecFail, ExecFinish, Threads, ThreadCommits,
         Faults, CompleteRaises, ExecRaises, ConsumerRaises, CancelQueuedRaises,
         EnqueueFails, ThreadRaises, db

(* Where execution comes to work on a run, and who leaves a save behind.   *)
LEMMA WorkStep ==
  ASSUME UInv, Next, FirstProcess', exec'.pc \in Working
  PROVE  \/ exec.pc \in Working /\ exec'.m = exec.m
         \/ exec'.m = exec.m /\ exec.m \in Messages /\ run[exec.m] = "queued"
  <1> USE FirstProcessStep DEF UInv, IInv
  <1>1. CancelledTask.pc \notin Working /\ Idle.pc \notin Working
    BY CancelledTaskIdles DEF Idle, Working
  <1>2. CASE Execute
    BY <1>2 DEF Execute, ExecStart, ExecMark, ExecHistory, LlmAnswers, LlmFails, ExecComplete,
                ExecCancel, ExecFail, ExecFinish, ExecAt, ExecGoesTo, Working, Startable,
                TypeOK, Ownership, ExecShape
  <1>3. CASE Consume
    BY <1>1, <1>3 DEF Consume, ConsumerTake, ConsumerResume, Working
  <1>4. CASE Faults
    BY <1>1, <1>4
       DEF Faults, CompleteRaises, ExecAt, ExecGoesTo, ExecRaises, ConsumerRaises,
           CancelQueuedRaises, Uninterrupted, ThreadRaises, TypeOK, Working
  <1>5. CASE Http \/ Enqueue \/ Threads
    BY <1>1, <1>5
       DEF Http, CreateMessage, RetryMessage, CancelMessage, Enqueue, EnqueueStart,
           EnqueueAwaited, CancelQueuedSelect, CancelQueuedUpdate, EnqueuePut, Threads,
           ThreadCommits
  <1> QED BY <1>2, <1>3, <1>4, <1>5 DEF Next

LEMMA SaveJobsStep ==
  ASSUME UInv, Next, FirstProcess', NEW j \in jobs', j.kind = "complete"
  PROVE  \/ j \in jobs
         \/ exec.pc = "completing" /\ j.m = exec.m /\ answers' = answers
  <1> USE FirstProcessStep DEF UInv, IInv
  <1>1. ASSUME NEW kept \in BOOLEAN, j \in Abandoned(kept)
        PROVE  exec.pc = "completing" /\ j.m = exec.m
    BY <1>1 DEF Abandoned, AwaitedJob
  <1>2. CASE j \notin jobs
    <2>1. \/ \E m \in Messages, kept \in BOOLEAN : CancelMessage(m, kept)
          \/ \E kept \in BOOLEAN : EnqueueStart(kept)
      BY <1>2
         DEF Uninterrupted, Next, Http, CreateMessage, RetryMessage, Enqueue,
             EnqueueAwaited, CancelQueuedSelect, CancelQueuedUpdate, EnqueuePut,
             Consume, ConsumerTake, ConsumerResume, Execute, ExecStart, ExecMark, ExecHistory,
             LlmAnswers, LlmFails, ExecComplete, ExecCancel, ExecFail, ExecFinish, ExecGoesTo,
             Threads, ThreadCommits, Faults, CompleteRaises, ExecRaises, ConsumerRaises,
             CancelQueuedRaises, EnqueueFails, ThreadRaises
    <2> QED BY <1>1, <1>2, <2>1 DEF CancelMessage, EnqueueStart
  <1> QED BY <1>2

LEMMA UnansweredStep ==
  ASSUME UInv, Next, FirstProcess'
  PROVE  Unanswered'
  <1> USE FirstProcessStep DEF UInv, IInv, Uninterrupted
  <1>0. exec.pc # "none" => exec.m \in Messages
    BY DEF TypeOK, Ownership, ExecShape
  <1>1. \A j \in jobs : j.kind = "complete" =>
           /\ j.m \in Messages /\ run[j.m] \notin {"none", "queued"}
           /\ ~ (exec.m = j.m /\ exec.pc \in Working)
    BY DEF Ownership, JobsOwnNothing, TypeOK, Jobs
  (* The message that gets an answer is neither waiting nor executed again. *)
  <1>2. \A m \in Messages : answers'[m] = answers[m]
           \/ /\ run[m] \notin {"none", "queued"}
              /\ ~ (exec'.m = m /\ exec'.pc \in Working)
              /\ \A j \in jobs' : j.kind = "complete" => j.m # m
    <2>1. CASE answers' = answers
      BY <2>1
    <2>2. CASE ExecComplete
      <3>1. run[exec.m] = "running" /\ exec.pc \in Working /\ exec'.pc = "done" /\ jobs' = jobs
            /\ exec.m \in Messages
        BY <1>0, <2>2 DEF ExecComplete, ExecAt, ExecGoesTo, ExecutingIsRunning, Working, TypeOK
      <3>2. \A m \in Messages \ {exec.m} : answers'[m] = answers[m]
        BY <2>2 DEF ExecComplete, CompleteRun, TypeOK
      <3> QED BY <1>1, <3>1, <3>2 DEF Working
    <2>3. ASSUME NEW i \in jobs, ThreadCommits(i), i.kind = "complete", CompleteRun(i.m)
          PROVE  \A m \in Messages : answers'[m] = answers[m]
                    \/ /\ run[m] \notin {"none", "queued"}
                       /\ ~ (exec'.m = m /\ exec'.pc \in Working)
                       /\ \A j \in jobs' : j.kind = "complete" => j.m # m
      <3>1. exec' = exec /\ jobs' = jobs \ {i} /\ i \in Jobs
        BY <2>3 DEF ThreadCommits, TypeOK
      <3>2. \A j \in jobs' : j.kind = "complete" => j.m # i.m
        <4> SUFFICES ASSUME NEW j \in jobs', j.kind = "complete", j.m = i.m PROVE FALSE
          OBVIOUS
        <4>1. j \in jobs /\ j # i /\ j \in Jobs
          BY <3>1 DEF TypeOK
        <4>2. j = i
          BY <2>3, <3>1, <4>1 DEF Jobs
        <4> QED BY <4>1, <4>2
      <3>3. \A m \in Messages \ {i.m} : answers'[m] = answers[m]
        BY <2>3 DEF CompleteRun, TypeOK
      <3> QED BY <1>1, <2>3, <3>1, <3>2, <3>3
    <2> QED BY <2>1, <2>2, <2>3, AnswersStep
  <1>3. \A m \in Messages : run'[m] \in {"none", "queued"} => answers'[m] = 0
    BY <1>2, ServedMoves DEF Unanswered
  <1>4. exec'.pc \in Working => answers'[exec'.m] = 0
    <2> SUFFICES ASSUME exec'.pc \in Working PROVE answers'[exec'.m] = 0
      OBVIOUS
    <2>1. exec'.m \in Messages /\ answers[exec'.m] = 0
      BY <1>0, WorkStep DEF Unanswered, Working
    <2> QED BY <1>2, <2>1
  <1>5. ASSUME NEW j \in jobs', j.kind = "complete" PROVE answers'[j.m] = 0
    <2>1. CASE j \in jobs
      BY <1>1, <1>2, <1>5, <2>1 DEF Unanswered
    <2>2. CASE j \notin jobs
      BY <1>5, <2>2, SaveJobsStep DEF Unanswered, Working
    <2> QED BY <2>1, <2>2
  <1> QED BY <1>3, <1>4, <1>5 DEF Unanswered

(* A run is completed by the step that inserts its answer.                 *)
LEMMA CompletedStep ==
  ASSUME UInv, Next, FirstProcess', NEW m \in Messages,
         run'[m] = "completed", run[m] # "completed"
  PROVE  answers'[m] = answers[m] + 1
  <1> USE FirstProcessStep DEF UInv, IInv
  <1>0. exec.pc # "none" => exec.m \in Messages
    BY DEF TypeOK, Ownership, ExecShape
  <1>1. ASSUME NEW S, NEW from, NEW to \in Statuses \ {"completed"}, UpdateStatus(S, from, to)
        PROVE  FALSE
    BY <1>1, RunAt
  <1>2. ASSUME NEW k \in Messages, CompleteRun(k) PROVE answers'[m] = answers[m] + 1
    BY <1>2, RunAt DEF CompleteRun, TypeOK
  <1>3. CASE Execute
    <2>1. CASE ExecComplete
      BY <1>0, <1>2, <2>1 DEF ExecComplete, ExecAt
    <2>2. CASE ExecMark
      BY <1>1, <2>2 DEF ExecMark, MarkRunning, Statuses, Active
    <2>3. CASE ExecCancel \/ ExecFail
      BY <1>1, <2>3 DEF ExecCancel, ExecFail, ExecFinish, FinishRun, Statuses, Terminal
    <2> QED BY <1>3, <2>1, <2>2, <2>3
            DEF Execute, ExecStart, ExecHistory, LlmAnswers, LlmFails
  <1>4. CASE Threads
    <2> SUFFICES ASSUME NEW j \in jobs, ThreadCommits(j) PROVE answers'[m] = answers[m] + 1
      BY <1>4 DEF Threads
    <2>1. CASE CompleteRun(j.m)
      BY <1>2, <2>1 DEF TypeOK, Jobs
    <2>2. CASE ~ CompleteRun(j.m)
      BY <1>1, <2>2 DEF ThreadCommits, MarkRunning, FinishRun, CancelQueuedMessage,
                        Statuses, Active, Terminal
    <2> QED BY <2>1, <2>2
  <1>5. CASE Http
    BY <1>1, <1>5 DEF Http, CreateMessage, RetryMessage, CancelMessage, RequestCancel,
                      Statuses, Active, TypeOK
  <1>6. CASE Enqueue
    BY <1>1, <1>6 DEF Enqueue, EnqueueStart, EnqueueAwaited, CancelQueuedSelect,
                      CancelQueuedUpdate, EnqueuePut, Statuses, Terminal
  <1>7. CASE Consume \/ Faults
    BY <1>7 DEF Consume, ConsumerTake, ConsumerResume, Faults, CompleteRaises, ExecRaises,
                ConsumerRaises, CancelQueuedRaises, ThreadRaises, db
  <1> QED BY <1>3, <1>4, <1>5, <1>6, <1>7 DEF Next

LEMMA CompleteRunAnswers ==
  ASSUME TypeOK, NEW k \in Messages, CompleteRun(k), NEW m \in Messages
  PROVE  answers'[m] = IF m = k THEN answers[m] + 1 ELSE answers[m]
  BY DEF TypeOK, CompleteRun

LEMMA AnsweredStep ==
  ASSUME UInv, Next, FirstProcess'
  PROVE  AnsweredOnce'
  <1> USE FirstProcessStep DEF UInv, IInv, Uninterrupted
  <1> SUFFICES ASSUME NEW m \in Messages
               PROVE  answers'[m] <= 1 /\ (run'[m] = "completed" => answers'[m] = 1)
    BY DEF AnsweredOnce
  <1>1. /\ answers[m] \in Nat /\ answers[m] <= 1
        /\ run[m] = "completed" => answers[m] = 1
    BY DEF AnsweredOnce, TypeOK
  <1>2. answers'[m] = answers[m] \/ (answers[m] = 0 /\ answers'[m] = 1)
    <2>1. \/ answers' = answers
          \/ \E k \in Messages : answers[k] = 0 /\ CompleteRun(k)
      <3>1. CASE ExecComplete
        BY <3>1 DEF ExecComplete, ExecAt, Unanswered, Working, TypeOK, Ownership, ExecShape
      <3>2. ASSUME NEW j \in jobs, j.kind = "complete", CompleteRun(j.m)
            PROVE  \E k \in Messages : answers[k] = 0 /\ CompleteRun(k)
        BY <3>2 DEF Unanswered, TypeOK, Jobs
      <3>3. \/ answers' = answers
            \/ ExecComplete
            \/ \E j \in jobs : ThreadCommits(j) /\ j.kind = "complete" /\ CompleteRun(j.m)
        BY AnswersStep
      <3> QED BY <3>1, <3>2, <3>3
    <2>2. ASSUME NEW k \in Messages, answers[k] = 0, CompleteRun(k)
          PROVE  answers'[m] = answers[m] \/ (answers[m] = 0 /\ answers'[m] = 1)
      BY <1>1, <2>2, CompleteRunAnswers
    <2> QED BY <2>1, <2>2
  <1>3. CASE run'[m] = "completed" /\ run[m] # "completed"
    BY <1>1, <1>2, <1>3, CompletedStep
  <1>4. CASE ~ (run'[m] = "completed" /\ run[m] # "completed")
    BY <1>1, <1>2, <1>4
  <1> QED BY <1>3, <1>4

THEOREM UninterruptedInvariance == Spec => []UInv
  <1>1. Init => UInv
    BY InitIInv DEF Init, UInv, Uninterrupted, Unanswered, AnsweredOnce, AskedIsCancelling,
                    Idle, Working
  <1>2. UInv /\ [Next]_vars => UInv'
    <2> SUFFICES ASSUME UInv, [Next]_vars, FirstProcess' PROVE Uninterrupted'
      BY StepIInv DEF UInv
    <2>1. CASE Next
      BY <2>1, FirstProcessStep, UnansweredStep, AnsweredStep, AskedStep DEF Uninterrupted
    <2>2. CASE UNCHANGED vars
      BY <2>2 DEF vars, UInv, FirstProcess, Uninterrupted, Unanswered, AnsweredOnce,
                  AskedIsCancelling
    <2> QED BY <2>1, <2>2
  <1> QED BY <1>1, <1>2, PTL DEF Spec

(* Until a crash or a stop, one answer at most is inserted for a message,  *)
(* and one for every completed message: neither a save that was abandoned  *)
(* to its thread, nor a retry, nor a superseding message adds a second.    *)
THEOREM AnswersAreUnique == Spec => [](FirstProcess => AnsweredOnce)
  BY UninterruptedInvariance, PTL DEF UInv, Uninterrupted

(* Until a crash or a stop, a message whose cancellation the API accepted  *)
(* is never completed, although its execution may be saving the answer.    *)
THEOREM CancellationStands == Spec => [](FirstProcess => AskedNeverCompletes)
  <1>1. UInv => (FirstProcess => AskedNeverCompletes)
    BY DEF UInv, Uninterrupted, AskedIsCancelling, AskedNeverCompletes
  <1> QED BY <1>1, UninterruptedInvariance, PTL
=============================================================================
