# tsuz-api-jcc: models, checks and proofs

`tsuz-api-jcc` is a FastAPI service for the game "金铲铲之战". It serves
structured game data that a command synchronises from the official origin, and
it runs an AI agent that answers messages in conversations. This directory
holds TLA+ models of the parts of it that have state, the TLC configurations
that check them and TLAPS proofs about the core. Paths below are relative to
the root of the repository.

1. [Inventory](#1-inventory)
2. [The modules](#2-the-modules)
3. [What the code guarantees about atomicity](#3-atomicity)
4. [Runs, bounds and fairness](#4-runs-bounds-and-fairness)
5. [Proofs](#5-proofs)
6. [Where documents and code disagree](#6-where-documents-and-code-disagree)
7. [What is not modelled](#7-what-is-not-modelled)
8. [Plan](#8-plan)

## 1. Inventory

| Component | State | Operations | Hard behaviour | What makes it correct |
|---|---|---|---|---|
| Agent runtime (`app/agent/runtime.py`) | per conversation: queue of one, current task, `runtime.lock`, consumer task, subscribers, event history; rows of `agent_runs`, `agent_messages` | `start`, `stop`, `enqueue`, `cancel`, `_consume`, `_enqueue_existing`, `_publish`, `subscribe`, `replay` | coroutines, worker threads that outlive the coroutine that awaits them, cancellation at every await, crashes, restarts | one execution owns a run; terminal statuses are final; run and message agree; nothing waits for ever |
| Orchestrator (`app/agent/orchestrator.py`) | the running `execute()`; run, message, tool audit, source and summary rows | `_mark_running`, `_history`, `_stream_text`, `_run_tool_loop`, `_complete`, `_cancel`, `_fail` | every `await` may raise `CancelledError`; a transaction that is abandoned may still commit | a run is completed once and has one answer; a cancelled run is never completed |
| Conversations (`app/conversations/`) | `agent_conversations`, `agent_messages`, an advisory lock for each conversation | create, patch, archive, `create_message`, `ensure_run`, `request_cancel`, lists | rows read before the lock, assistant messages inserted without it, retries with one request id | sequence numbers without gaps in commit order; one message for a request id |
| Data synchronisation (`scripts/sync_jcc_data.py`, `app/jcc_data/snapshot_reader.py`) | immutable directories under `raw/`, `.sync.lock` | discover, download, publish, import, report | overlapping commands, crashes between the steps, changing origin | a revision is one content for ever; the database holds published directories |
| Snapshot store (`app/jcc_data/repository.py`, `app/api/jcc.py`) | `jcc_snapshots` and entity tables, the pointer `jcc_current_snapshots` | `import_snapshot`, `switch_current_snapshot`, reads | the pointer moves while a request is being answered; first import without a row to lock | a response is of one snapshot; no duplicate snapshot |
| Event stream (`runtime.py`, `app/api/agent.py`) | event ids, history of 100, subscriber queues of 100, `agent_run_events` | publish, persist, subscribe, replay, stream | persistence out of order, replay before subscription, ids that restart | a client misses no event, sees none twice, its stream ends |
| Tools and audits (`orchestrator.py`, `app/agent/tools/`) | `agent_tool_calls`, `agent_message_sources` | the tool loop | timeouts whose thread goes on, cancellation between audit and execution | every audit row ends; sources belong to calls that succeeded |
| RAG index (`app/rag/`) | generations of documents, the pointer `rag_current_indexes` | `index_snapshot`, `search_documents` | overlapping index runs, failures in the middle, pointer against snapshot | the pointer names a complete generation |
| Rate limiter (`app/core/rate_limit.py`) | hits of each user | `check` | boundary of the window, limit zero | at most `limit` requests in a window |
| Client of main (`app/clients/main_client.py`) | token cache | `report_audit_event`, `report_permissions`, `get_application` | expiry while in use, threads | no expired token is used |
| Authentication (`app/deps/`, `app/services/`) | Redis keys of another service | check token, blacklist, session | none of its own | – |
| Adapters (`app/jcc_data/adapters.py`, `validation.py`, `canonical_hash.py`) | none; what they accept becomes rows of the entity tables | `build_structured_snapshot` and its checks | ids of two kinds that coincide, tiers spread over records, files in any order, what the tables refuse later | what is accepted can be imported, and readers get what the files say |
| LLM client (`app/agent/llm/`), text of an answer (`orchestrator.py`) | text and usage of the execution, `output_content`, tokens | stream, complete with tools, `_save_streaming`, `_finish` | a provider that stops anywhere, saves that commit late, the limit of the text, the timeout | what was sent is stored; a completed answer is whole; an execution ends |
| Summary (`app/agent/summary.py`) | none that is kept | `compact_history` | – | – |
| Schemas, settings, logging, health, seed, migrations, evaluation, deployment | configuration | – | – | – |

How they interact: `POST .../messages` writes the message (Conversations) and its
run, and hands it to the runtime (`enqueue`); the runtime's consumer calls
`execute()`, which writes run, message and assistant message from worker
threads and publishes events to subscribers; `POST .../cancel` writes the
request to the rows and calls `cancel`; `start()` reads what an earlier process
left. The sync command writes directories and snapshots; the endpoints of
`app/api/jcc.py`, the tools and the index read the current snapshot.

The hazards that follow from this are listed in `PROJECT.json` with the line
where each bites and the properties that are about it.

## 2. The modules

| Module | What it is | Code |
|---|---|---|
| `AgentRuntime` | the runtime of one conversation, its orchestrator and HTTP handlers, over the rows of runs and messages | `runtime.py`, `orchestrator.py`, `api/agent.py`, status updates of `conversations/repository.py` |
| `RunLifecycle` | abstract: the status machine of a run as a polling client sees it; implemented by `AgentRuntime` | – |
| `AgentRuntimeProofs`, `ConversationsProofs`, `SnapshotSyncProofs`, `EventStreamProofs`, `ToolLoopProofs`, `RagIndexProofs`, `AnswerStreamProofs`, `StructuredDataProofs` | TLAPS proofs about the module of that name | – |
| `Conversations` | one conversation's rows, written by overlapping transactions, statement by statement | `conversations/service.py`, `repository.py`, `_complete` |
| `MessageLog` | abstract: an append-only log with idempotent requests; implemented by `Conversations` | – |
| `AnswerStream` | text and usage of one answer from the provider to client and rows, each transaction a step | `llm/`, `orchestrator.py` (`_stream_text`, `_run_tool_loop`, `_save_streaming`, `_complete`, `_finish`) |
| `SnapshotSync` | sync commands, operators and readers over directories and snapshots | `sync_jcc_data.py`, `jcc_data/`, `api/jcc.py` |
| `StructuredData`, `MCStructuredData` | from the records of the files to rows and to what readers are served; the second has the sources the run tries | `adapters.py`, `validation.py`, `repository.py`, the constraints of migration `0002` |
| `EventStream` | numbering, storing, replaying and streaming the events of one conversation | `runtime.py` (`_publish`, `_persist_event`, `replay`, `subscribe`), `message_events` of `api/agent.py` |
| `ToolLoop`, `MCToolLoop` | the tool loop of one run with its audits and sources; the second adds the symmetry of the run | `orchestrator.py` (`_run_tool_loop` and what it calls), the tables of `agent/models.py` |
| `RagIndex`, `MCRagIndex` | index commands and the searches of runs over generations and the pointer; the second adds the symmetry | `app/rag/` |
| `RuntimeClaims`, `ConversationClaims`, `SyncClaims`, `EventClaims`, `ToolClaims`, `RagClaims`, `AnswerClaims` | what documents say and the code does not do | the documents quoted in section 6 |

`AgentRuntime` and `Conversations` share the message rows: the first has their
status and leaves out their sequence, the second has sequence, request id and
mode and leaves out their status. Neither writes what the other leaves out, so
they are checked apart. `EventStream`, `ToolLoop` and `AnswerStream` look closer
at what `AgentRuntime` has as one step each: the publication of an event, the
tool calls of the LLM's work, and its text, which includes the timeout that
`AgentRuntime` assumes to end that work. Each keeps as much of the runtime
around it as can disturb it (a message that becomes final, a cancellation, a
restart), and `AnswerStream` is checked against the same status machine,
`RunLifecycle`. `SnapshotSync`, `RagIndex` and `ToolLoop` share only the pointer to
the current snapshot, which moves at any time in the latter two.
`StructuredData` looks inside the import that `SnapshotSync` interleaves: it
justifies that a snapshot row stands for its entity rows, and that there are
contents whose import always fails (`Invalid`). Operators named `...Bug` are variants of an operation
with a plausible mistake; each is the evidence that some property would notice
that mistake (`PROJECT.json`, "mutants").

### AgentRuntime

Conversations share no lock, queue or row, so there is one conversation.
Messages are numbered in the order of `created_at`.

| Variable | Code |
|---|---|
| `run`, `msg` | `agent_runs.status`, `agent_messages.status` |
| `answers` | how many assistant messages `_complete` inserted for the message |
| `waiters`, `enq` | the `enqueue()` calls at `runtime.lock`, in order, and where the one that holds it is |
| `queue`, `consumer` | `runtime.queue` (capacity one), the task `_consume` |
| `exec` | `current_message_id` and the point where `execute()` is suspended |
| `jobs` | transactions in worker threads that no coroutine awaits any more, and those of the cancel endpoint |
| `recover`, `mode` | the rest of the list of `start()`; starting, up, stopping, down |
| `asked`, `published`, `spent` | accepted cancellations, published terminal events, use of the bounds |

Actions: `CreateMessage`, `RetryMessage`, `CancelMessage` (handlers);
`EnqueueStart`, `EnqueueAwaited`, `CancelQueuedSelect`, `CancelQueuedUpdate`,
`EnqueuePut` (`enqueue`); `ConsumerTake`, `ConsumerResume` (`_consume`);
`ExecStart` ... `ExecFail` (`execute`); `ThreadCommits` (abandoned
transactions); `Crash`, `CrashInCreateMessage`, `Stop`, `StopTimesOut`, `Exit`,
`Restart`, `EnqueueExisting`, `Started` (process); and the database errors
`ThreadRaises`, `CancelQueuedRaises`, `ConsumerRaises`, `ExecRaises`,
`CompleteRaises`.

LLM work and the tool loop are one step that answers or fails; their saves move
a run from "running" to "running". Nothing else of them touches these variables.

### Conversations

A transaction (`tx`) loads the conversation, takes the advisory lock, and works
with what it loaded: the ORM does not read the row again. `Load`, `Lock`,
`LookUp`, `Allocate`, `Insert`, `Commit` are the statements others can observe
or wait for; `Patch`, `Archive` and `PostEnds` commit in the step of their last
statement, under the lock. Answers (`create_assistant_message`) enter at
`Allocate`. `Lose` is a connection or a process that dies.

### SnapshotSync

`proc` says where each command, switch or request is and what it has read; a
process that has ended remembers nothing but what it imported, and `ended` is
its exit code, with the collisions the code raises an error for told apart.
`Acquire`, `Discover`, `Download`, `Publish`, `Release`, `ImportBegin`,
`ImportCommit`, `Report` follow `main()` of the command; a
directory is a record of version, revision and content. `Download` may return
any content at all, so an origin that changes between two files is included.
A snapshot row stands for its entity rows too: the same transaction inserts
them, and no code updates or deletes one. `Report` covers an answer from main
that never comes; a commit whose acknowledgement is lost is `Kill` after
`ImportCommit`. A request reads the pointer and then, statement by statement,
the snapshot and its rows, of which two are enough to see the pointer move
between them.

### StructuredData

`source` is one of the sources the origin may serve, each file the sequence of
its records in the order of the JSON text. A step is one import: of the source,
of the same in another order (`Reordered`), or of another revision (`Base`).
`Accepts` is the conjunction of the checks of `build_structured_snapshot`,
`Structured` its result, `Inserted` the tables with the new rows and `Fits` the
constraints of the tables; `Known`, `New` and `Rejected` are the outcomes of
`import_raw_snapshot`. Ids are small integers, -1 and 0 the sentinels; of the
other fields of a record it is kept whether they are accepted and fit their
columns (`text`), because no check relates them. `SourcesAssumption` says what a
file is: a JSON object of records, under keys of which none comes twice. A table
to whose rows others refer is a function from row ids to rows, the others are
sets of rows; a row id is the snapshot with the place of the record (kind and external id
for a trait), so no two rows share one, and no reader computes with it. `Ordered` is ORDER BY: the numbers
of a set by their rank. `HeroItems`, `TraitItems`,
`EquipmentItems`, `SimpleItems` and `HeroesWith` are the readers, through row ids as
the joins go; `Served` is what they should answer, written from the source
alone.

### EventStream

`status` and `phase` follow each message from its POST to the end of
`execute()`; a message is open, then final, and `owed` says who has made it final
and will announce it: the executor, the caller that cancelled it, or both.
`sequence`, `history` and `saving` are the numbering, the bounded history and the
threads of `_publish`; `stored` is `agent_run_events`; `client` holds each
connection with its replay, its subscriber queue and what it has received.

Actions: `Post`, `EnqueuePut`, `ConsumerTake`, `ExecPublish`, `Finish`,
`Announce`, `ExecEnds` (the runtime); `Persist`, `PersistFails` (threads); `Open`,
`Load`, `Subscribe`, `Refuse`, `RefreshFails`, `SendReplay`, `EndReplay`,
`Receive`, `Disconnect` (`message_events`); `Restart`. The test of the limit of
streams and the subscription are one step, because nobody ever waits for the
manager's lock; `replay()`'s fallback to the history is read in that step too.
Retried messages are left out. `since` and `full` are bookkeeping for the
properties.

### ToolLoop

The inside of the step "llm" of `AgentRuntime`. `loop` is the coroutine: the
`await` where it is suspended (a thread, the model or a tool), the calls of the
round that are left, the status being written. `audits` and `sources` are the
rows, `pin` the snapshot of the run, `late` the transactions whose coroutine has
gone, `told` what the model was told of each call; `executed` and `clean` are
history variables.

Actions: `Begin`, `ResolveSnapshot`, `ModelAnswers`, `ModelCalls`, `ModelFails`,
`AuditCreated`, `AuditRefused` (the unique key of run and `tool_use_id`),
`ToolOutcome`, `AuditFinished`, `SourcesSaved`, `TransactionRaises`, `Interrupt`
(cancellation, newer message or timeout, at any `await`), `LateCommits`,
`MarkCancelled`, `ExecutionEnds`, `CrashAndRestart` (with `_requeue_run`),
`MoveCurrent`. The tests of `cancel_event` after an `await` never fire, because the
same cancellation raises `CancelledError` at that `await`. The tool of a call
that timed out goes on in its thread and only reads. Saves of streamed text
are part of the step of the model.

### AnswerStream

`exec` is one execution: where it waits (for the provider, for a thread, for a
tool), the text so far, the usage counted and the usage `execute()` holds. `jobs`
are the transactions in worker threads, each with the text and usage it was
given, so that one that was left behind commits what was true earlier. `run`,
`out`, `tokens` and `answers` are the rows; `sent` is the text of the events of this
execution (a client starts again from the beginning after a restart).

Actions: `Delta`, `StreamEnds`, `Response`, `ProviderFails` (the provider);
`Start`, `SaveReturns`, `ToolsDone`, `FinishReturns` (the coroutine goes on);
`ThreadCommits`, `ThreadRefused` (the check on the length of a message),
`ThreadRaises`; `Timeout`, `UserCancels`, `NewerMessage`, `Crash`, `Requeue`,
`Restart`. `tools` chooses between `_run_tool_loop` and `_stream_text`; only the
second tests the limit itself. A text is a sequence of chunks and its length
their number. The end of a body without "[DONE]" is the end of the answer, as
in the code.

### RagIndex

A generation has the name of the command that built it, and a vector is what it
was computed from: a content and a model with its dimension. `job` is each
command: `Begin`, `ReadPointer`, `Embed` (a batch, of which any document may
fail), `Publish`, `Fail`, `Kill`. The command is one transaction, so nothing
of it is seen before `Publish`, which retires what the command had found current
and moves the pointer; a failure or a kill is a rollback. Runs update rows by
primary key in the same order (run, pointer), so they do not deadlock. `reader`
is a run: `Pin`, `SearchPointer`, `SearchRows`. The order of rows inside a
batch is arbitrary, as `updated_at` does not determine it. `published` and the
`base` of a job are history.

## 3. Atomicity

* Each transaction of the runtime updates the run row, then the message row, and
  commits. `UPDATE ... WHERE status IN (...)` under READ COMMITTED waits for a
  concurrent update of the row and evaluates its condition on the result, so
  such a transaction is one step. `_cancel_queued` reads first and updates
  later and is two.
* Handlers of `api/agent.py` that are coroutines use the database without
  suspending: they run to their first `await` in one step. An `asyncio.Lock`
  nobody holds is acquired without suspending.
* `Task.cancel()` takes effect at the `await` where the task is suspended. When
  that is `asyncio.to_thread`, the thread's transaction goes on if it has
  started and is dropped otherwise (`kept`).
* `PATCH` and archive run in the thread pool and `_complete` in a worker thread,
  so they overlap with a `POST`; two `POST`s overlap when there are two processes,
  for instance during a deployment.
* `uvicorn` serves no request before `start()` returns and has answered all of
  them before `stop()` is called. A crash may come at any time.

## 4. Runs, bounds and fairness

Deadlock is not checked: the environment acts finitely often, so the system
comes to rest.

| Run | Instance | Shows |
|---|---|---|
| `runtime_recovery` | 2 messages, 1 retry, 1 cancellation, 1 crash or stop, 1 database error | `TypeOK`; run and message agree; a run in execution is moved by nobody else; late transactions and `start()` own nothing another part owns; terminal statuses are final; `AgentRuntime` implements `RunLifecycle` |
| `runtime_liveness` | 3 messages, 1 cancellation, fair | an accepted cancellation is never followed by completion; one answer at most, and one for a completed message; queued and cancelling runs do not stay so; `enqueue()` returns |
| `runtime_settles` | 1 message, 2 cancellations, 2 crashes or stops, 1 database error, fair | the run reaches a terminal status unless an error comes in between; after the last error and a restart it does so again |
| `conversations_rows` | 2 posts, 1 patch, 1 archive, 1 answer | sequence numbers are the commit order without gaps; a request id has one message; replies name the sender's message; somebody can always go on while a transaction is open; the rows implement `MessageLog` |
| `sync_commands` | 3 commands, 1 switch, 1 reader, 1 version, 3 contents, 1 of them unusable, fair | no command finds its number or key taken; revisions are 1, 2, ... and differ; the database holds published, usable directories once; a snapshot is reported at most once, and a missing report has a failed command; a response is of one snapshot; everyone who begins ends |
| `structured_import` | 3 imports of every source of `MCSources` (some 3 800), of its reverse and of another revision | readers get what the files say; what is accepted is imported, but for a width or an adventure id the adapters do not look at, and never found incomplete |
| `event_stream` | 1 message, 1 client that connects twice, history and queues of 2, 1 restart, 1 failed transaction, fair | up to a restart no event comes twice or out of order; nothing is missed from the subscription on unless a full queue refused it; no ending of a stream leaks its slot; the stream of a final message ends |
| `answer_stream` | 1 run in both modes, 2 chunks, limit 2, 2 tool rounds, usage up to 2, 1 cancellation, 1 newer message, 1 crash, 1 failed transaction, fair | what was sent is stored; a completed answer is whole, within the limit and has its usage; a final row does not change; an execution ends; the status machine holds |
| `tool_loop` | 3 call ids, rounds of up to 2 calls, 2 rounds, 2 interruptions, 1 crash, 1 database error, 1 move of the current snapshot, symmetry | the model is told what the audits say; sources belong to calls that succeeded; a run reads one snapshot; an ended call is not touched again; a call whose tool ran is ended when nothing failed |
| `rag_index` | 3 commands, 1 searching run, 2 snapshots of 2 documents with 2 contents, 2 models, batches of 1, limit 1, symmetry | a generation is complete and its vectors are its own contents'; the pointer names an active generation, the only one unless commands overlapped; a search is of the pinned snapshot |
| `claim_*` | see section 6 | a disagreement |

Bounds. Two messages make one current and one newer; the third adds the queued
one between them, which is all the roles the queue of one knows. One
cancellation, one retry and one crash are enough to meet each other at every
await, and the second of each in `runtime_settles` meets a restart. Two posts
with one key race for a number and for the key while the answer takes no lock.
Three commands are needed for a content that returns (c1, c2, c1). Versions
share nothing but the locks, the pointer and the order of ids, so one is enough
for the numbering. The sources of `structured_import` vary one file at a time,
or a trait together with its tier records, because no check relates more; three
imports are a first, one in another order and one after another revision was
current. A limit of two chunks is reached and passed in both modes.
The contents, request bodies and keys are as few as make two of them differ
or agree. A history and queues of two are full after the events of one message,
so the cursor that has expired and the refused event both happen; what a second
message does to a stream is in `EventClaims`. Three ids in rounds of two reuse
an id within a round, between rounds and after a crash. Three index commands
make a chain of generations through which a vector is taken over twice. The
symmetries of `MCToolLoop` and `MCRagIndex` permute values no definition tells
apart, in runs that check no liveness. The proofs of section 5 hold for all bounds.

Fairness. `FairSpec` of `AgentRuntime` assumes that the event loop runs a task
that can run, that the pool runs what is submitted, that LLM work ends
(`asyncio.timeout` around it), and that a supervisor restarts the process
(`Restart`). It assumes no request, cancellation, crash or error. `FairSpec` of
`SnapshotSync` assumes that some process that can go on does; nobody is obliged
to begin. `FairSpec` of `AnswerStream` assumes that the event loop runs what is
ready, that threads end and that `asyncio.timeout` fires, and nothing of the
provider or a tool: `ExecutionEnds` is why `AgentRuntime` may assume that LLM work
ends. `FairSpec` of `EventStream` assumes that who
has made a message final goes on to announce it, and that a client that is
connected reads (`Announce`, `Stream`); nobody is obliged to post, connect, store
or finish. `Conversations` needs no fairness: `NobodyIsStuck` says that in no state
everyone waits. An error in
`_consume` ends the consumer (see the hazards) and only a restart replaces it, so
`runtime_liveness` has no database error, and `RunSettles` promises progress after
one only from the next restart on.

The type invariants of the modules other than `AgentRuntime` are in no run:
section 5 proves them (that of `StructuredData` is in `StructuredDataProofs`).

`AskedNeverCompletes` is checked without restarts and refuted with them
(section 6). `RunSettles` is checked for one message without retries and is
not true of two messages or of a retry, for the reason `claim_single_running`
shows.

## 5. Proofs

Each proof module proves its theorems for all values of the constants: any
number of messages, requests, commands, clients, calls or imports, any files, any
length of queues, histories, batches, texts and limits, and any number of crashes, faults and
cancellations. Each has the same form: an inductive invariant `IInv`, the proof
that `Init` has it, one lemma for each action (or group of actions) that it keeps
it, `Invariance == Spec => []IInv`, and from that the theorems.
TLC finds every `IInv` true on the instance of the module's run (with `Nat` in
`Numbered` of `SnapshotSyncProofs` replaced by a bound; that of
`StructuredDataProofs` on the sources of `MCSources` that are accepted, without the
type of the snapshots, which is an infinite set). The runs check the same properties on small instances.

### What is proved

| Module | Theorem | Statement |
|---|---|---|
| `AgentRuntimeProofs` | `TypeCorrect` | `Spec => []TypeOK`, the capacity of the queue included |
| | `RowsAgree` | `Spec => []RunMessageAgree` |
| | `ExecutionIsExclusive` | `Spec => []ExecutingIsRunning` |
| | `OwnershipHolds` | `Spec => []Ownership` |
| | `TerminalIsFinal` | `Spec => TerminalStable` |
| | `ImplementsLifecycle` | `Spec => LifecycleSpec` |
| | `AnswersAreUnique` | `Spec => [](FirstProcess => AnsweredOnce)` |
| | `CancellationStands` | `Spec => [](FirstProcess => AskedNeverCompletes)` |
| `ConversationsProofs` | `SequencesFollowCommits` | `Spec => []SequenceIsCommitOrder` |
| | `RepliesAreOfTheRequest` | `Spec => []ReplyIsTheMessage` |
| | `RequestIdsAreUnique` | `Spec => []OneRowPerKey`: no two rows have one request id |
| | `SomebodyIsNotBlocked` | of the open transactions one waits for nobody |
| | `ImplementsLog` | `Spec => LogSpec` |
| `SnapshotSyncProofs` | `NoCommandConflicts` | `Spec => []NoConflict` |
| | `RevisionsAreDistinct` | `Spec => []RevisionsDiffer` |
| | `DatabaseIsPublished` | `Spec => []DatabaseMatchesRaw` |
| | `ReportsAreUnique` | `Spec => []ReportedOnce` |
| | `ResponsesAreOfOneSnapshot` | `Spec => []OneSnapshot` |
| `EventStreamProofs` | `EventsComeInOrder` | `Spec => []IdsIncrease` |
| | `SubscribersMissNothing` | `Spec => []NothingIsLost` |
| | `SlotsAreGivenBack` | `Spec => []SlotsAreStreams` |
| `ToolLoopProofs` | `TheModelIsToldWhatIsRecorded` | `Spec => []ToldIsRecorded` |
| | `SourcesBelongToSuccesses` | `Spec => []SourcesAreOfSuccesses` |
| | `RunsReadOneSnapshot` | `Spec => []OneSnapshot` |
| | `CallsAreEnded` | `Spec => []ExecutedCallsEnd` |
| | `EndedCallsAreFinal` | `Spec => EndedStaysEnded` |
| `RagIndexProofs` | `GenerationsAreComplete` | `Spec => []GenerationIsComplete` |
| | `OneGenerationIsActive` | `Spec => []OneActiveUnlessOverlapping` |
| | `SearchesAreOfTheSnapshot` | `Spec => []SearchIsOfSnapshot` |
| `AnswerStreamProofs` | `ClientsAreSentWhatIsStored` | `Spec => []SentIsStored` |
| | `AnswersAreWhole` | `Spec => []CompletedIsWhole` |
| | `OutputsAreFinal` | `Spec => OutputIsFinal` |
| | `StatusFollowsLifecycle` | `Spec => LifecycleSteps` |
| `StructuredDataProofs` | `AcceptedSourcesAreImported` | `Spec => []AcceptedIsImported` |
| | `ReadersServeTheFiles` | `Spec => []ReadersGetTheSource` |
| | `StructuredTypeOK` | `Spec => []TypeOK` |
| | `OrderedSorts` | `Ordered` of a finite set of integers is its elements, ascending |

The `IInv` of each module includes its `TypeOK` or `TypeCorrect` states it.

### From which assumptions

Each is named in the module it is about, and TLC evaluates it in every run.

| Assumption | Why the code justifies it |
|---|---|
| `NAssumption`, `BoundsAssumption` (`AgentRuntime`) | there is a message; the bounds on the environment are numbers |
| `TxnsAssumption` (`Conversations`) | there are finitely many transactions, each of one kind; no key is the absent one |
| `ProcsAssumption` (`SnapshotSync`) | a process is a command, a switch or a request |
| `EventAssumption` (`EventStream`) | lengths of history and queues are positive; there are finitely many clients |
| `IterationsAssumption`, `NoneAssumption` (`ToolLoop`) | numbers of rounds and calls are numbers, with at least one call; the absent value is no snapshot and no verdict |
| `IndexAssumption` (`RagIndex`) | documents are numbered and finitely many; batches and limits are positive; the absent value is no snapshot, command or model |
| `AnswerAssumption` (`AnswerStream`) | limits are numbers |
| `ImportsAssumption` (`StructuredData`) | the number of imports is a number |
| `SourcesAssumption` (`StructuredData`) | `_data` requires a file to be an object, and `json.loads` keeps one record for a key; it says nothing of ids, relations, lists or levels, so most sources it admits are rejected |

### Along which argument

`AgentRuntime`. `IInv` is `TypeOK`, `RunMessageAgree`, `ExecutingIsRunning` and
`Ownership`. `RunMessageAgree` is not inductive alone: `_cancel_queued` and
`_enqueue_existing` update rows from lists made earlier, and the rows agree
afterwards only because every listed message has a run (`ExecShape`).
`ExecutingIsRunning` says that nobody moves the run `execute()` works on; a
transaction left in a thread would, so `JobsOwnNothing` says for each kind of
transaction what its run can no longer be when it is left, and
`RecoverOwnsNothing` says the same of the list of `start()`. The refinement maps
`status` to `run` and `serving` to `mode = "up"`, and gives, for each action, the
transition of `RunLifecycle` it takes or that it takes none. That a message has
one answer needs a second invariant, `UInv`: no answer exists for a run that may
still be completed, and a run whose cancellation was accepted is cancelling or
has ended otherwise. `FirstProcess` (no crash or stop yet) is its only
hypothesis, and both theorems need it: after a restart `_enqueue_existing`
returns a cancelled run to the queue although its answer may have been
committed by a thread, and TLC then finds a second answer (N = 1, 1
cancellation, 1 crash) as it finds the cancelled run completed (section 6).

`Conversations`. Answers take numbers without the advisory lock, so the lock is
not why the numbers are unique. `Inserted` says what is: a transaction
that has inserted has the next number and a key no row has, and no other has
inserted; `OneRowPerKey`, `WritersEnded` and `Unanswered` keep what a replay finds
equal to what was asked. The refinement evaluates `Texts` and `Positions` under
this invariant, because a row's number is its place. `SomebodyIsNotBlocked` is
the part of `NobodyIsStuck` that needs no ENABLED: `LockIsHeld` gives a chain of
waits of length two at most, from the lock to its holder and from there to the
transaction that has inserted.

`SnapshotSync`. `FilesInv` says that revisions are `1..n`, and that what a command
has seen between `Acquire` and `Release` is still so, which holds because of
`Exclusion`; `DatabaseInv` says the same of what an open transaction has read, and
`ReportsInv` that a snapshot has one importer.

`EventStream`. `RequestInOrder` orders the three places an event of a
request can be: what was received, what is left of the replay, what waits in the
queue. `IdsAreUnique` is the unique key. The replay sorts stored rows, and that a
finite set of rows can be sorted is an induction. It is done by least
counterexample (`LastExists`, `SortedExists`): the subsets that have no sorted
sequence would have a smallest element in the well-founded order of strict
inclusion, and that one without its last element can be sorted.

`ToolLoop`. `OfThePin`, `CallIsAudited` and `ExecutedWillEnd` say what a thread
that commits late may still write, and that a call whose tool ran is the current one
or has a thread that will end it. `Shape` says that nothing is late before an
interruption.

`RagIndex`. `WhatIsBuilt` is `GenerationIsComplete` of a generation under
construction, with vectors missing; `History` and `WhatWasCurrent` relate the
pointer, and what a command found current, to the sequence of publications.

`AnswerStream`. `WhatThreadsWrite` says that a transaction in a thread writes the
whole text of the execution, and `Shape` where that text is ahead of what was
sent. `StatusFollowsLifecycle` checks each transaction against `RunLifecycle`.

`StructuredData`. The invariant says of every snapshot that it is the content of an
accepted source and that its rows in each table are exactly those the source
demands (`Holds`), under the ids section 2 describes; that rows
are of a snapshot that is there (`Linked`); and that the unique keys hold. An
import adds rows under the next snapshot only, so that what the earlier
snapshots hold stays. `HeldIsComplete` counts: records and rows are related by
injective functions, so `_snapshot_is_complete` never refuses what the tables
hold, in whichever order the records come the second time. `InsertedFits` shows
that the checks of the adapters imply every unique key and width but the two
`AcceptedIsImported` names. `ViewIsServed` follows the readers join by join from the
rows back to the records. Sorting needs no induction: an element's rank is
the number of smaller ones, ranks differ and lie below the cardinality, so
every place has one element (`OrderedSorts`).

### Only model-checked

* Liveness (`WaitingSettles`, `EnqueueReturns`, `RunSettles`, `CommandsEnd`,
  `StreamEnds`, `ExecutionEnds`): it rests on fairness, which is beyond the prover.
* `NobodyIsStuck`, which is stated with ENABLED; `SomebodyIsNotBlocked` is what is
  proved of it.

## 6. Where documents and code disagree

Two disagreements have a run in which TLC finds the counterexample.

* `claim_single_running` – "单会话最多一条 running/streaming"
  (`docs/JCC_AI_AGENT_RAG_IMPLEMENTATION_PHASE_2_PLAN.md:64`). Message 1 is
  executed; `_mark_running` commits. Before `execute()` has entered its `try`,
  message 2 arrives and `enqueue()` cancels the task. Nothing moves run 1 out
  of "running", and message 2 is started. Run 1 stays so until a restart.
* `claim_index_failure` – "新 generation 构建或 provider 失败时标记失败并保留旧 pointer"
  (`docs/JCC_AI_AGENT_RAG_IMPLEMENTATION_PHASE_4_PLAN.md:41`; also "失败保存有限 error
  code", `PHASE_4_EXECUTION.md:114`). The row of the index run is written by the
  transaction that the failure rolls back, so the handler finds no row to mark.

More of them hold of the models and have no run here; TLC finds each with the
constants given, as `INVARIANT` (or `PROPERTY`, marked P) of the module.

| Definition | Constants | Document | What happens |
|---|---|---|---|
| `AgentRuntime!AskedNeverCompletes` | N = 1, 1 cancellation, 1 crash | `jcc-ai-agent-rag-implementation-plan.md:1281` | a cancellation is accepted, the process dies, `_enqueue_existing` forgets the request and the run completes |
| `RuntimeClaims!NewestNotSuperseded` | N = 2, other bounds 0 | `jcc-ai-agent-rag-implementation-plan.md:1278` | `enqueue()` of an older message, late at the lock, cancels the newest one |
| `RuntimeClaims!SupersededIsSkipped` | N = 2, other bounds 0 | same, `:494` | `_cancel_queued` announces what it selected, not what it updated |
| `RuntimeClaims!AnswerOnSuccess` | N = 2, other bounds 0 | `PHASE_2_EXECUTION.md:53` | `_complete` inserts the answer although it moved no row |
| `RuntimeClaims!StopKeepsRuns` (P) | N = 1, 1 crash | `PHASE_2_PLAN.md:98` | `stop()` cancels the task, whose handler marks the run cancelled |
| `RuntimeClaims!RestartKeepsNewest` (P) | N = 2, 1 crash | `jcc-ai-agent-rag-implementation-plan.md:1393` | `start()` enqueues the oldest run, which cancels the newer one |
| `RuntimeClaims!MessageHasRun` | N = 1, 1 crash | `PHASE_2_PLAN.md:88` | message and run are committed separately |
| `AgentRuntime!RunSettles` (P, `FairSpec`) | N = 1, 1 retry | same | the retry cancels the task that had just marked the run |
| `ConversationClaims!ArchivedIsReadOnly` (P) | 1 post, 1 archive | `PHASE_1_PLAN.md:40` | a request waits for the lock behind an archive and tests the status it had loaded before |
| `ConversationClaims!ArchiveOnce` | 2 archives | `PHASE_1_EXECUTION.md:92` | both write `archived_at` |
| `ConversationClaims!SequenceSerialised` | 1 post, 1 answer | `PHASE_1_EXECUTION.md:94` | an answer takes the number between SELECT and INSERT of a post |
| `ConversationClaims!ConflictIsAnotherPayload` | 2 posts, 1 patch | `PHASE_1_PLAN.md:95` | the same request is a conflict after the mode it inherits was patched |
| `SyncClaims!ImportIsNotStale` (P) | 3 commands, 1 version, 2 contents | `README.md:429` | the file lock is released before the import; the command that is behind makes its older revision current |
| `SyncClaims!NormalRunKeepsCurrent` (P) | 3 commands, 1 switch, 1 version | `JCC_LOL_STRUCTURED_DATA_API_IMPLEMENTATION_PLAN.md:809` (against `:492`) | a normal run undoes a switch |
| `EventClaims!ReplayIsOfTheRun` | N = 2, 1 client, 1 connection | `PHASE_5_PLAN.md:37` | a replay reads the events of `current_run_id`, whichever message was asked for |
| `EventClaims!EndsWithItsMessage` (P) | same | `PHASE_2_EXECUTION.md:145` | a stream ends with the final event of any message of the conversation |
| `EventClaims!TerminalIsReplayed` (P) | N = 1, 1 client, 1 connection | `PHASE_2_EXECUTION.md:72` | some events are stored and the final one is not yet; the stream ends without it |
| `EventClaims!IdsAreStable` | N = 1, 1 delta, 1 restart | `PHASE_5_PLAN.md:55` | a new process counts from 1 and the unique key drops what it repeats |
| `AnswerClaims!UsageIsRecorded` | 1 chunk, 1 turn, limit and usage 2, other bounds 0 | `PHASE_5_EXECUTION.md:37` | the usage reaches `execute()` when the loop returns; a run that fails before records none |
| `RagClaims!FindsTheMatch` | 1 snapshot, 2 documents, limit 1 | `PHASE_4_EXECUTION.md:49` | the limit is applied in the order of the last update, before the ranking |
| `ToolClaims!AuditsEnd` | 1 call, 1 interruption | `PHASE_3_EXECUTION.md:48` | a run interrupted while its audit row is created leaves the row running for ever |
| `ToolClaims!SuccessesHaveSources` | 1 call, 1 database error | same | the call is committed as succeeded before its sources, which fail |

## 7. What is not modelled

* The rate limiter: a deque of times under a lock that nobody ever waits for,
  in one process. The token cache: one dictionary filled under a lock with a
  second test inside it.
* `compact_history` and `save_summary`: `_history` loads at most
  `context_messages` messages, with which `compact_history` returns its input, so
  no summary is written (`PHASE_5_PLAN.md:36` has one in the prompt).
* The selection of a lineup, paging and the search in names: reads of rows that
  do not change.
* What a tool selects: in `ToolLoop` a tool is how it ends and of which snapshot
  its sources are.
* The requests of the LLM and embedding clients, and the prompts: the models
  have what may come back of a provider.
* Authentication: a pure check of a token and two keys that another service
  writes.
* Schemas, logging, settings, health, seed, evaluation, workflows: no state of
  their own.
* SQLite: the tests use it; the locks and waits of the models are PostgreSQL's.
* Titles, contents and timestamps, except where two of them are compared.
* The migrations other than `0002`, whose constraints the SQLAlchemy models
  repeat.

## 8. Plan

Done: all modules of section 2, their runs, and the proofs of section 5.
Left: the safety part of the liveness properties as invariants such as
`LockIsHeld`: for each waiting state, whose step ends it. What has no property yet
is marked in the hazards of `PROJECT.json` with the reason.
