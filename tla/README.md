# TLA+ verification of the Leon control plane

Leon is a personal assistant: a Python control plane over one SQLite database,
worker processes that execute approved jobs, and a web client. This directory
holds TLA+ modules translated from the source, the TLC runs over them and
TLAPS proofs. Paths below are relative to `src/src/leon_control_plane/` unless
they begin with `docs/`.

## 1. The system

| Part | State | Operations | What makes it hard |
|---|---|---|---|
| Work queue (`work_queue.py`) | `work_jobs`, `work_checkpoints`, `agent_run_work` | enqueue, control (pause, resume, cancel), claim, checkpoint, enqueue/recover/reconcile agent runs | several workers, leases that expire, crashes between claim and checkpoint, late workers |
| Local worker (`local_worker.py`) | the claim in memory | run_once, the three steps of a read-only project check | files are edited while they are read, steps run in different workers |
| Model work (`model_work.py`, `openai_text.py`) | ledger `model_work` | insert, `_begin`, the provider call, recording the outcome | money: a crash after the request left, a late outcome, two callers of one budget, midnight |
| Usage receipts (`model_receipts.py`) | `model_usage_receipts` | record, reconcile | the charge is known before the answer is |
| Agent assignments and runs (`store.py`, `agent_assignment.py`) | `agent_assignment_proposals`, `agent_runs` | propose, reject, apply, create, complete, review | several transactions per operation; reads outside the transaction that writes |
| Tasks and approvals (`store.py`) | `tasks`, `approvals` | create, decide, approve, consume, continue, update status | the same; single use of an approval |
| Orchestration proposals (`store.py`) | `orchestration_proposals` | propose, apply, reject | apply is several transactions, with the owner acting in between |
| Audit chain (`store.py`) | `audit_events` | append, validate | the end of the chain may be read outside the write lock |
| Self improvement (`self_improvement_api.py`) | owned directories in memory, approvals | preview, run, sweep | two runs of one approval, a changed deployment, a restart |
| Research (`research_executor.py`) | `research_credit_reservations` | preview, run | credits; parallel runs of one preview; changed settings |
| Shopper (`shopper_service.py`) | watches, runs, contacts, replies | create, run, contact, follow_up, hold | runs taken for dead that live, lost outcomes, two processes in one conversation |
| Decisions (`decision_layer.py`, `risk_policy.py`, `model_policy.py`, `orchestrator.py`) | `decisions` | decide, assign model, propose | three policies judge one text and must agree |
| Permissions (`tool_registry.py`, `connector_registry.py`, `store.py`) | manifests, checks, rollback records | edit, review, check | manifest, approval and record in three transactions |
| Memory and sources (`store.py`) | items, sources, graph, retrievals | create, correct, update, delete, scrub, block, retrieve | updates from stale reads, shared graph entities, erasure during retrieval |
| Night queue and brief (`night_queue.py`, `morning_brief.py`) | `night_queue_runs`, briefs | run_once, brief, regenerate | an action that fails after some of its writes; the fallback; overlapping runs |
| GPU lease (`gpu_lease.py`) | lock file, `waiting` | acquire, prune, release | process death, priority against waiting, ghosts of tickets |
| Thermal guard (`thermal_guard.py`) | memory, state file | sample, cut, recover, notify | restarts in the middle of a step, hysteresis |
| Calendar writer (`calendar_writer.py`) | `calendar_operations`, a lock file | execute, reconcile, recover | lost and late answers, replays by chat and worker |
| Chat (`chat_api.py`, `chat_actions.py`) | `chat_messages`, `chat_actions` | preview, submit, recover, refresh, run command | orphaned messages, commands started twice, context that changed |
| Personal tasks (`personal_tasks.py`) | task, job, `personal_task_results` | execute, control, reconcile, publish | chat thread, worker and owner move one task |
| Code worker and function calls (`code_worker.py`, `code_tools.py`) | `code_builds`, `generated_tool_*` | enqueue, run_once, finish, transition; call, process, invoke | a service that dies after any write, work that must not run twice |
| Conversation learning (`conversation_learning.py`) | journal of batches, messages that were read | reflect, apply | a night may die after any write and is resumed; the owner erases and repeats what was learned |
| Learned skills (`skill_discovery.py`, `skill_development.py`) | `skill_discoveries`, `skill_developments` | discover, develop, reconcile | two processes under two locks, tasks moved step by step while the owner moves them |
| HTTP server, web client, connectors, scripts, delivery, server routine | none or files | dispatch, I/O | requests run concurrently |

The queue is the hub: chat, personal tasks and agent assignments enqueue, the
worker claims, the model executor works inside a claim, and the results are
projected back by reconcile loops. Everything shares one SQLite file. Python's
`sqlite3` opens a transaction with the first INSERT or UPDATE. An operation
that begins with `BEGIN IMMEDIATE` is therefore atomic with what it reads; an
operation that first SELECTs and then UPDATEs by id is not. This distinction
decides how many actions an operation becomes.

What each part has to guarantee, in short: one owner per job and bounded
retries (queue); a paid request is bought once and within its budgets (model
work); a successful check describes one version of the files (local check);
one run per proposal and no invented answers (assignments); an approval is
spent once and is what opens a gate (approvals); an applied proposal is backed
by its task (orchestration); one chain that records exactly what was committed
(audit); approved code is applied once and tested as approved (self
improvement); one outside effect per request (research, calendar, function
calls, messages to sellers); nothing gated runs and nothing unsafe is ranked
(decisions); allowed writes have an approval, and those of class R4 a rollback
record on file (permissions); what was erased or blocked before a question was
asked is not in its answer (sources); a correction takes what it corrects out of
use when it is stored (memory); a run discloses what it left (night queue);
waiting requests are not starved (GPU); cooling is real (thermal guard); what was asked is settled and reported (chat, code worker,
personal tasks, calendar); nothing is learned twice and no skill is closed over a build that
does not work (learning).

## 2. Modules and their correspondence to the code

| Module | Models | Builds on |
|---|---|---|
| `WorkQueue` | queue, leases, workers, time | – |
| `ModelWork` | ledger, executor, receipts, reconciliation | EXTENDS `WorkQueue` |
| `PaidCall` | abstract: what the ledger promises of a purchase | refined by `ModelWork` |
| `LocalCheck` | project check over files that change | EXTENDS `WorkQueue` |
| `AgentAssignment` | proposal → run → job → review | uses what `WorkQueue` guarantees of a job |
| `Approvals` | approvals and the task state machine | – |
| `OneShot` | abstract: one outside effect per operation | refined by `CalendarWriter`, `Research`, `ToolCalls` |
| `GpuLease`, `ThermalGuard`, `CalendarWriter`, `Chat`, `CodeBuild`, `ToolCalls`, `PersonalTasks`, `Learning` | one background service each | `CodeBuild` and `ToolCalls` model two files of one worker |
| `Skills` | what becomes of a learned skill; checked with the services (liveness) and the records (safety, larger bounds) | the tasks `Learning` makes, the builds of `CodeBuild` |
| `Orchestration`, `Decision` | a request judged and proposed; the proposal applied | what `Decision` proposes, `Orchestration` applies |
| `AuditChain`, `SelfImprovement`, `Research`, `Permissions`, `Memory`, `Sources`, `NightQueue` | one part of the records each | – |
| `Shopper`, `ShopperReplies` | searches and first contacts; the conversation after them | – |
| `WorkQueue_proofs`, `LocalCheck_proofs`, `ModelWork_proofs`, `AgentAssignment_proofs`, `Approvals_proofs` | theorems | the module they name |
| `Records_proofs` | theorems | `AuditChain`, `SelfImprovement`, `Orchestration`, `Permissions`, `Decision`, `Sources`, `Memory`, `NightQueue` |
| `Effects_proofs` | theorems | `ToolCalls`, `CalendarWriter`, `Research`, `ShopperReplies`, `Shopper` |
| `Services_proofs` | theorems | `CodeBuild`, `PersonalTasks`, `Chat`, `ThermalGuard`, `GpuLease`, `Learning`, `Skills` |
| `MCServices` | instance for TLC | the nine services |
| `MCRecords` | instance for TLC | the ten modules of records and decisions but `Memory` and `Sources` |
| `MCStore` | instance for TLC | `Approvals` (through `MCApprovals`), `Memory`, `Sources` |
| other `MC*` | instances for TLC | the module they name |

`WorkQueue`. `jobs` is `work_jobs`, one row per request UUID; `ckpt` is the key
set of `work_checkpoints`; `wk` is the claim a worker process holds. Every
queue operation is one `BEGIN IMMEDIATE` transaction and one action. The
functions `Queued`, `Unleased`, `Leased`, `Advanced`, … are the SET clauses of
the UPDATE statements. `claim` is three actions, for its three outcomes on the
head of the order: the head's task is not eligible (pause), its attempts are
used up (fail), or it is handed out under a fresh token. `checkpoint` is four.
`issued` is a history variable: how many tokens were drawn. Leases and ages
are ticks *remaining* and ticks *waited*, saturated where the code no longer
tells values apart, so no clock grows and no bound on time is needed.

`ModelWork`. Each worker's executor has its own program counter `ex`: `_begin`
(five outcomes), the call, `record` of the usage, the last transaction of
`execute` (four outcomes). `calls` and `bill` say what the provider really did;
the code cannot see them. The provider is assumed to charge no more than the
reservation of a request: the request limits its output, and an answer that
reports more usage counts as one without verified usage, whose reservation stays
(`openai_text.py`, `parse_usage`). `LedgerCoversBill` and `WithinBudgets` rest on
this. A crash may fall between any two steps and takes the
executor's memory with it. `NewDay` is the change of the UTC date that the daily
sum depends on.

`PaidCall` is the contract: reserve at full price within the budget, buy at
most once, account at what it cost. `ModelWork` implements it under the mapping
given there (`ImplementsPurchase`): "sending" and "unknown" are *reserved*,
"settled" and "reconciled" are *accounted*.

`LocalCheck` refines `Execute` of the queue: a worker hashes the files one at a
time, compares, reads again, parses. A content stands for its hash. Edits come
between any two reads.

`AgentAssignment`. A proposal stands for itself, the run created from it and
the job bound to it. `th` is what each HTTP request or worker loop is doing;
one step is one transaction or the SELECT before one. The job's own life is
reduced to what the queue's theorem `FinalIsFinal` guarantees: it ends once.
`kind` is the runner chosen when the proposal is made.

`Approvals`. `appr` is the table, `task` the task statuses, `consumed` and
`opened` count successful consumptions and passages of the gate. A function
that reads before its transaction is a Read and a Write action;
`consume_approval` and `approve_pending_approval` repeat their condition in the
UPDATE and are one action. `continue_task_after_approval` is four steps. An
approval that is attached to no task will do for the gate of any.

`OneShot` is the contract of an operation with an outside effect: open, then
claimed, sent at most once and only when claimed, confirmed only after the world
was as wanted. `CalEffect`, `ResEffect` and `TcEffect` are the mappings;
`CalOneShot`, `ResOneShot` and `TcOneShot` state the refinements, as parts of
`CalSafe`, `ResSafe` and `TcSafe`.

`GpuLease`. The table is the sequence of its rows; a poll (clean, rank, try the
file lock) is one transaction and one action; a status request may hold the
file lock for the moment it tests it (`GpuProbe`). A ticket whose process died is a
ghost until pruning passes its deadline. Priorities age by ticks.

`ThermalGuard`. One iteration is a sample and the decision on it, the service
command, the replacement of the file and the notification, in the order the
code has them; the guard may die between any two, and restarts from its file.

`CalendarWriter`. `execute` is claimed under the file lock, marked, sent, read
back and completed in separate steps, because each commits on its own;
`reconcile` picks one row per turn. What Google did (`calSent`, `calGoogle`) is
not visible to the code except by reading back.

`Chat`. A prompt is the set of turns it includes. The message, the job and the
binding of one to the other are separate commits. A command is a thread of its
own that polls may declare lost while it still runs.

`CodeBuild` and `ToolCalls`. The worker is one process with a program counter;
each write to row, task and message is a step, the crash may fall between any
two, and the next start begins at the first row that is due, as the query
orders them. The generating model, the container and the tests are outcomes.

`Learning`. A night is one process (`lrnRun`), for a file lock excludes a second.
An item stands for its kind and quote, whose digest is its source reference;
looking for it and making it are two steps, and so are the counts, the message
and the closing of a batch. What the model quotes is any subset of what the
messages say.

`Skills`. The night and the coding worker each have a program counter; moving a
task is one step per status, each of which reads again and may be refused,
which ends the process. The verdicts of `reconcile` are kept from the one read
of rows and catalogue (`saw`). `develop` runs under another lock than
`reconcile`, so a night's decision and the worker's verdict interleave.

`PersonalTasks`. `ptChat` is the thread that creates, queues and activates;
`ptRec` the reconciler with the row it read and the transitions left to do.

`AuditChain`. An operation that wrote before appending holds SQLite's write
lock; one that appends first reads the end of the chain without it. The UNIQUE
sequence number is what refuses the second INSERT.

`Orchestration`. Each request is a program counter over the transactions of
apply: create the task, plan it, create the approval, move the task to wait,
link. `orcPlan` says whether an approval of the same plan was rejected before.

`Decision`. A text is what the three policies see of it: its signals, a few
words, length, vagueness and the points the memory adds. The rules are
conditional expressions in the order of the code;
scores are the numbers of the code.

`SelfImprovement`. `siOwned` is the server's memory, `siDir` the disk. A run
takes the directory out of memory, compares the binding, consumes, applies,
validates and tests, each a step; sweep, restart and changes of configuration
fall between.

`Research`. A query stands for its fingerprint. The reservation is one
transaction that counts the credits of the day; the search comes after it.

`Shopper` and `ShopperReplies`. A search that exceeds its time is taken for
dead but goes on. In a conversation, its length stands for the fingerprint of
what was read; what was sent shows late.

`Permissions`. A check reads the manifest (`PermAsk`), reads the approval and
decides (`PermClassify`), and records (`PermRecord`). `PermToolDecision` and
`PermConnectorDecision` are the two classifiers with their rules in the order
of the code; a manifest says whether the connector's system is an external one
(`ext`), on which the class of a write depends.

`Memory`. An update reads and merges (`MemMerge`), then writes the whole row
(`MemUpdate`); `named` says whether the request gives a status or the one that was
read is written again. Create, delete and scrub are one transaction each.

`Sources`. `srcRec` is the table of records. An entity of the graph has the id of
the source that inserted it (`srcEnt`) and names the last one that was stored under
it; `srcRel` says which entity a source's relationship comes from. A retrieval is
asked, reads the records, the entities and the relationships in a SELECT each, and
records its answer. `gone` keeps, as history, what was erased or blocked when it
was asked.

`NightQueue`. `ngWork` holds the locals of `run_once`; an action may raise and
keeps what it has written, and the one that takes several transactions may do so
between them. A brief asked for later is built and stored in two steps.

`MCServices`, `MCRecords` and `MCStore` hold one instance each of parts that share
no state that the properties speak of. `focus`, chosen initially, says which part a
behaviour follows; the others stay at rest. The state space is the sum of
those of the parts, not their product.

## 3. Runs

| Run | Expect | Instance | What it shows |
|---|---|---|---|
| `queue_safety` | pass | 2 workers; a 3-step check alone, or a local and a paid job together; 2 attempts | `SingleOwner`, `ClaimsBounded`, `CheckpointsContiguous`, `QueueSound`, `TerminalStable`, `AgedNotOvertaken` |
| `queue_live` | pass | 1 worker, 2 jobs, fairness | `JobsSettle` |
| `model_ledger` | pass | 2 workers; one paid or one local request with 2 attempts, or a pair of paid requests (2+1 or 2+2 units); total 3, daily 2 | `PaidAtMostOnce`, `LedgerCoversBill`, `LedgerSound`, `WithinBudgets`, `PurchasesKept` |
| `model_stranded` | violation | the pairs, budgets wide enough | `UncertainBlocksCalls` fails, section 6 |
| `local_check` | pass | 2 workers, 1 job, 2 files, 2 contents | `CheckSound` |
| `assignment` | pass | 2 requests, 1 worker loop, a proposal of either kind | `OneRunPerProposal`, `AnswerIsReal`, `JobNotRequeued`, `EndedJobsReported` |
| `assignment_reject` | violation | the same | `RejectCreatesNoRun` fails, section 6 |
| `store` | pass | one part at a time: 2 requests, an approval of the task and one of none; 2 memory items, 2 updates under way; 3 sources of 2 documents, 1 retrieval | `ConsumedOnce`, `GateOpenedByConsumption`; `MemSafe`; `SrcSafe` |
| `approvals_single` | violation | 1 request, the same approvals | `OneActionPerApproval` fails, section 6 |
| `services` | pass | one service at a time, the bounds below, fairness | safety of each of the services (`GpuSafe`, `ThermSafe`, `CalSafe`, `ChatSafe`, `CbSafe`, `TcSafe`, `PtSafe`, `LrnSafe`), and what was asked, learned skills included, is settled (`ServicesSettle`) |
| `records` | pass | one part at a time, the bounds below | safety of each of the ten parts (`AudSafe`, `OrcSafe`, `SiSafe`, `ResSafe`, `ShopSafe`, `RepSafe`, `DecSafe`, `PermSafe`, `NgSafe`, `SkSafe`) |
| `memory_stale` | violation | 2 items, 1 update | `MemOutStaysOut` fails, section 6 |

What a run checks of a part is one conjunction of its properties, each stated
and commented in the module (and of the part's type invariant):

| Checked | Its parts |
|---|---|
| `QueueSound` | `TypeOK`; `QueueBounded`: the limit holds over every way into the queue |
| `LedgerSound` | `MTypeOK`; `SuccessIsPaidFor`; `LocalCallsBounded`: at most `MaxAttempts` calls of a local model |
| `PurchasesKept` | `ImplementsPurchase`: the refinement of `PaidCall`; `ReconciledStable` |
| `WithinBudgets` | `TotalBudget`, `DailyBudget` |
| `CheckSound` | `CTypeOK`; `StableSnapshot`: one version of the files; `SnapshotStable` |
| `GpuSafe` | `GpuOneOwner`: who runs or checks holds the file lock, with or without a ticket; `GpuAgedNotOvertaken`; `GpuGhostsPass`: a dead request does not stand in the way for ever |
| `ThermSafe` | `ThermHysteresis`: recovered only after a full cool period; `ThermOwnRestart`: restarts only what it stopped |
| `CalSafe` | `CalOneShot`: the refinement of `OneShot`; `CalTaskDone`: a completed command has its task done; `CalToldOnce`: told once, and of completed commands only |
| `ChatSafe` | `ChatAppliedOnce`: a command is applied once; `ChatAsApproved`: what is sent is the context that was approved |
| `CbSafe` | `CbOneTask`, `CbOneAttempt`, `CbDoneIsUsable`, `CbBuiltIsTold` |
| `TcSafe` | `TcOneShot`: the refinement of `OneShot`; `TcResultReal` |
| `PtSafe` | `PtDoneHasText`, `PtDeliveredIsDone` |
| `LrnSafe` | `LrnOnce`: what the owner erased is not learned again; `LrnAskedOnce`: no message is given to the model twice, and none with credentials; `LrnClosedIsDone` |
| `SkSafe` | `SkOnce`: one search and one build; `SkHonest`: closed and called available only over a build that works |
| `ServicesSettle` | `ThermReported`, `CalDelivers`, `ChatSettles`, `CbSettles`, `TcSettles`, `PtDelivers`, `LrnSettles`, `SkSettles` |
| `AudSafe` | `AudChainValid`: one chain; `AudRecorded`: exactly what was committed |
| `OrcSafe` | `OrcGateHolds`, `OrcRejectedPlanStops` |
| `SiSafe` | `SiAppliedOnce`, `SiTestedAsApproved` |
| `ResSafe` | `ResOneShot`: the refinement of `OneShot`; `ResWithinCap`; `ResAsPreviewed` |
| `ShopSafe` | `ShopContactOnce`, `ShopWithinDay` |
| `RepSafe` | `RepAnsweredOnce`, `RepHeldUnsent` |
| `DecSafe` | `DecRunsOnlySafe`, `DecGatedHeld`, `DecUnsafeWorthless`, `DecStrongModel`, `DecPlanGate` |
| `PermSafe` | `PermWritesApproved`, `PermForbiddenNever`, `PermToolReviewed`, `PermUndoable` |
| `MemSafe` | `MemReviewNote`; `MemCorrectionWins`: the step that puts a correction in use takes what it corrects out of use, and only an update of that item puts it back |
| `SrcSafe` | `SrcGraphBacked`: live entities and relationships are of sources in use; `SrcAnswerCurrent`: what was erased or blocked before the question is not in the answer |
| `NgSafe` | `NgWithinLimits`, `NgDisclosed`, `NgBriefTells`, `NgClosedForGood` |

Bounds and why they are enough.

- Two workers: fencing, double sending and overwritten answers are about one
  worker that lost its lease and one that has it. The third worker would be a
  second one that lost it.
- Two jobs: order, admission and budgets compare two. The limit of the queue is
  2, so that a third job is what an admission bug would let in.
- `MaxAttempts` is 2: a first attempt and a last; 1 in `model_stranded`, whose
  job ends with its first.
- `LeaseTicks`, `LocalTicks`, `AgeTicks` are 1 or 2: only their order matters.
- Constraints name what is left out. `CheckOrModels` and `OneOrTwoRequests` let
  one run cover several small instances by never submitting their jobs together.
  `TwoRequests` also leaves chat rank, pause, cancel, task changes and second
  attempts out of the pairs: they decide which worker claims when, and a lost
  lease, which they can cause, is there by time. Of the outcomes of a call it keeps
  the good answer and the unusable one, each of which costs something: a refused
  answer is charged like a good one, and a failed call leaves the ledger as a
  worker that died. `OneRequest` has all of this.
- `opened` in `Approvals` saturates at 2: the property asks whether it passes 1.
- Symmetry is used over workers, and over the requests of `Approvals`, in safety
  runs only; they occur only as arguments of functions and under quantifiers.

- `services`. Faults (crashes, lost answers, failed commands, moves of the owner)
  are counted down: `GpuFaults` and `ChatFaults` and `PtFaults` 1, `CalFaults` and
  `ThermFaults` 2, `CbFaults` and `TcFaults` 3, as many as a second fault during
  the recovery from the first needs. `GpuTimeout` 2 lets a ticket age
  (`GpuAgeTicks` 1) before it gives up; there are a good and a bad priority and a
  coder. `ThermCool` 2 tells "some cool sample" from "cool all along";
  `ThermIncidents` 2 lets a second trip overtake what the first left.
  `CalChecks` is 1 for 5: an uncertain command is looked up, and given up.
  `LrnMax` 4 messages, one private, in groups of 2 (3 in the code) and 3 a night
  (12): a night has two groups and leaves a message; `LrnFaults` 2 lets a crash
  meet an erasure.
  One learned skill and `SkFaults` 2 for `SkSettles`.
- `records`. `AudMax` 2 events of each of three operations. `ResHard` 2 and
  `ResCredits` 2 (10 and 2 in the code): the second reservation of a day is what
  the limit refuses; `ResDays` 2 has a midnight. One watch with two listings and
  `ShopDaily` 1 (2 in the code), `ShopMax` 1 (8), `ShopRuns` 2, one taken for
  dead beside its successor; the delays keep their order in ticks (spacing, time
  limit, hour and day 1, week 2: each no longer than the next), and a search may
  claim what it picked the day before (`ShopHorizon` 2).
  `RepTurns` 3: a turn, its answer, another turn. `DecMax` 2: every pair of
  signals, because rules disagree about pairs. `PermMax` bounds the checks on
  record, two manifests differ in everything a classifier asks. `MCOnePatchRuns`:
  the second patch is previewed, decided on, grows old and sweeps, but only the
  first is run, by two requests.
  Two learned skills, one of them already built from chat, and one search and
  decision a night (2 in the code), so that one can be before another; `SkFaults`
  1 is the crash, the failed search or the move of the owner between any two
  steps of both processes.
- `store`. `Memory` has two items: one and its correction. `MCMemPairs`: a second
  update begins after the first and ends before it, while only one item exists;
  what two updates do to each other needs one item, and what one does to a
  correction or an erasure needs one update. `Sources` has three sources: two that
  share an entity, and one of another document; the third also inserts a new entity
  after the first was erased. One retrieval, for retrievals write nothing that
  another reads. Items, sources and references are interchangeable, so they are
  used in one order only (`MCMemOrder`, `MCSrcOrder`). No bound on the number of
  steps.
- `MCRestingState` gives a part at rest one initial state.

Deadlock is checked in every run but `services` and `records`, whose parts end
when every request has been served or a bound is used up.

## 4. Fairness

`WorkerFairness` (`queue_live`): weak fairness of claiming with a GPU that is
available, of executing, of checkpointing and of time. `local_worker.main`
polls in an endless loop and systemd restarts it. The operator, task changes
and crashes are not forced. `JobsSettle` has one exception that the code really
has: an operator who resumes for ever, because a resumed job keeps its
`created_at`, becomes the head again, and a head whose task is not eligible
costs the worker its turn.

`LoopFairness` (`assignment`): strong fairness of the two reads and of the
write of completion, weak fairness of the rest. A loop may crash any number of
times; strong fairness says only that it does not crash at the same place every
time it comes there.

`MCFairness` (`services`) is about processes that the code or systemd keeps
going. GPU: a waiting request polls until its deadline, a holder ends, the
coding wrapper checks for waiters, time passes. Thermal guard: its loop, which
systemd restarts. Calendar: `reconcile` is called at each turn of the local
worker (weak), and a command that can be picked again and again is picked
(strong: one row per turn, the oldest first, and each turn either ends a row or
counts its look-ups); a chat thread inside `execute` goes on. Chat: the page
polls while it is open, a request that began ends, the steps of a command's
thread, jobs end (`JobsSettle`). Code worker and tool worker: started again by
their timer, so the whole worker is one weakly fair action. Personal tasks: the
reconciler is called by the local worker. Learning: a timer starts a night.
Crashes, the owner's moves and late
answers are never forced. `CbSettles` and `TcSettles` leave out the time a task
waits for the owner, because the worker then stops at that row (section 6).

`SkFairness` (`services`): timers start the night and the worker, builds end and
days pass (weak), and a night does not find the worker's lock taken for ever
(strong: the worker holds it for a moment of each minute). `SkSettles` leaves
out the time a task waits for the owner and the nights whose decisions are used
up by rows that wait (section 6).

## 5. What is proved

The theorems hold for every value of the constants that the named assumptions
allow: any finite set of requests, tasks and workers, any limits
(`ConstantsAssumption`), any prices and budgets (`LedgerAssumption`), any number
of files (`FilesAssumption`), any number of faults, processes, rows and days in
the services and the records (`AssignmentAssumption`, `ApprovalsAssumption`,
`AudAssumption`, `CalAssumption`, `CbAssumption`, `ChatAssumption`,
`DecAssumption`, `GpuAssumption`, `LrnAssumption`, `MemAssumption`,
`NgAssumption`, `OrcAssumption`, `PermAssumption`, `PtAssumption`,
`RepAssumption`, `ResAssumption`, `ShopAssumption`, `SiAssumption`,
`SkAssumption`, `SrcAssumption`, `TcAssumption`, `ThermAssumption`). The
assumptions say that limits are numbers, that sets that are counted are finite
and that the values for "none" are no members of the sets they stand beside;
TLC evaluates each of them in the runs.

Every safety property that a run checks is a theorem, except the two that
section 5.3 names.

### 5.1 Theorems

Of the queue and what builds on it:

| Theorem | Statement |
|---|---|
| `WorkQueue_proofs!TypeCorrect` | `Spec => []TypeOK` |
| `WorkQueue_proofs!QueueIsSound` | `Spec => []QueueSound`: the types and `QueueBounded` |
| `WorkQueue_proofs!Fencing` | `Spec => []SingleOwner` |
| `WorkQueue_proofs!BoundedClaims` | `Spec => []ClaimsBounded` |
| `WorkQueue_proofs!ContiguousCheckpoints` | `Spec => []CheckpointsContiguous` |
| `WorkQueue_proofs!FinalIsFinal` | `Spec => TerminalStable` |
| `WorkQueue_proofs!AgedFirst` | `Spec => AgedNotOvertaken` |
| `LocalCheck_proofs!CheckImplementsQueue` | `CSpec => Spec`, so all of the above hold of a project check |
| `LocalCheck_proofs!CheckIsSound` | `CSpec => CheckSound` |
| `ModelWork_proofs!ImplementsQueue` | `MSpec => Spec`, so all of the above hold of model work |
| `ModelWork_proofs!LedgerTypeCorrect` | `MSpec => []MTypeOK` |
| `ModelWork_proofs!LedgerIsSound` | `MSpec => []LedgerSound`: the types, `SuccessIsPaidFor`, `LocalCallsBounded` |
| `ModelWork_proofs!PaidOnce` | `MSpec => []PaidAtMostOnce` |
| `ModelWork_proofs!BillCovered` | `MSpec => []LedgerCoversBill` |
| `ModelWork_proofs!BudgetsHold` | `MSpec => []WithinBudgets` |
| `ModelWork_proofs!PurchasesAreKept` | `MSpec => PurchasesKept`: the refinement of `PaidCall` and `ReconciledStable` |

Of assignments and approvals:

| Theorem | Statement |
|---|---|
| `Approvals_proofs!ApprovalTypeCorrect` | `Spec => []TypeOK` |
| `Approvals_proofs!SingleUse` | `Spec => []ConsumedOnce` |
| `Approvals_proofs!GateNeedsConsumption` | `Spec => []GateOpenedByConsumption` |
| `AgentAssignment_proofs!AssignmentTypeCorrect` | `Spec => []TypeOK` |
| `AgentAssignment_proofs!OneRun` | `Spec => []OneRunPerProposal` |
| `AgentAssignment_proofs!RealAnswers` | `Spec => []AnswerIsReal` |
| `AgentAssignment_proofs!JobsStayEnded` | `Spec => JobNotRequeued` |

Of records and decisions (`Records_proofs`):

| Theorem | Statement |
|---|---|
| `AuditTypeCorrect`, `AuditChainIsValid`, `AuditIsComplete`, `AuditIsSound` | `AudSpec => []AudTypeOK`, `[]AudChainValid`, `[]AudRecorded`, and `[]AudSafe`, the three together |
| `PatchAppliedOnce`, `PatchTestedAsApproved`, `PatchesAreSafe` | `SiSpec => []SiAppliedOnce`, `[]SiTestedAsApproved`, and `[]SiSafe`, both with the types |
| `AppliedIsBacked`, `RejectedPlanStops`, `OrchestrationIsSafe` | `OrcSpec => []OrcGateHolds`, `[]OrcRejectedPlanStops`, and `[]OrcSafe`, both with the types |
| `PermissionsAreSafe` | `PermSpec => []PermSafe` |
| `DecisionsAgree` | `DecSpec => []DecSafe` |
| `SourcesAreSafe` | `SrcSpec => []SrcSafe` |
| `MemoryIsSafe` | `MemSpec => MemSafe` |
| `NightIsAccountable` | `NgSpec => NgSafe` |

Of effects outside (`Effects_proofs`):

| Theorem | Statement |
|---|---|
| `DoneIsReal`, `CallsAreOneShot`, `CallsAreSafe` | `TcSpec => []TcResultReal`, `TcOneShot` (the refinement of `OneShot`), and `TcSafe`, both |
| `CommandsAreOneShot`, `CalendarIsSafe` | `CalSpec => CalOneShot` (the refinement of `OneShot`), and `CalSafe` with the rest of it |
| `ResearchIsOneShot`, `ResearchIsSafe` | `ResSpec => ResOneShot` (the refinement of `OneShot`), and `ResSafe` with the rest of it |
| `RepliesAreSafe` | `RepSpec => RepSafe` |
| `SellersAreWrittenToOnce` | `ShopSpec => []ShopSafe` |

Of the services (`Services_proofs`):

| Theorem | Statement |
|---|---|
| `BuildsAreSafe` | `CbSpec => []CbSafe` |
| `PersonalTasksAreSafe` | `PtSpec => []PtSafe` |
| `ChatIsSafe` | `ChatSpec => []ChatSafe` |
| `CoolingIsReal` | `ThermSpec => ThermSafe` |
| `GpuHasOneOwner` | `GpuSpec => []GpuOneOwner`, a part of `GpuSafe` |
| `LearningIsSafe` | `LrnSpec => []LrnSafe` |
| `SkillsAreSafe` | `SkSpec => []SkSafe` |

### 5.2 The arguments

Each theorem rests on an inductive invariant: it holds initially, every action
keeps it (one lemma per action), and it implies the property. What each one
adds to the property is where the reason lies.

Queue and ledger.

- Fencing. A worker passes the lease check when its token is the row's. That no
  two workers hold the same token for one job is not inductive without knowing
  that tokens in memory were all drawn before (`<= issued`) and that a claim in
  memory names a job. `QueueInv` is `TypeOK` with these two parts,
  `ClaimsNameJobs` and `TokensUnique`.
- Bounded claims and contiguous checkpoints. `RowSteps` shows that every step
  of the specification does one of five things to a row: nothing, insert, stop,
  hand out, record. `AttemptsAccount` says that the tokens drawn are at most
  `MaxAttempts` per completed step plus the attempts of the current one.
  `ProgressInv` joins it with `QueueInv` and `CheckpointsContiguous`; the
  theorems follow from the five cases.
- The admission limit. Of the five things a step does to a row only the insertion
  makes a job count, and `enqueue` checks the limit in the same transaction; the
  set of counted jobs otherwise only shrinks (`BoundedStep`).
- Aging. A row of full age has rank 0 (`AgedRank`), no rank is below, and only a
  claim draws a token (`TokenDrawn`), so it would have to sort after a row that
  was created later.
- The project check. `RunSound`: a worker is never ahead of its job, so the
  snapshot that it compares with is no longer replaced; what it parsed are the
  bytes it hashed; a passed step measured every file. `RowSound`: a job past its
  syntax step parsed the snapshot it has. That a job moves on in a checkpoint
  and nowhere else comes from `CheckpointsContiguous` of the queue (`StepKept`).
- One paid call. `OneShot(r)` relates the state of the ledger row, the
  executors busy with `r`, the calls made and the bill: as long as the row is
  "approved" nobody is busy and nothing was called; once it is "sending" at
  most one executor is busy, and the bill is covered by the reservation. With
  `CallsClaimed` (an executor in a call has a claim), `ResultsStored` and
  `LocalFree` this is `LedgerInv`.
- Budgets. The sums over the ledger are those of a recursive function over the
  subsets of a finite set. What is known of them (independence of the order,
  monotony, the change when one row changes) is proved by the smallest
  counterexample: a non-empty set of subsets of a finite set has a smallest
  member, by the library's theorem on strict inclusion, which is first-order,
  where induction over the set is not. Then every step changes one row in one
  of a few ways (`RowChange`), a reservation is made only when it fits, and
  nothing that follows makes a row count more.
- Answers of model work. An answer of a paid call is recorded with its usage and
  stays settled at that usage; it is what a worker hands to checkpoint and what a
  job succeeds by (`AnswersPaidFor`). Calls made plus claims that may still make
  theirs are at most the tokens drawn (`CallsCounted`), which `ProgressInv` bounds.

Assignments and approvals.

- Approvals. Counting consumptions is not inductive by itself: a decision that
  read an old row may write "approved" over "consumed". What a late decision
  cannot undo is `consumed_at`, so `SpentOnce` ties the count to it, and
  `ThreadsSound` says that a request on its way through the gate names an
  approval that was consumed. `ApprovalInv` joins both with `TypeOK`.
- Assignments. A proposal that may still be applied has no run (`RunSound`); a
  thread that set the mark has not created its run yet (`Marks`) and is the only
  one that holds the mark (`OneMark`), so taking the mark back or creating the
  run disturbs nobody. What a thread carries through `complete_agent_run`
  remains true because the runner kind of a proposal is settled and a succeeded
  job stays one (`Sound`, `Settled`). `AssignmentInv` joins them with `TypeOK`.

Records.

- Audit. `Chained` says of the rows what validation checks; `TxSound` says that
  a transaction with rows of its own holds the write lock and that its rows
  continue the log it began from. A reader without the lock may have an old end
  of the chain, but then its sequence number is taken and the INSERT is refused.
  `AudInv` adds `AudRecorded` and the types.
- Patches. Whoever takes the directory out of the server's memory is the only
  one (`SiOneHolder`); before it is applied nothing was (`SiSpent`), and what a
  run compares is what the approval was bound to (`SiBindings`). A patch never
  previewed is untouched (`SiUntouched`). With the types this is `SiInv`.
- Orchestration. `OrcProgress` ties the place of a request to what it created;
  `OrcLinked` says that an applied proposal names a request that has ended and
  backs it; a request that began after the rejection is stopped at its first
  check (`OrcStopped`). The owner may move the task or decide the approval at
  any time: backing is stated so that these moves keep it. With the types this
  is `OrcInv`.
- Permissions. A status beyond candidate is earned by a review wherever it is
  stored, read or about to be put back (`PermEarned`), and a check that says
  allowed is right and stays right, because reviews stay on record and a consumed
  approval stays consumed (`PermSound`, of recorded checks and of those that wait).
- Decisions. The invariant says that decision and proposal are those of the text;
  the lemmas are about the rules of the three policies: what each route, class
  and rank implies of the signals, and that high risk overrides the cheap model.
- Sources. What is erased or blocked stays so (`SrcStays`), so what a retrieval
  finds in use was not gone when it was asked for (`SrcThreadOK`); a source is
  stored, or erased, with its entity and relationship in one transaction, and a
  reference never changes, so an entity shown is of a document quoted.
- Memory. The rows that updates hold, stale or not, could all be stored: they
  carry the note they need and correct another item that exists (`MemStorable`).
  Whatever stores a row under `m` leaves every correction that is in use beside
  what it corrects as it was, and creates such a pair only for `m` itself
  (`MemOnlyBy`); nothing corrects an item that does not exist (`MemFixesExist`), so
  only an update does.
- Night queue. What a run has written it has listed, has recorded as failed, or
  is just writing; a row that is closed has the lists its run had.

Effects.

- Function calls. `CallsSound` orders request, call and container: no container
  without a recorded call, one at most; `WorkSound` says what the worker knows at
  each place of its program. Under `TcInv` each step is a step of `OneShot` or
  leaves its variables alone.
- Calendar. Whoever works on a row holds the file lock, so the row is as it left
  it (`CalStands`); before the row says "sending" nothing was sent, and it is
  completed only after Google held what was wanted (`CalAgrees`).
- Research. From its claim on a run is the only one at its preview and has
  recorded nothing yet (`ResAlone`, `ResThreadSound`); the claims of each day fit
  the hard limit (`ResFits`), since a claim is made only when it fits and is never
  taken back.
- Replies. From its second read on a process holds the browser lock, and what it
  sends it has claimed and nobody has sent (`RepProcSound`); what was put on hold
  stays on hold, so it is not claimed.
- Shopper. A search that is about to send has recorded the contact, nobody sent
  to that seller before, and no other search is about to; every contact of a day
  had room when it was made.

Services.

- Code builds. The status of a row says what was left behind by an attempt, and
  the place of the worker in `finish` says which of its writes exist.
- Personal tasks. Unless the owner moved the task, what the reconciler has left
  to do begins where the task is, or at the one step the chat thread took
  meanwhile (`PtOnCourse`), and delivery comes last.
- Chat. A message keeps the prompt that was approved (`ChatPromptKept`), and a
  command that was never started, or whose thread is about to apply it, has had no
  effect (`ChatUnapplied`).
- Thermal guard. What the file says outlives the guard: a restart is owed, in
  memory or file, only for a stop of its own, and while the file says cooling a
  guard that runs is cooling too, or has just seen the whole cool period
  (`ThermHonest`, `ThermFileHonest`).
- GPU lease. Who is past the file lock holds it, and it is given away only by
  its holder or by the death of the holder; the table of tickets plays no part.
- Learning. What a batch has passed is handled, what it is about to make is not
  made yet, and a message that the run still holds is in no batch. The batch that
  is resumed is the smallest pending one, which exists because the numbers are
  well-founded.
- Skills. What a process holds stays true while it holds it: builds that work do
  not change, what was told stays told, and the night alone writes its searches.

### 5.3 What is only model-checked

- Liveness, because fairness and ENABLED are out of the prover's reach:
  `JobsSettle`, `EndedJobsReported`, `GpuGhostsPass` and the parts of
  `ServicesSettle`.
- Of `GpuSafe`, the type of the table and `GpuAgedNotOvertaken`: they depend on
  what pruning keeps of the sequence of tickets, and what `SelectSeq` returns can
  only be shown by induction over the sequence, which the provers here cannot do.

## 6. Where the code differs from what is said of it

Each of the four violation runs checks a sentence of the repository:

- `model_stranded`: `docs/model-work.md` says that an uncertain outcome blocks
  following calls until it is reconciled. `_begin` looks for rows in state
  "unknown"; a worker that died after the "sending" marker leaves "sending",
  which only a later `_begin` of the same job would turn into "unknown". If the
  job has ended, none comes. The reservation does stay counted.
- `assignment_reject`: "Reject creates no run." A rejection that read
  "prepared" before a concurrent apply writes "rejected" over it; the run goes
  on.
- `approvals_single`: "consumed for one bounded action." The transition check
  accepts any consumed approval of the task, again and again.
- `memory_stale`: "Verwijderde inhoud ontbreekt daarna in lijst en zoekresultaat"
  (`docs/memory-today-browser-evidence.md`: what was deleted is missing from list
  and search afterwards). An update that read the item before writes its old
  status back with the rest of the row, although the request named none: an erased
  item is in use again, and so is one that a correction had rejected.

The models have further behaviours of the same kind, from reads outside the
writing transaction; no run is spent on them: a decision that read an approval
before it was consumed sets it back to approved (it still cannot be consumed
twice: `ConsumedOnce`); two task updates, each valid for the status it read,
compose to a transition the table forbids (the gated one excepted:
`GateOpenedByConsumption`); a second review or a late completion overwrites a
verdict; the late failure of a local call erases the answer another worker
stored, and the job calls the model again (within `LocalCallsBounded`); a
process that dies while a proposal is "applying" leaves it so.

The modules of services and records show more, likewise without a run:

- Chat: a command's thread that was declared lost and finishes late overwrites
  the message's status; the command itself is applied once.
- Thermal guard: if it dies between stopping the service and writing its file,
  it does not know afterwards that it owes a restart.
- Calendar: a row left "ready" by a crash is selected by no reconcile and waits
  for chat to repeat the request.
- Shopper: switching a watch on again does not count towards the eight that
  creation allows; a hold on a contact is overwritten by the outcome of the
  message under way (a waiting reply stays held: `RepHeldUnsent`).
- Decisions: a mention of a secret gates the decision, but the proposal follows
  the route and makes a planned task without an approval.
- Permissions: an approval is not bound to tool and scope, so any approval that
  was used up will do; an allowed R5 write has no rollback record; an edit that
  read a manifest before a review puts the older review's status back.
- Sources: a source erased while a retrieval is under way may be quoted in the
  answer it records, and the label of an entity erased with one source is shown
  with another whose relationship comes from it (`SrcRelated`); erasing one of
  two sources with a common reference removes the entity of both; a source that
  was deleted first and is scrubbed later keeps the label of its entity, because
  the scrub passes over entities that are marked deleted, while the audit event
  says that labels are scrubbed.
- Night queue: a process that dies leaves its run "running" for ever; two
  overlapping runs each create the task of one missing component; a regenerated
  brief lists it again.
- Code and tool worker: a task status that the transition table of the worker
  does not have raises at the same row every time the worker starts, and later
  rows wait.
- Learned skills: a task that waits for an approval, or that the owner put into
  review, stops `reconcile` and `develop` at it every time, and later skills
  wait with it. Rows that wait are decided again each day, oldest first, so two
  of them can use up every night's two decisions for ever.
- Conversation learning: a crash between an item and the stored counts leaves it
  out of the message to the owner (`docs/implementation-backlog.md` says so).
- Personal tasks: a transition refused because the owner moved the task raises
  out of the worker's turn.
- Orchestration: a rejection of the plan between two transactions of an apply
  leaves a planned task.

## 7. What is left out, and the plan

Abstracted everywhere: texts, prompts, hashes (equality), timestamps (ticks or
"has passed"), audit records. In `Approvals` the notes, results and secrets a
transition asks for are the caller's: a caller without them changes nothing. In
`AgentAssignment` new, planned and active tasks are one status, because
accepting a run takes each of them to review.

In `Learning`, what the model may quote and how conflicting memories are marked;
in `Skills`, queries, the filtering of the catalogue and why a decision is made.
In `Chat`, what a command does is left to the part it calls; in `CodeBuild`,
`ToolCalls` and `SelfImprovement`, what a container does is its outcome; in
`Shopper`, which listings match; in `Sources`, how relevance is scored; in
`NightQueue`, the sections and wording of the brief; in `Decision`, how keywords
are found in a text.

### Not modelled

Connectors and the parsing of third-party pages, network clients and credential
files, the web client, read-only projections into JSON, wrappers and unit files:
they keep no state of the control plane or are pure I/O. Delivery and the
server routine act on files and processes on behalf of one operator. The recorders of rollback evidence other than those of permission
checks, the night queue and self improvement only insert. `PROJECT.json` lists
every part with the reason.

### Left to do

1. Skills: goals that change under a search or a build, and the moves of a
   search's own task.
2. Agent bindings of tools and connectors, which reuse `Permissions`.
3. Memory's graph rows and the queue of retrieval reviews, beside `Sources`.
4. Delivery: backup and restore under a running control plane.
5. Proofs: the table of the GPU lease (`GpuAgedNotOvertaken`), which needs a
   form of pruning that the prover can reason about; the parts of items 1 to 4
   as they are modelled.
