# TLA+ models of the study agent's durable Gateway

The repository is a local study agent: one long-lived Gateway process owns a
SQLite database, drives language-model conversations ("Runs") that call Tools
with real side effects, schedules background work, keeps files of its own
(sessions, memory, notes, papers, checkpoints, backups), and streams events to
terminal, web and desktop clients. Its documentation promises durability: after
a crash nothing that may have happened is repeated and nothing that is provably
safe is lost. These modules model that machinery from the code in `src/`, check
it with TLC on small instances and prove part of it with TLAPS for all values
of the constants.

- `PROJECT.json` lists components, runs, the map from definitions to source
  lines, findings, hazards and theorems.
- Paths below are relative to `src/`.

## 1. The system's parts

### 1.1 Core: the durable Gateway

| Component | State it keeps | Operations | What makes it correct |
|---|---|---|---|
| **Operation ledger** (`gateway/state_controller.py`, `Agent/state.py`) | `operation_ledger`, `operation_attempts`, `durable_approvals`, `tool_observations`, the SafeCheckpoint of `agent_states` | one SQLite transaction per command of `StateController.apply`: create, begin, start, complete, fail, skip, mark unknown, abandon, reconcile, recovery decision, approval request and decision, checkpoint, observation | the ledger row is the reduction of its Attempts; one live Attempt; unknown effects are retried only by a human; a refused Attempt never starts; determined Attempts and the evidence that names them do not change |
| **Run lifecycle** (`gateway/runtime_pool.py`, `gateway/durable_execution.py`, `gateway/approval.py`) | `agent_states` (task state, inner execution state, outcome, terminal target), asyncio tasks, approval futures | submit, execute, model and Tool boundary, wait for approval, cancel, close, finish | effects of uncertain Tools leave at most once; approval precedes dispatch; a terminal Run is final and agrees with how the loop ended; unknown effects are parked, except where a cancellation cuts their recording short; every Run comes to rest |
| **Recovery** (`gateway/recovery.py`, `GatewayApplication.start`) | none of its own | `recover()` over the Runs of dead epochs, recovery decisions | the Gateway comes up again; safe Runs resume, uncertain ones park |
| **FINALIZING** (`gateway/finalize.py`, `gateway/finalize_evidence.py`, `gateway/session_reservation.py`) | generations, step Operations, artifact evidence, the Session's reservation | begin, prove each step, revalidate, commit, invalidate, recover a generation | a Run is closed on evidence that is still in the files; a parked one can be recovered |
| **Tool batches** (`Agent/react/loop.py`, `tool/registry.py`) | the calls of one model reply | group, run in parallel, barrier, publish, cancel | observations in the order of the calls, serial Tools alone, no body outlives its batch |
| **Outbox and archive** (`gateway/outbox.py`, `gateway/event_store.py`) | `event_outbox`, `event_deliveries`, attempts, JSONL files, archives | write event, claim, deliver, retry, dead letter, reconcile, archive, verify, release | per stream and sink in sequence, JSONL at most once, bodies never lost, every Delivery settles |
| **Event subscription** (`gateway/events.py`, `gateway/api.py`, `gateway/client.py`) | bounded queue per subscriber, cursors on both sides | publish, subscribe, replay, fill gaps, poll, reconnect | the client sees each event once and in sequence and stops when the Run is over |
| **Cron** (`cron/`, dispatch part of `gateway/application.py`) | `cron_jobs`, `cron_dispatches`, the Run of each dispatch | create, update, pause, resume, remove, run now, retry, tick (materialize, claim, submit), bind, settle, reconcile | one cycle of a job at a time, each period dispatched once, nothing executes unbound, settled dispatches stay settled |

### 1.2 Around the core

| Component | State and operations | Hard behaviour | What makes it correct |
|---|---|---|---|
| **Maintenance gate, restart, stop** (`backup/maintenance.py`, `backup/lifecycle_store.py`, `gateway/restart.py`, `gateway/process.py`) | lifecycle row, write scopes, participants, stop and restart requests; freeze, resume, control-only start | scopes admitted while draining, participants that fail half way, several owners of a freeze, a death in any state | the gate agrees with the process; a backup is one cut of the home; a freeze is ended by its owner; transitions end |
| **Backup object store** (`backup/service.py`, `backup/object_store.py`, `backup/operations.py`) | shared objects, manifests, index, operation phases; put, publish, verify, prune | retention beside a backup, failed backups that leave objects | what is listed as complete can be restored |
| **Restore** (`backup/restore.py`, `backup/control.py`) | fence, hash-chained journal, directory renames of home and workspaces | death between any two renames, failing rollback, Gateway beside it | the old home survives until COMMITTED; the Gateway runs on a whole home; all or nothing |
| **Runtime generations** (`Agent/resources.py`, `gateway/state_controller.py`, `gateway/runtime_pool.py`) | immutable generations, head, approvals, health, references of Runs, dispatches and cached Runtimes | two reloads on one head, activation beside Runs, quarantine, collection after a death | held generations are whole; heads form a chain; executable changes are approved; a Run keeps its generation |
| **Observer** (`gateway/observer.py`) | offset, visible events, evidence, proposals, Skill candidate | death between event and evidence, pause by maintenance, recovery beside live observation | evidence is complete; recovery settles the instance; a published Skill is live |
| **Extension hooks** (`Agent/extensions.py`, state in `gateway/state_controller.py`) | snapshot per trace, grants, streak, quarantine, audit | concurrent outcomes, re-enable on a stale revision, revoke beside an open Runtime | a quarantine holds; power is only what was granted |
| **Harness evolution** (`harness-evolution/harness.py`, `gateway/harness_dream.py`, `gateway/code_sessions.py`, `gateway/harness_evolution.py`) | worktrees, audits, change sets, proposals, grant intents | the repository's user commits in between, a death around the merge | records agree with the history, nothing is applied twice, grants follow merges |
| **Checkpoints** (`sandbox/checkpoint.py`, `sandbox/session.py`, `sandbox/checkpoint_dream.py`) | shadow repository, index file, pending operation | death around each git step, outside edits, eviction and pruning | the store can be opened again; work nobody checkpointed is not overwritten by recovery |
| **Workspace locks** (`sandbox/locks.py`) | local reader-writer locks, system file locks | cancellation of a waiter, death of a holder, two processes | transactions exclude each other, no wake-up is lost |
| **LaTeX compilation** (`gateway/latex.py`, `gateway/application.py`) | record, Run, Attempt, staging, artifacts | cancel at any await (also while the sandbox is closed), failing steps and writes, death | what record, Run, Attempt and files say of a result agrees |
| **Session log and compression** (`memory/session.py`, `memory/store.py`, `memory/callbacks.py`, `context_process/compression.py`) | segments, index entry, cache, open Turn | death inside a rollover or a Turn, edits of the last Turn | a Session can be restored to a legal history; an ended Turn has its evidence |
| **Structured memory** (`memory/structured.py`, `memory/embeddings.py`, `memory/retrieval.py`) | canonical records, index and embedding jobs, profiles, legacy import | two databases, an await between candidates and use, hand edits | recall shows active records only, the index catches up, hand edits survive, an import is whole |
| **Dream** (`dream/`) | day cursor, state, memories, profiles, backups, transaction files | failure or death between any two writes of a commit to several files and a database, rollback | the files agree, facts follow the runs that count |
| **Note vault** (`gateway/note_store.py` and its watcher) | files, rows, revisions, trash | external editor, watcher, death between file and row | no body is lost |
| **Paper library** (`gateway/paper_web.py`, `reference/`) | papers, search documents, embedding jobs, summaries, purge | text replaced during the await of the provider or before its job is queued, purge beside work | a vector is of the text it is served for; a finished summary is on disk |
| **Process supervision** (`gateway/process.py`) | discovery file, port, token | two processes | only start, stop and death are modelled, inside `Maintenance` |
| **Single Tools, prompts, HTTP handlers, archive formats, UIs, sandbox back ends** | data and presentation | none of their own | not modelled |

### 1.3 How they interact

- All durable state of a Run goes through `StateController.apply`, one
  transaction at a time, with a revision and a `gateway_epoch` that fences
  commands of a dead process.
- The pool runs one asyncio task per Run. Its React loop calls the durable
  model and Tool boundaries, which issue ledger commands before and after the
  external effect. Approval answers arrive through a future in memory and a row
  in the database.
- The same transaction that changes a Run writes its event and one Delivery per
  sink. The dispatcher hands Deliveries to the JSONL file and the EventBus; the
  bus feeds WebSocket handlers, which also replay from SQLite. The observer
  reads the same stream behind its own offset.
- Cron ticks create Runs and submit them to the pool; the pool's terminal
  callback settles the dispatch. A Run and its dispatch hold a reference to one
  runtime generation.
- Every writer enters the maintenance gate; a backup, a stop and a restart
  freeze it through the participants and resume it. A restore works while the
  Gateway is down, behind a fence that start respects.
- The Memory callbacks of a Turn write Session records; finalization proves
  them. The Dream reads Sessions and writes through the structured memory.
- At start the application reconciles outbox and Cron claims, then lets the
  RecoveryCoordinator adopt Runs, then serves.
- Asyncio gives interleaving only where a coroutine suspends; the process can
  die between any two transactions or file operations.

## 2. The modules

| Module | Models | Notes on the correspondence |
|---|---|---|
| `AgentState` | enumerations, record validators and `reduce_operation` of `Agent/state.py` | shared vocabulary; an Attempt keeps the fields that guards read |
| `OperationLedger` | every ledger command | an action's guard is the command's checks, a failed check changes nothing; callers are arbitrary, so the results hold for every caller |
| `RunLifecycle` | one Run: pool task, model and Tool boundary, broker, cancel, close, crash, recovery, FINALIZING | `run` is the row, `pc` the point where the task is suspended, `rpc` the same for `recover()`; a step is a transaction, or several without suspension whose intermediate states recovery treats alike; where the heartbeat of a Tool is stopped is a place of its own (`Stopping`); earlier Operations are abstracted to `orphan` |
| `ToolBatch` | `_execute_tools_streaming` | `ctl` is the place in the loop, `st` the state of each body |
| `OrderedAnswers` | nothing: the promise to the model | answers appear left to right, a complete reply has all of them |
| `EventOutbox` | writer, dispatcher, JSONL sink, bus, archiver | the physical call and its durable settlement are separate steps, with a crash in between |
| `EventStream` | Run, bus, WebSocket handler, client | uses `BusWithoutGaps` of `EventOutbox` as what the bus is fed |
| `Cron` | store, scheduler, service, submission, reconcile, recovery | store methods are steps; one turn of the event loop is a chain of steps nothing but a death interrupts |
| `Maintenance` | gate, coordinator, participants, backup inside a freeze, stop, restart and its helper, control-only start | `life` is the lifecycle row, `coord` the step of the coordinator under its lock and whom it serves, `cut` the home when the backup's freeze completed |
| `Restore` | restore, rollback, recovery, restore of one workspace, Gateway start | `tree` holds what lies in each slot (live, staged, rollback, failed) of each root; a journalled rename is intent, rename, commit |
| `BackupStore` | operations, objects, manifests, index, retention by the Gateway and by `backup prune` | content is a set of object names; retention chooses first and deletes afterwards |
| `Generations` | planning, approval, activation, rollback, quarantine, references, collection | `job` has one entry per thread; between plan and activation other threads and Runs move; `acts` are the audit rows |
| `Observer` | visible events, observation chain, recovery, proposals, Skill publication | `obWork` is the observation that holds the lock, `obOut` its outputs still to be recorded |
| `ExtensionHooks` | trace snapshot, callbacks, outcome and quarantine, grant, revoke, re-enable, reload | a callback is entered, handled and settled in steps of its own |
| `HarnessEngine` | the engine's invocation: prepare, validate, merge, audit, reconcile, on a repository with a user | `hist` is the branch, `inv` what an invocation left on disk |
| `HarnessDream`, `HarnessCode` | change sets, reverts and restart requests; coding sessions and grant intents | both act through `HarnessEngine` |
| `Harness` | their composition with the capability Tool and the ERROR proposals, death and start | `workload` chooses which users are present |
| `Checkpoint` | create, rollback, merge, eligibility, eviction, pruning, recovery of each | `ckGit` is commits and refs, `ckDisk` the index file, `ckLive` the index in memory; deleting a merged ref, writing the index and pruning are three steps |
| `WorkspaceLocks` | `_lease`, local and system acquisition, release, cancellation | one step per await or condition wake-up |
| `Finalization` | a pass over the steps memory, session_index, audit, inbox; retries; `recover_generation` | `fzRecs` and `fzIdx` are versions of what the evidence is about |
| `LatexCompilation` | two compilations, from the request to the artifacts | `lxPc` is the place of the request or of the driver task; closing the sandbox and removing its directory is an await of its own (`discard`), and so is every write |
| `SessionLog` | Turns, segments, rollover, compression, branch, truncate, delete, restore | records keep role, run and reference; text is absent |
| `LongTermMemory` | writer, index worker, embedding worker, recall, projector, import | jobs are queues in order of their watermark |
| `DreamMemory` | scheduler, run, commit, rollback, `_ensure` | EXTENDS `LongTermMemory`: the commit writes records of it, one transaction per fact, and undoing it is three steps |
| `NoteVault` | API handlers, watcher, rebuild, trash, external editor | one step per file or database operation |
| `PaperLibrary` | documents, embedding worker, summary Runs, archive and purge | a text is a number and a vector remembers the text it was made of; a request that changed a document still has to queue it (`plQueue`), one transaction per document |
| `MC*` | instances | constants, and for the last three runs the choice of the component explored |
| `*Proofs` | theorems | see section 5 |

A definition whose name begins with `Slip`, or whose comment does, is a mistake
of the kind a change to that code could introduce. No specification uses it;
substituted for the definition after it, it makes the named property fail, which
shows that the property depends on that code.

## 3. Runs

| Run | Specification and bounds | Properties and what they show |
|---|---|---|
| `ledger_commands` | two kinds of Operation (side-effecting Tool, model request), one created per behaviour, three Attempts, one Approval | under arbitrary commands the stored row is the reduction of its Attempts (`AggregateIsReduction`), no retry of an unknown effect and no start of a refused Attempt slips past a human (`HumanDecides`), checkpoint and observations keep agreeing with the ledger (`EvidenceStable`), determined Attempts are not rewritten (`DeterminedNeverRewritten`) |
| `run_crash_cancel` | every idempotency class, two model calls, two Tools per reply, two tries, two crashes, cancel, close, unprovable evidence, recovery passes started by other Runs' approvals | effects of uncertain Tools leave once and after approval (`EffectsControlled`); the terminal state is the one the loop ended with and unknown effects are parked (`RestsAsItHappened`, with the exception `CutShort` of section 6); terminal Runs are final and requests leave only while RUNNING (`RestIsQuiet`) |
| `run_settles` | as above under fairness, without crash, cancel, close and foreign recovery passes | every Run comes to rest (`Settles`) |
| `model_crash_restart` | a crash during a model call, fair | violated, see below (`GatewayComesBack`) |
| `tool_batch` | four calls of every kind, groups of at most two, fair | order, isolation and containment (`BodiesDisciplined`), termination (`Closes`), refinement of `OrderedAnswers` (`KeepsPromise`) |
| `outbox_crash` | one stream, two sinks, the JSONL sink fails at will, three events, two attempts, one crash, fair | sequence, no gap on the bus, one live attempt (`SinksInOrder`); JSONL at most once, delivered events readable, bodies never lost (`EventsKept`); every Delivery settles (`EveryDeliverySettles`) |
| `stream_follow` | queue of one, three events and a terminal one, one lost connection, one crash, Runs that may end silently, fair | gap-free sequence (`SeenInSequence`), end of the subscription (`SubscriptionEnds`), nothing lost between replay and live (`EveryEventShown`) |
| `cron_cycle` | a catch-up interval job and a one-time job, capacity one, two intervals per look at the clock, two incidents (requests, deaths, failing submissions) | one cycle at a time, periods once, bound before executing (`CyclesSound`), settled for good (`SettledForGood`) |
| `maintenance` | one unit of work, two participants, one member written once, two freezes, one death, fair | the gate tells the truth and a complete backup is one cut (`MaintenanceSound`); a freeze is ended by its owner (`OwnerResumes`); draining and resuming end (`TransitionsEnd`) |
| `plugins` | generations: two plugins, three versions of which two mean the same, an interactive and a Cron Run, three generations, one edit; one death beside one of the Runs, none beside both; observer: four events, one fault, one death; hooks: two Runtimes, two lawful sources and a rejected one, threshold one | `GenerationsSound`, `BindingKept`, `ObserverSound`, `HooksSound` |
| `workspaces` | Harness: a coding session alone and three pairs of users, two generations, one step of the repository's user (for the pair of Dream and coding session each is the other's user), one death; checkpoints: two files, three commits, limit two, one death or failure, one outside edit; finalization: two generations, two tries, one death; locks: three coroutines in two processes, one cancellation, one death; LaTeX: two compilations, one failure, two deaths | `HarnessSound`, `CheckpointsSound`, `UnrecordedWorkKept`, `FinalizationSound`, `LocksSound`, `CompilationsSound` |
| `stores` | restore: home and two workspaces, two deaths; backups: two sharing two objects, one prune, one death; Session: two Turns, two rollovers, one edit, one death; notes: two names, one folder, one revision kept (50 in the code), two operations, one outside edit, one death; papers: one paper, two texts, two summary Runs, four operations; memory: two facts, two imported, two writes, one death; Dream: two days, two runs, two facts, two faults (a failing write, a death), two rollbacks | `RestoreSound`, `BackupsSound`, `SessionSound`, `BodyKept`, `LibrarySound`, `MemorySound`, `RecallIsActive`, `DreamSound` |

A property whose name ends in `Sound` (and `EffectsControlled`, `EventsKept` and
the like) is the conjunction of a component's type invariant and the named
invariants above it in the module, each with its own comment.

The last three runs put components side by side that share no state. A variable
`focus`, chosen in the initial state, says which of them moves, so the run is the
sum and not the product of their state spaces and every property is checked
in the states where its component moves. `DreamMemory` and `LongTermMemory`, and
the Harness modules, do share state and are composed.

Two runs have a state constraint. `workspaces` leaves out what follows when the
Dream rewrote a checkpoint index under an open Trace (`ckRaced`), and `stores`
what follows an operation that is known to break a Session's references
(`slHurt`): both are deviations of section 6, and the properties are about the
behaviours up to and beside them. Other deviations are carried by history
variables the properties name in their hypotheses (`unsafe`, `raced`, `lifted`,
`lkHurt`, `fzCut`, `lmStale`, `plStale`, `dmHurt`, `lxUntold`, `lxEnd`, `op.cut`) or by a
predicate on the state (`CollectionCutShort`).

Why the bounds are enough. A ledger rule reads at most the newest Attempt and
the one before, so three Attempts reach every combination. One Operation at a
time is explored, because commands touch one Operation; the only rule that looks
across Operations is the checkpoint's (no other side-effecting Attempt may be
open), and the theorems cover any number of them. A Run needs two
model calls and two Tools per reply for an orphaned Attempt of an earlier call,
and two crashes for a death during recovery. A batch of four with groups of two
has a full group, a partial group and barriers on both sides. The outbox needs
three events for an event with a predecessor and a successor in different
states, and two attempts for one failure and one last try. A queue of one is the
smallest that overflows. Cron reaches coalescing with two intervals between
ticks and competition for the same job with two incidents. Maintenance needs two
participants for one that has paused beside one that has not, and two freezes
for one owner inside another's; one write is enough for a member that changes
after it was copied. Restore needs two workspaces for a restore that
switched one and not the other, and two deaths for a death during recovery. Two
backups suffice for shared objects. Generations need three for a head, its
successor and a rollback to the first. Locks need three coroutines for a reader,
a waiting writer and a reader behind it, in two processes. A checkpoint store of
limit two with three commits evicts and prunes. A Dream needs two runs for a
rollback beside a later one, two facts for a commit that fails between them, and two
faults for a death while a failed commit is undone. Elsewhere two of each and one death at any point
give every pair of steps an interruption. The proved properties do not depend on
the bounds.

Deadlock checking is off in every run: each system really stops (a closed Run,
a settled outbox, an ended subscription, the bound on the clock).

Liveness is checked under weak fairness of the code's own steps only: the
asyncio loop runs every ready task, the dispatcher and the poll wake by timer,
the coordinator's drain ends with its timeout, a dead Gateway is started again
by the next command of a user (`ensure_running` of `gateway/process.py`).
Clients, humans, crashes and failures are never fair.

### The violated run

`model_crash_restart` states what `README.md:478` says: provably safe tasks are
recovered. `recovery.py:118` passes `reason=` to a command that has
`abandonment_reason` and forbids extra fields: after a death during a model call
every start of the Gateway raises. Other disagreements between code and documents
that the models contain are listed in section 6.

## 4. What the models keep of the hard behaviour

- **Crashes** at every step of every module but `OperationLedger`, `ToolBatch`
  and `ExtensionHooks` (what they keep on disk is written by single transactions,
  and the rest dies with the process), during recovery, rollback and
  reconciliation too.
- **Interleaving** of the Run task with cancel, close, approval timer, client
  decision and recovery; of the bodies of a batch; of dispatcher and archiver;
  of ticks, API requests and Runs; of reloads on several threads; of Harness
  users with the repository's own user; of coroutines and processes at a lock;
  of API handlers with the watcher and an editor; of workers with writers.
- **Delivery**: repetition after a crash, dropped queue entries, lost
  connections, live events that overtake the replay.
- **Retries**: Attempt retries with due times, Delivery retries with a budget,
  recovery retries, finalize retries, index and embedding jobs, model answers.
- **Partial failure**: unprovable evidence, failing sinks, failing submissions,
  participants that fail half way, renames, facts and files of a commit of
  which some are done, a cancellation while an outcome is about to be recorded.
- **Stale values**: a plan on a head that moved, candidates read before an
  await, an index that lags behind, a revision an administrator read.

## 5. Proofs

TLAPS checks eight modules. None of the properties is inductive alone, so each
section states the invariant that is, proves that `Init` has it and every action
keeps it, and concludes. Every invariant was first checked by TLC under the
component's run. The constants are arbitrary: sets of any size, any bound.

**`StateControllerProofs`: ledger** (any Operations, Approvals, retry limit).
`LedgerInv` adds to the properties that every history is good: records are
well-formed, only the newest Attempt is prepared or running, a non-final unknown
Attempt carries a human's risk confirmation, an Attempt authorised for retry
carries one too, and prepared or skipped Attempts were never started. The last two
are what make the step cases go through: authorising a retry and appending the next
Attempt are separate commands, and a refusal concerns an Attempt that must not have
been started before. Every command that touches a history is first shown to be a
`Writes(o, h)` step (the new history is good, keeps every determined Attempt and
grows by at most one), and the invariant is preserved by any such step; commands
that touch only approvals, checkpoint or observations are treated as quiet steps.
Theorems: `TypeCorrect`, `LedgerIsReduction`, `SingleLiveAttempt`,
`UnknownNeedsHuman`, `RefusalIsFinal`, `HumansDecide` (the two together, as the
run states them), `EvidenceIsStable`, `AttemptsAreFinal`, `RetriesAreBounded`.
Assumptions: `MetaAssumption`, `MaxAttemptsAssumption`.

**`StateControllerProofs`: Generations** (any number of rows, plugins, threads,
Runs and edits). `GenInv` says what a thread holds between two transactions:
the row it planned is still there with the content it read (`JobFits`), and a
reload that needs approval has it. To that it adds that the rows ever activated
are exactly those in the history of heads (`GnHistory`), so an activated row was
never the head before, and that whatever is relied on is a live row (`GnHeld`),
so the collector, which fences before it removes, cannot take it. Theorems:
`HeldGenerationsWhole` (`GenerationsSound`) and `RunsKeepGeneration`
(`BindingKept`). Assumption: `GenAssumption`.

**`StateControllerProofs`: hooks** (any sources, Runs, faults). The code counts
failures in a number; the property speaks of the audit log. `XhInv` relates them:
of an active source the streak is the number of failures in the open row of its
log, below three. A running handler keeps the length the log had when it was
started; the log only grows, so the prefix it was judged on does not change. What a
trace allows stands in the grant row of its version, and grant rows are only
appended. Theorem: `HooksKeptInBounds` (`HooksSound`). Assumption: `XhAssumption`.

**`StateControllerProofs`: maintenance** (any participants, members, epochs, deaths).
The gate, the coordinator, a backup, a restart request and the processes share the
state; `MnInv` says which of them can be where at once: what the gate can be at each
step of the coordinator (`MnGate`), that a process that has not started its services
holds nothing (`MnFresh`), that the epoch a backup holds is that of its own freeze
(`MnHeld`), and whom the coordinator serves (`MnServes`). From these the home stands
still while a backup copies it, unless an administrator ended its freeze (`MnStill`),
so every member copied is its cut (`MnCopied`). `OwnerResumes` is proved as an
action property: besides the administrator only who asked for a freeze ends it. Theorems:
`GateTellsTheTruth` (`MaintenanceSound`), `OwnersResume` (`OwnerResumes`).
Assumption: `MntAssumption`.

**`CallsProofs`: the batch** (any number of calls, any parallelism). `Inv` says that the
calls between the last observation and the loop's position are exactly the
collected or the flushed group (`Shape`), and that bodies run only inside a
gathered group or as the serial call (`Bodies`). Publishing the leftmost member
of an interval then continues the log. Theorems: `TypeCorrect`, `OrderHolds`,
`AllAnswered`, `SerialAlone`, `BodiesContained`, `Disciplined` (the conjunction
the run checks), and `PromiseKept`: the executor implements `OrderedAnswers`.

**`CallsProofs`: Harness** (any generations, turns, repairs, steps of the user and
deaths; any of the four users together). The Gateway's records live apart from the
repository, so `HrInv` says for every engine call what its place tells of its
commit: before the merge it is not in the history, from the verification on it is
(`HrKnown`; `HrPlace`, `HrFresh`), and what its audit shows of it (`HrAudited`:
a merged candidate has an open audit with an intent whose base lies behind the
head, which is why `reconcile_dream` may take a head that did not move for a merge
that did not happen). A retried `/exit` and a second confirmation of an ERROR
proposal share a name with an earlier call, so of a session's calls only the
history it began with is known (`HrCode`, `HrBehind`), of a proposal that nothing
is merged before it runs (`HrError`), and of the Tool that a new Attempt starts
only where nothing was applied (`HrCapability`). For the Dream the invariant says
that call, Operation and Run are those of the generation in the row
(`HrGenerations`), what each step of the tick may rely on (`HrTick`), and that the
row tells the truth at every step (`HrRow`); a death takes what is in memory
(`HrDown`). Theorem: `RecordsAgreeWithHistory` (`HarnessSound`). Assumptions:
`EvoAssumption`, `WorkloadsAssumption`.

**`EventStreamProofs`** (any queue size, events, drops, crashes). `Inv` says what
is under way between SQLite and the client: rows still to send continue the
server's cursor, a live event held back continues those rows, and the messages
on the wire run up to the server's cursor and start no later than just after the
client's. Theorem: `StreamInSequence`. **Observer** (any stream, observations and
deaths). `ObInv` says that the terminal event is one and only outputs follow it
(`ObLast`), that the stored offset splits the stream into what is visible and what
is not (`ObOffset`, `ObReach`), that whatever came of the Run was drawn after its
terminal event was consumed (`ObOutcome`), and how far the publication of a Skill
is (`ObPublishing`). Theorem: `ObserverTellsAll` (`ObserverSound`).

**`EventOutboxProofs`** (any streams, sinks, Attempts, archive passes, deaths).
`OutInv` says that the claim in hand is the one row in delivery and has the one
open Attempt (`Claims`, `Attempts`), that the Deliveries of a stream and sink are
settled up to the first open one, that the bus published a prefix of the stream
(`BusInTurn`), and that the file and the archives hold what the rows say they
hold (`FileInv`, `ArchiveInv`). Theorems: `SinksServedInOrder` (`SinksInOrder`)
and `NoEventLost` (`EventsKept`). `NoEventLost` has the hypothesis
`~ TornWrites`: when a file system leaves part of a line after a crash the sink
writes the event again, so "at most once" is a claim about whole lines only.
Assumption: `SinkAssumption`.

**`RunLifecycleProofs`** (any number of calls, retries, deaths, clients'
commands). The rows alone say little; `RunInv` says, for each label of the Run's
task and of a recovery pass, what the row and the newest Attempt then hold:
well-formed rows (`RunOK`, `HostOK`), labels (`LabelsOK`), the Operation in hand
(`OperationOK`, `PendingOK`), closing (`EndingOK`), recovery (`RecoveryOK`).
`Undisturbed` is stated only for a process in which no other Run waits for an
approval, because such an approval starts a recovery pass that moves this Run
under its live task. A Tool whose recording was cut short (`CutShort`) is the one
whose effect can be lost; `RestsHonestly` says that there is no other. Theorems:
`EffectsUnderControl` (`EffectsControlled`), `RestsHonestly` (`RestsAsItHappened`),
`RestsQuietly` (`RestIsQuiet`).

**`CronProofs`** (any jobs, schedules, capacity, clock, deaths). `CronInv`: an
occurrence lies in the past, before its job's cursor, and is the only one of its
time (`CrTimes`); requests are counted (`CrCount`); what a job calls current is
its running dispatch and the other way round (`CrJobs`); what a dispatch's status
says of its Run (`CrRuns`); a job has at most one dispatch that is claimed,
bound or running (`CrOwners`); the queue and what it may still hold after a
restart (`CrQueue`, `CrStale`). Theorems: `CyclesAlwaysSound` (`CyclesSound`),
`SettledStays` (`SettledForGood`). Assumptions: `SchedulesAssumption`,
`JobsAssumption`, `BoundsAssumption`.

**`StoresProofs`: backups** (any backups and objects). `StoInv` adds that a
retention pass keeps every manifest that was published before it began
(`PrunePasses`): without it the objects it removes could belong to a manifest it
did not read. Theorem: `BackupsRestorable` (`BackupsSound`). **Restore** (any
workspaces, deaths). `RstInv` says, for each step of the journal, where the old
and the new home and the roots are (`RstHolders`, `RstMoves`, `HomeInPlace`,
`QuarantineSafe`), apart for a first restore and one that met no death. Theorem:
`HomeSurvivesRestore` (`RestoreSound`). Assumption: `RstAssumption`.
**Paper library** (any papers, texts, requests, deaths). `PlInv`: documents have
their paper's text (`PlTextual`); while a request still queues what it wrote no
other is in the middle of its turn (`PlQueued`); an open job is of its document's
text once that is queued, and the worker's claim and a stored vector are each of one
text, unless the document was left with an open job for another (`plStale`;
`PlHashed`); files go with an expired paper only (`PlKept`). Theorem:
`LibraryKept` (`LibrarySound`). **Structured memory** (any records, workers,
writes, deaths). `LmInv`: a record is indexed as it is or a job for its revision is
open, which needs what a worker that was overtaken has read and written
(`LmIndexInv`); the digest is that of a projection (`LmFile`); what is imported is
known (`LmImport`). Theorems: `MemoryAlwaysSound` (`MemorySound`) and
`RecallOnlyActive` (`RecallIsActive`, an action property). **Dream** (any messages,
runs, failures, deaths, rollbacks). `DmInv`: what each step of a commit, a rollback
and a restart says of transaction and backup (`DmPlace`); a backup lists earlier
runs only (`DmOrder`), and that of a run lists all before it (`DmChain`), so a
rollback takes back exactly the last run; the files agree in every backup and, in a
commit, as far as it got (`DmFiles`); the Gateway Run says which runs count
(`DmGws`), and what they consumed is what the state calls processed (`DmFeeds`); a
fact only one run vouches for belongs to a run that counts, is writing or is being
taken back (`DmFacts`). Theorem:
`DreamAlwaysSound` (`DreamSound`, and `MemorySound` under the Dream's writes).
Assumptions: `PlAssumption`, `LmAssumption`, `DmAssumption`; the records are a
finite set because a change of several enqueues their jobs in some order.

**`WorkspacesProofs`: locks** (any coroutines and processes). `LkInv` counts: the
reader and waiter counters are the cardinalities of the coroutines at the labels
that own them, system locks are compatible, earlier leases of a transaction are
held, and whoever sleeps has a reason to. Theorem: `LocksExclude` (`LocksSound`).
**LaTeX** (any compilations, failures, deaths). `LxInv` says for each place of the
driver what Run, Attempt and record hold (`LxDriven`), what the outcome it is about
to record is worth (`LxSettled`), what a record that is final rests on (`LxRecorded`),
and what a driver that ended may leave behind (`LxLeft`). Theorem: `CompilationsAgree` (`CompilationsSound`).
**Finalization** (any generations, retries, edits, deaths). `FzInv`: evidence
read in a pass is fresh (`FzFresh`) and a parked Run recoverable
(`FzRecoverable`). Theorem: `ClosedOnFreshEvidence` (`FinalizationSound`).
**Note vault** (any names, folders, bodies, operations, edits, deaths). `NvInv`:
no file lies in a folder that is gone (`NvFiles`), so a renamed or restored tree
lands on nothing; a deleted tree is whole in the trash (`NvTrees`); the handler
about to write has the file's body in a revision, and the one that deletes left
nothing under the path (`NvHand`). Nothing is assumed of the rows, which may be
stale. Theorem: `BodiesAlwaysKept` (`BodyKept`).
**Checkpoints** (any files, commits, branches, deaths, failed git steps, changes
from outside). `CkInvariant` has two halves. The first holds always: an index on
disk, in memory or in the hands of an operation is sound by itself (`CkIndexedAt`):
every recorded commit is reached from a branch whose ref is kept (`CkKept`), what a
pending intent still has to do is done or can be done (`CkIntentOk`), and a stage
is one the intent leads to (`CkStageOk`). The second ties the repository to the
index (`CkTiedAt`): the index in memory is the one on disk, each ref is the recorded
one or a step of the intent (`CkRefs`, `CkStageRefs`). It holds until the Dream
rewrites the index under an open Trace (`ckRaced`), after which the first half is
all that is left. `StoreReopens` follows because what the branches reach is
referenced, so `git prune` spares it (a ref that was collected while the index still
records it is the named exception `CollectionCutShort`); `UnrecordedWorkKept` follows from the stages
alone, raced or not. Reachability (`Reach`) is the least closed set, so that facts
about it need no induction. Theorems: `CheckpointsAlwaysSound` (`CheckpointsSound`),
`UnrecordedWorkIsKept` (`UnrecordedWorkKept`, an action property). Assumptions:
`LkAssumption`, `FzAssumption`, `NvAssumption` (a file name tells a note from a
folder), `CkAssumption` (at least one checkpoint is kept, as `CheckpointStore`
demands (`checkpoint.py:56`); a file has some content; room for one branch).

Only model-checked: every liveness property (`Settles`, `Closes`,
`EveryDeliverySettles`, `SubscriptionEnds`, `EveryEventShown`, `TransitionsEnd`), since fairness is outside the prover's reach;
and the safety
of `SessionLog` (`SessionSound`). It speaks of what `restore` computes from lists of
records: `FoldLeft`, `FlattenSeq` and `SelectSeq` over sequences of any length. What
such a fold returns is an induction over the sequence, and the induction theorems
take an operator as a parameter, which the installed provers cannot instantiate.

## 6. Deviations met while modelling

The models contain what the code does in these cases; the properties exclude them
by a named hypothesis or constraint, or do not speak of them.

Runs and approvals
- Cancelling a Run that waits for an approval finishes the inner machine with
  ERROR; the pair (ERROR, CANCELLED) is refused and the Run parks, again after
  every retry (`runtime_pool.py:256` says a successful cancel reached the
  terminal boundary).
- The expiry of a pending approval (`README.md:478-479`) is not enforced after a
  restart: `recovery.py:64` leaves the Run waiting without a timer.
- Deciding an approval of a Run without a task starts `recover()` over all Runs
  (`application.py:3467`; `README.md:514-515` speaks of the one Run). It requeues
  or parks Runs whose tasks are alive; `UnknownIsParked` and
  `RequestsOnlyWhileRunning` therefore exclude such passes, the other properties
  of `run_crash_cancel` hold with them.
- `close` leaves a pending approval behind (`approval.py:213-214`).
- A PREPARED side-effecting Attempt orphaned by a restart makes
  `CreateSafeCheckpoint` refuse the Run from then on (`state_controller.py:1750`).
- Cancel during FINALIZING kills the task, and the Run stays FINALIZING until
  the next start. Cancel of a Run without a task sets only a flag.
- An unknown effect is not always parked. `durable_execution.py:451-452` awaits the
  heartbeat after the Tool returned and outside the `try`, and 381 and 389 do so
  before the handlers record anything: a cancellation that arrives there (at 451 the
  first, in a handler a second one, `runtime_pool.py:243-260`) leaves the Attempt
  RUNNING and unrecorded. `_execute` (`runtime_pool.py:653-661`) then closes the Run
  CANCELLED, or a second cancellation leaves it as it is; `_validate_terminal_finalize`
  (`state_controller.py:4107-4191`) does not look at the Attempts. `CutShort` in
  `UnknownIsParked` is exactly this case. The same await in `_finish_model_attempt`
  leaves a model Attempt RUNNING, which has no effect to lose.
- Callbacks of a finished Run are called also when finalize parked it: a Cron
  dispatch is then settled although the Run may still complete.

Finalization
- The command ids of `recover_generation` are per generation: a death after
  RECOVERING or before the replacement makes every later recovery raise, and the
  Run stays in RECOVERY_REQUIRED (`fzCut`). `StateConflictError` escapes
  `_finalize_reserved`; a Session without an index entry leaves the Attempt
  RUNNING; a rollover by the Session's next Turn between two passes invalidates
  the index evidence.

Events
- A death that keeps a JSONL record but not its line end leaves a record the
  index takes for complete; the redelivery writes nothing and the next event runs
  into the same line (`outbox.py:33`: exact bytes are appended once). With
  `TornWrites = TRUE` the model has it.
- A Run that became final without a terminal event is polled for ever
  (`client.py:639-642`: the poll keeps the CLI from hanging).
- A failing `fsync` (`outbox.py:72`) leads to a second append, contrary to
  `README.md:500-501`.
- A damaged JSONL line makes the index unreadable until dead letter; a failed
  archive keeps its members (`event_store.py:586`); an I/O error ends the archive
  scheduler (`event_store.py:640-684`); interrupted attempts use the budget.
- The client's exception handler reads the status before the replay
  (`client.py:687-703`) and may return without the terminal event.

Cron
- `application.py:797` calls a crashed bind safely resumable: reconcile runs
  before recovery, meets the Run of the dead epoch and makes every start raise.
- Recovery that finishes a Run itself never calls the Cron callback: the job is
  occupied until the restart after.
- A death inside `remove()` can leave a claim of a deleted job, at which every
  start raises; a removal between claim and bind leaves an orphaned Run.
- The success of a one-time job sets it to completed whatever it was
  (`store.py:372`); policy `skip` skips on-time occurrences too
  (`scheduler.py:140`); a submission that raises blocks its job until a restart;
  after 100000 missed occurrences a job has no next time (`scheduler.py:114`).

Maintenance
- The restart helper requires a Gateway that accepts work (`restart.py:158`),
  which a control-only Gateway does not, so the resume of
  `docs/gateway-maintenance.md:126-127` is never reached and the request fails.
- A manual backup in a control-only FAILED Gateway reopens the gate without
  starting services (`application.py:676`); a failed backup resumes although
  `docs/gateway-maintenance.md:116` keeps FAILED; an administrator may end the
  freeze of a backup that is copying (`lifted`).
- Retention inside `_verify_and_complete` does nothing while its own operation
  is active.

Backup and restore
- A workspace is listed as restored before its rename (`restore.py:448`,
  `unsafe`): a failure in between moves the old one away. A rollback after a
  death restores the home directory but not the workspaces. A torn journal line
  makes recover and rollback raise (`control.py:153`). `restore_workspace` keeps
  no journal.
- `backup prune` races a backup that begins (`raced`); retention by size may
  delete every backup.

Plugins
- The plan hash ignores formatting: a reformat of a plan that waits for approval
  makes record and activate raise until something else changes. A rollback
  generation hashes differently, so the next reload is never "unchanged". A
  failed quarantine rollback is not retried; an operator may roll back to a
  generation that was never prepared; "last healthy" is looked up per generation,
  so the same bad version can be chosen. A Run that ends before STARTED keeps its
  Session's reference (`docs/runtime-hot-reload.md:94-98`).
- Observer: `recover()` takes the last event of the stream for the terminal one,
  so an output recorded after it plus a death leaves the instance active for
  ever; its outputs are dropped; the comment at `observer.py:1101-1103` does not
  hold for direct workloads; a death between `mkdir` and `os.replace` leaves a
  staging directory at which every retry raises; a correction's follow-up Run is
  not started after a death unless the client asks again.
- Hooks: a failing reporter is swallowed (a patched event without audit, a
  failure not counted); a revoke does not reach open Runtimes; calls in flight
  when their source is quarantined still finish; a cancelled Run records nothing.

Harness
- `create_harness_dream_revert` passes the status "proposed", which
  `decide_harness_dream_revert` refuses (`application.py:2479-2483`,
  `state_controller.py:2937`).
- A Dream generation that died after a result without changes stays UNKNOWN, as
  does a merge whose receipt is missing or whose HEAD moved
  (`application.py:836-850`, `harness_evolution.py:246-285`), or one that a user
  commit overtook.
- A repeated confirmation of an ERROR proposal starts a second engine call
  (`harness_evolution.py:338-388`); a proposal stays "running" after a death.
- `code_sessions.py:39` says one mutable session per repository, which nothing
  enforces; a pending grant intent that is merged later by hand overrides a
  revoke; intents in recovery_required are not retried; manual merges are audited
  where the Dream scanner does not look.

Checkpoints, locks, LaTeX
- `_recover_rollback` archives as merge-eligible even when the user said no
  (`README.md:1001`). A create that fails after its intent is followed by
  `restore_current`, so its recovery cannot succeed and every later `open()`
  raises; an outside change after a death in create does the same. The Dream
  checks idleness once (`ckRaced`). The collection of merged branches deletes the ref
  (`checkpoint.py:590`) before the index records it (600): a death or a failing git in
  between leaves an index whose ref is gone, and every later `open()` raises in
  `_validate_refs` (995-997). `_trim_restore_points` writes the index first, for the
  reason its comment gives (916-918). `CollectionCutShort` is this state. Restore and rollback overwrite the
  uncheckpointed work of other Sessions.
- A cancelled waiting writer decrements its counter without `notify_all`: readers
  may sleep on a free lock (`lkHurt`). `gateway/workspace_files.py` locks under
  another root than the Agent for external workspaces.
- LaTeX: `discard()` awaits the workspace lock and the container before it removes
  the directory (`gateway/latex.py:147-157`, `sandbox/session.py:130-133`): a cancellation there
  (`cut`) or a container that cannot be closed (`docker.py:57-62`, `unclean`) leaves
  the staging directory without any death, and the second also takes the place of
  the result, a PDF that was produced included. In the request such a failure leaves
  the Run RUNNING. A request that fails after its record was written leaves it queued
  beside a FAILED Run; one that fails after the Attempt started leaves that RUNNING.
  A write to the database that raises in the driver leaves a record that looks active
  until the next start (`lxUntold`). A compilation cancelled before its first step
  stays queued; one cancelled while finalizing stays FINALIZING until a restart. The
  tree revision is not compared again after the await. Staging directories stay after
  a death.

Sessions, memory, Dream
- `branch()` drops record ids, `truncate_last_turn` moves records to another
  segment, a torn last line or a half-done delete or branch: each makes a later
  restore raise or dangle. A rollover of a pending Session forgets its first
  segment (`session.py:469-500`). A resumed Turn cancelled before its user record
  is written again has no terminal record. A closing Tool record and an
  observation published later both remain. The cache of a pooled Runtime is not
  told of edits by the Gateway.
- A rebuilt index never refills, because the ready jobs win over INSERT OR
  IGNORE; two processes may index one record at once and the older read wins
  (`lmStale`); an embedding job whose revision moved on fails for ever; the first
  projection overwrites a profile whose import was empty; the Dream's managed
  section counts as drift.
- After a failed commit the Dream writes the state it had already changed in
  memory: the evidence is consumed and the failed run listed in `successful_runs`
  (`tests/test_dream.py:445`, `README.md:282-283`). `DreamFilesAgree` therefore
  claims the processed evidence only while no commit failed; that entries and facts
  of such a run do not count is claimed all the same, by the Gateway Run's status. `_ensure` restores files but
  not facts, and forgets the transaction even when the restore raised; a rollback
  has no transaction and puts the day cursor back; profile text written during a
  run is lost (`README.md:850`); a fact two runs vouch for survives both
  rollbacks, and one that is dreamt again after a rollback stays deleted.

Notes and papers
- `_remember_disk_signature` swallows an outside change since the last sync; a
  rebuild that read its files before a rename commits stale rows; folder ids
  change; a death between the move to the trash and its row makes a note
  unreachable; an outside save between snapshot and replace is lost;
  a body behind the newest 50 revisions of its note goes
  (`note_store.py:686`).
- An embedding that ends after the text changed closes the new job with the old
  hash; a text that comes back while a job is open is not queued. A document and its
  job are two transactions (`reference/store.py:95-151`, 613-630): after a death in between the
  worker, still holding the job of the old hash, reads the new text
  (`embeddings.py:158-163`) and stores its vector under the old hash, which is served
  when the old text comes back. `plStale` marks the documents of both cases. An upsert
  of an existing paper replaces its metadata and with it the mark of its summary and
  its purge date (`reference/store.py:117-130`);
  restoring a paper keeps its purge date; a death between `rmtree` and the row
  followed by a restore leaves a paper without files, and an import over it one
  marked as summarised without a summary (`plCut`); two starts of a summary may
  start two Runs; imported papers are never queued for embedding.

## 7. What is abstracted or left out

Payloads, prompts, wording, timestamps beyond due or not due, hashes and paths
are model values or absent. Revisions and command ids are left out where a
command that loses the race raises and changes nothing. External code (SQLite,
asyncio, git, the operating system, model and Tool providers) appears as atomic
transactions, interleaving points, deaths, and calls that succeed, fail or stay
uncertain.

Merged or reduced, without bearing on a property: the batch branch of
`recovery.py:141-165` (a `tool_batch_id` is only set for groups of PURE Tools,
`loop.py:621`); the steps of a serial Tool (`loop.py:488-494`); the head a Run is
created on is read at `application.py:2994` and bound at 3027; the further conditions
of `resources.py:937-942`; the error paths of the observer, which end in one
failure; the failure handling of `backup/restore.py:192-201`, one outcome; the check
that a target is free and the `os.replace` after it (`note_store.py:387-389`,
441-444, 622-625), so an outside file that appears between them is overwritten
unseen; the index row and the refresh after it (`structured.py:696-699`, 720); the
transactions of an import and of a move to the trash in the paper library, whose
intermediate states other requests reach; the candidates of one Dream, which are
several inserts or one update or supersede.

Hazards covered in part, as their notes in `PROJECT.json` say: a copy of the home
that is reused by its fingerprint (`backup/service.py:1031-1037`); a `backup prune` that
races a backup (`raced`); a torn JSONL record; a Run that ends without a terminal
event; the rollover half of the finalization's evidence; the end of a Run after a
restart, which is claimed for safety but not for liveness; an undo of the Dream that
itself raises; an engine or a git child that outlives the Gateway.

Left out of the modelled components: Runtime reuse and reaper of the pool,
non-chat workload kinds in recovery, the sanitizer and the bytes of the audit,
the legacy `jobs.json` import, the calendar arithmetic of five-field expressions,
the pause of a Cron tick by maintenance, fencing on storage faults, archive
formats and encryption, provider discovery of plugins, the payload fields a hook
may see, migration of version 1 checkpoint stores, `LockFileEx`, note assets,
paper notes and inline questions, the generic cancel route of a LaTeX Run,
ranking of recalled memories, token budgets.

Not modelled: single Tools (external effects, present as calls that succeed, fail
or are uncertain), prompts, HTTP request handlers (thin calls into the
components), the command line and the user interfaces (presentation; what follows
a Run is the client of `EventStream`), sandbox back ends (containers and operating
system facilities), backup formats and secrets, Skill and paper_library services
(one compare-and-swap each).

## 8. Plan

Every safety invariant and action property the runs check is proved except
`SessionSound` (section 5 says why). What remains open is the liveness of section 3
and the parts named in section 7.
