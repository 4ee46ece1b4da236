# Verification of AEC Studio

TLA+ models of the parts of AEC Studio where order, failure and concurrency
decide whether a user's project stays correct, the TLC configurations that check
them, and proofs checked by TLAPS. Every definition is translated from the
source; `PROJECT.json` names, for each of them, the file and lines it stands
for ("map"), the questions each run asks ("runs"), a plausible bug that each
property detects ("mutants"), the places of the code that are hard to test
("hazards") and the disagreements between documentation and code met on the way
("findings").

- [1. The system](#1-the-system)
- [2. Modules and the code they model](#2-modules-and-the-code-they-model)
- [3. What the runs check](#3-what-the-runs-check)
- [4. What is proved](#4-what-is-proved)
- [5. What only TLC checks, what nothing checks](#5-what-only-tlc-checks-what-nothing-checks)
- [6. Findings](#6-findings)
- [7. Plan](#7-plan)
- [8. How to run](#8-how-to-run)

## 1. The system

AEC Studio is an Electron application over a Rust core.

```
 renderer (React hooks)            apps/desktop/renderer
    |  window.aec, async calls
 Electron main (ipc.ts)            apps/desktop/electron
    |  N-API, promises
 aec_bridge                        crates/aec_bridge
    |  spawn_blocking threads; one RwLock around the service
    +-- aec_command   engine, journal        -- SQLite project.db
    +-- aec_core      package, revisions, migrations
    +-- aec_ai        plans, sidecar, downloads, AI audit log
    +-- aec_audit     hash-chained logs       -- audit/*.jsonl
    +-- aec_render    queue, job store, tiles, path tracer
    +-- aec_governor  admission by memory and temperature
```

**How the parts interact.** Each renderer call becomes one IPC message and one
N-API call. The bridge runs it on a thread of Tokio's blocking pool
(`spawn_blocking`) and takes the service's `RwLock` for the call's whole
length: `with_service` for writing, `with_service_ref_fallible` for reading.
Calls under the write lock are therefore serial; calls under the read lock
(plans, rejects, status, listings) interleave with each other step by step. The
`command_*` calls open a *new* `CommandEngine` every time
(`service.rs:2812-2947`), so that what one call leaves in memory is dropped and
what the next one knows is what `open` reads from the project's database: the
reload path of the journal is the normal path, not the exceptional one.
Persistent state is the project package (manifest, `project.db`, `audit/`,
revisions) and a directory of models; everything else is lost with the process.

### Inventory

| Component | State | Operations | Hard to get right | Correct when |
|---|---|---|---|---|
| **Command engine and undo journal** (`aec_command`: engine, journal, commands) | `entities` and `undo_journal` tables; in memory the graph, the active scope, the undo and redo stacks | open, execute_persistent, execute_persistent_batch, undo_persistent, redo_persistent, set_active_scope | a transaction and a copy in memory that must move together; an error at any statement; a crash between commit and mirror; reload | table, graph and journal tell one story; undo and redo retrace states exactly; `expect` after the commit never fires |
| **Review of AI proposals** (`service.rs` ai_plan / ai_accept_diff / ai_reject_diff, `ai_state.rs`) | registry of pending proposals, the project, two audit files | plan, accept (commit, finalize, audit), reject (audit, finalize) | rejects interleave under the read lock; I/O fails after the commit; retries; crash | each proposal is decided once, what was answered is true, decisions are on record |
| **Audit log** (`aec_audit`, `aec_ai/audit.rs`) | a chained `.jsonl`, its companion file, the cached head | open, append, verify_chain, mirror_to_sql | head read early, used late; a line written in part | a log that was only ever appended to opens and verifies |
| **Bridge lock and calls** (`napi_api.rs`) | the `RwLock` around the service | ~150 endpoints | which endpoints read and which write; poisoning | no endpoint mutates under the read lock what another one relies on |
| **Render queue and job store** (`aec_render` queue, job_store, job) | queued, running, completed jobs; SQLite rows; a JSON snapshot that no endpoint writes | submit, admit, complete, fail, cancel, resume, upsert, reincarnate, load | a worker completes a cancelled job; resume against priority; restore of running jobs without worker | a job is in one place, ends once, higher priority first, none is stranded |
| **Renderer lifecycle and auto-save** (`useActiveProject.tsx`, `active-project.ts`, `ipc.ts`) | active project, dirty flag, auto-save timer and retries | open, create, close, save, markDirty, auto-save | a change, or another project, during an awaited save | clean means saved; a save's answer concerns the project it was started for |
| **AI sidecar runtime** (`ai_state.rs`, `runtime.rs`, `sidecar.rs`) | child process, its handle, configuration, three locks | ensure_ready, reload_with_config, snapshot, kill | lock order by convention; a child that starts while a reload waits | at most one child, the configuration it runs is the configured one, no deadlock |
| **Image generation runtime** (`image_gen_state.rs`) | like the sidecar, with an idle clock | ensure_ready, reload_with_config, snapshot, maybe_unload | eviction racing a request | nothing is unloaded in use |
| **Model download and manager** (`model_download.rs`, the two `model_manager.rs`, `service.rs` run_ai_download) | partial file, final file, guard, published progress | start, resume by range, verify, rename | two downloads of one model, answer 416, wrong partial file | the final file exists only complete and verified |
| **Bridge caches** (`engine_status_cache.rs`, `snapshot_cache.rs`) | map of open connections; bounded map of snapshots | get_or_open, invalidate, insert, evict | the open happens without the lock; invalidation in between | what is returned belongs to the project as it is; bounds hold |
| **Resource governor** | memory and thermal level, admitted work | admit_render, admit_ai, commit_*_start, commit_*_end, set_*_state | hysteresis; admit and commit are two calls | admitted work fits the budget; work is not refused for ever |
| **Tile scheduler** | tiles to do, done, cancelled | start, take, finish, cancel, merge | cancellation during a tile | every tile is merged once or the render is cancelled |
| **Package, migrations, recents** (`package.rs`, `db.rs`, `migrations/`, `recents.rs`) | manifest, database with WAL and version, backup, recents list | create, open, save, status, migrate | crash between files, between migrations | a package opens after any crash, a migration runs once |
| **Revisions** | a snapshot and a JSON per revision | create_with_snapshot, delete, verify | crash between the two files | a listed revision can be restored |
| **KChat publishing** (`electron/kchat`, `extensions/aec-studio-kchat`) | in the main process a queue of at most 32 cards and the comments of a thread; in the panel what it last saw | publish, acknowledge, mirror, refresh, evict, shut down | post and acknowledge are two calls; lost and late answers; overlapping refreshes; a watermark | no card goes missing silently; no comment twice, the newest are kept |
| **Asset ingest** | worker pool | submit, run, finish | independent jobs | - |
| **Extensions, integrity at boot** | - | parse, verify | sequential | - |
| **CAD, BIM, geometry, materials, export, path tracer, viewport, pages** | - | numerical functions, formats, layout | outside a model checker's reach | - |

Modelled, in the parts listed below, are the engine, the review, the audit log
with the bridge's lock, the render queue with its rows, the renderer's project
lifecycle, the two sidecars, the downloads, the package with its migrations,
recents and status cache, and KChat. Section 5 says what is not modelled, and why.

## 2. Modules and the code they model

```
ProjectGraph --- CommandEngine --+-- EngineHistory --+-- MCEngineHistory (TLC: Session)
 graph, deltas    the engine     |        | INSTANCE +-- CommandEngineProofs (TLAPS)
                                 |   EditTimeline                       (abstract)
                                 +-- MCCommandEngine                    (TLC: Hosted)

AuditChain --- AiDiffReview ----- MCAiDiffReview --- AiDiffReviewProofs (TLC: Review, ForkedLog; TLAPS)
 log file       accept/reject    |   disturbed or not
                                 +-- INSTANCE DiffLifecycle             (abstract)

RenderQueue --- RenderRecovery --+-- MCRenderRecovery                   (TLC: RenderRestart)
 queue, workers   SQLite rows    |       INSTANCE JobPool               (abstract)
                                 +-- RenderRecoveryProofs               (TLAPS)

ModelDownload ----- ModelDownloadProofs                                 (TLC; TLAPS)
AiSidecars -------- AiSidecarsProofs                                    (TLC; TLAPS)
KChatLoopback ----- KChatProofs                                         (TLC; TLAPS)
ProjectSession ---- ProjectSessionProofs                                (TLC; TLAPS)
ProjectStore ------ ProjectStoreProofs                                  (TLC; TLAPS)
```

The last five modules stand side by side: each composes the processes that
share its state (renderer, main process and bridge in `ProjectSession`; calls,
cache and files in `ProjectStore`; main process, panel and host in
`KChatLoopback`), and what one relies on of another is a promise that the other's
module checks. `ProjectSession` takes `open`, `save` and `undo` as calls that
succeed or fail as a whole: `ProjectStore` and `CommandEngine` take them apart.

### ProjectGraph

The graph of `project_graph.rs` as a function from entity ids to a record or
`Absent`, and its deltas. There are two sets of rules for one delta:
`Applies`/`Apply` for the `HashMap` in memory, which looks only at the presence
of an id, and `Persists`/`Persist` for the table, which also enforces the
foreign key of `parent_id` and cascades a `DELETE` to the children (`db.rs:251`,
with `PRAGMA foreign_keys = ON`). `Cascade` is the least set closed under
"child of a member", so that it is right for chains and cycles as well. A body
is an abstract value: the engine never looks into it.

### CommandEngine

One variable per field of the engine and per table it writes:

| Variable | Code |
|---|---|
| `entities`, `rows` | the `entities` and `undo_journal` tables. The position in `rows` is `seq`, which is AUTOINCREMENT: a deleted row leaves a mark behind (`NoRow`) |
| `graph`, `scope`, `undo`, `redo` | `CommandEngine.graph`, `active_scope`, and the two stacks of `UndoRedoJournal`, the top last |
| `pc`, `call` | where the call in flight is, and its locals: commands still to compute, deltas still to walk, the shadow copy, the transaction's view |
| `issued`, `reopens` | counters, bounded by `MaxCommands` and `MaxReopens` |
| `reordered` | history: an `open` has loaded two redo rows or more (section 6) |

A step is one iteration of one of the code's loops, so that an error can end any
of them and a crash can fall between any two:

| Action | Code |
|---|---|
| `Open`, `LoadRow`, `Opened` | `CommandEngine::open`: `ProjectGraph::load` and the row loop of `UndoRedoJournal::load` |
| `ExecutePersistent`, `ExecutePersistentBatch`, `UndoPersistent`, `RedoPersistent` | entry of the four calls with their scope checks; what they refuse changes nothing |
| `ComputeDeltas`, `WalkDelta` | `compute_deltas_against_graph`, and `validate_all` or the staging clone of a batch |
| `BeginTransaction`, `PersistDelta`, `PersistJournal`, `SqlError`, `Commit` | the SQL transaction, statement by statement, any of which may fail |
| `MirrorDelta`, `Finish` | the loop after the commit with its `.expect("validated above; apply cannot fail")`, a panic when it does not apply, then the in-memory stacks |
| `SetActiveScope`, `Drop` | the scope setter; the engine is dropped or the process dies at any point |

A *tool* stands for the family of commands that give deltas of one shape (eight
tools for the commands of `commands/`); which scope an envelope carries and
which one `CommandKind::scope` computes are kept apart, as in the code, because
`execute_persistent` checks the second and a batch the first. In a batch each
command is computed over the graph that the ones before it leave.

Abstracted: timestamps and actors of journal rows, JSON contents, the engine's
own audit head (which starts again with every open and is written nowhere). A
crash is a process that dies: SQLite's own atomicity under power loss is assumed.
A row that would not parse cannot be written by this engine and is not modelled.

### EngineHistory and EditTimeline

`EngineHistory` replays the journal over graphs and tables (`Replay`, `Rewrite`)
and states what the journal must tell. `EditTimeline` is what undo and redo
promise a user: a line of states along which an edit drops what lies ahead, and
undo and redo go back and forth to *exactly* the states that were there. The
refinement mapping takes the table as the present state; past and future are
two history variables (`HistorySpec`) that move at the commit of a call and at
no other step. The refinement is over whole lives of a project: sessions,
crashes between any two steps, and reopening.

### AuditChain

A log file as the sequence of what was written to it: entries, newlines
(`writeln!` on a `File` writes them separately) and the beginnings of lines
(`Torn`). `Opens` is what `AuditLog::open` accepts. Hashes are numbers, distinct for
distinct entries, which is what collision resistance gives; a digest is never
recomputed.

### AiDiffReview and DiffLifecycle

| Variable | Code |
|---|---|
| `pending` | `AiState.pending_diffs` |
| `applied` | how often the batch of a proposal was committed to the project (a batch counts as one even when every one of its operations was skipped) |
| `log`, `records` | `audit/ai_audit.jsonl`, `audit/ai_audit_records.jsonl` |
| `call` | per thread of the blocking pool: the step it is at, the proposal, the verdict and the head its logger has read |
| `answer` | history: what a call that returned `Ok` has told the user |
| `planned`, `calls`, `crashes` | ids that exist; bounded counters |

`StartAccept` needs the write lock, `Plan` and `StartReject` the read lock; a call holds
its lock until it returns. The order of the steps is the code's: an accept
commits, finalizes and then audits; a reject audits and then finalizes.
`OpenLog`, `WriteLine`, `WriteNewline` and `WriteRecord` are the accesses of
`ai_audit_append_at_root`, and each may fail as `Fault` says. `Crash` forgets the
registry and every call. One project's files are modelled: proposals of
different projects have different logs. Lines of the companion file are whole or
absent, since nothing reads that file back but the verifier.

`DiffLifecycle` is the promise: unknown, pending, then accepted, rejected or
lost with the process, never taken back.

`MCAiDiffReview` adds one history variable, `disturbed`: two appends were under
way at the same time, or one was cut off. As long as it is false, the log opens
and the companion file tells the same events (`UndisturbedLogIsWhole`).

### RenderQueue and JobPool

| Variable | Code |
|---|---|
| `queued`, `running`, `completed` | the three partitions of `RenderQueue`: the queue a sequence of ids, the others, which are only searched and listed, sets; `completed` holds the failed and the cancelled, too |
| `job` | of the `RenderJob` an id stands for: `status`, and how many `completed_frames` the queue's own copy has |
| `created` | the order of `created_at`, which the store sorts by (nanoseconds: taken as distinct); it never forgets an id, as a uuid does not come twice |
| `worker` | the clones that `admit` has handed out: the job, and its next frame |
| `rendered` | the frames on disk |
| `resumed` | history: the jobs that were resumed; its length is bounded |

The queue is behind the mutex of the bridge's render state, so that a method is
an action: `Submit` (one job, or the batch that `render_enqueue_batch` submits
under one lock), `Admit`, `Complete`, `Fail`, `FailQueued`, `Cancel`, `Resume`. Priorities
are integers; `Place` is the insertion in front of the first lower one, and a batch is placed
job by job (`PlaceAll`).

*The worker is external*: this repository has no render driver outside its tests, but the docs
of the queue, the job, the store and the walkthrough say what it does, and the tests
do it: it takes a clone with `admit`, renders one frame after the other from
`next_walkthrough_frame` on (`RenderFrame` is one turn of the loop in
`WalkthroughPipeline::render`, which looks between frames whether it was
cancelled), and completes or fails the job. When the job is not running any
more it gets `UnknownJob` and lets go (`GiveUp`). Progress in percent, presets,
cameras and outputs are left out.

`JobPool` is the promise without a queue and a store: waiting jobs, of which the most urgent
starts, among equals the one that arrived first; each ends once and only a
failed one is tried again, at any time from then on: what `resume` does to the order is told in
section 6, and the abstract specification says that it stays without effect on the order of the other jobs. Every step becomes durable before the next; an interruption
takes back what was not, and makes who was running wait. `RenderRecovery` implements it:
while the process is up a job is what the queue holds and durable is its row; while it
is down both are what the recovery will make of the row.

### RenderRecovery

Adds the rows of the SQLite store. A mutation of the queue is followed by the upserts
its jobs need ("after every mutation"), each a step of its own; the next mutation waits for them.
`RecordFrame` is a rendered frame whose marked clone the worker upserts at once. `Crash`
may come between any two steps, and once more during the recovery, whose two calls are
separate transactions (`ReincarnateRunningAsQueued`, `LoadQueue`). `LoadQueue` sorts (`InRowOrder`): what
`ORDER BY` returns is described by its order, not by a sorting algorithm. What was committed
is durable, as the store's documentation claims for a killed process; not modelled is the loss of power.


### ProjectSession

The active project seen from three sides: the renderer's hook
(`useActiveProject.tsx`, with the undo and redo of `App.tsx`), the main process
(`ipc.ts`, `active-project.ts`) and the bridge's calls.

| Variable | Code |
|---|---|
| `project`, `dirty`, `timer` | `projectPathRef`, `dirtyRef`, whether `autoSaveTimerRef` is set |
| `slot` | `savingPromiseRef`: the save that later ones join |
| `active` | `activeProjectPath` of the main process |
| `call` | the calls the renderer awaits; `auto` marks a save whose failure a timer's callback will hear of |
| `finished`, `channel` | what the bridge has done and main has not answered yet; what main has sent, in order |
| `unsaved`, `chosen`, `overtaken`, `gaps` | history: projects undone or redone since they were written; the last project main opened or closed for the user; an answer that overtook an earlier one; how auto-save lost a change |

A JavaScript callback is an action: what runs up to the next `await`, on whatever
state there is then. The bridge finishes calls in any order (`BridgeEnds`), main
answers them in any order (`MainAnswers`), and the pipe to the renderer keeps
order (`Deliver`). `gaps` names the two ways in which a marked change is left without anybody
who will save it: `"manual"`, a failed save that no timer waits for, and
`"midway"`, a save started while a transition was under way. The delay
of the timer is left out: an armed timer fires at some point. `undo` stands for
every call after which `App.tsx` marks the project as changed.

### ProjectStore

One package on disk, and the calls that touch it under both sides of the
service's lock.

| Variable | Code |
|---|---|
| `dir`, `manifest`, `db`, `backup`, `recents` | the package's directory; `manifest.json` (none, torn, whole); the database's recorded version, its tables, and what is only in the WAL; `project.sqlite.bak.v*`; the list of recents |
| `up`, `call`, `cache` | the process; per thread the step of its call, and whether it has a connection; the status cache's connection |
| `raced`, `cut`, `ioError` | history: calls overlapped on a project not yet migrated; the writing of a manifest ended half-way; the file system refused something |

`create`, `open`, `save`, `status` and `list` are sequences of steps on files:
`Directories`, `Database`, `Template`, `RollBack`; `Package`, `Attach`, `Detach`, `BeginCopy`,
`EndCopy`, `AttachAgain`, `Migrate`, `Migrated`, `Upgrade`, `Close`, `Truncate`, `Write`;
`Hit`, `Miss`, `Insert`, `Invalidate`; `BeginRecord`, `EndRecord`. `Crash` falls
between any two, `IoError` ends the step it hits with what it leaves on disk. `create` keeps the connection
on which it migrated until its manifest is written (`package.rs:88-95`).
SQLite is modelled by what the code relies on: a transaction is atomic, commits live in the
WAL until the last connection closes, and a copy of the main file alone misses
them. That is why the code drops its connection before `backup_before_migration`.
A file has an identity (the call that made it), so that a connection to a
deleted one can be told from one to its successor.

### AiSidecars

The two model servers with their handle slot, runtime lock and configuration.

| Variable | Code |
|---|---|
| `chosen` | what `model_manager`, `image_gen_model_manager` and `image_gen_policy` hold |
| `runtime` | the `SidecarRuntime`: lifecycle state and configuration |
| `slot`, `child` | the thread that holds `handle_slot`; the process in it |
| `stray` | a server of an earlier run of the program that still has the port |
| `call` | per thread: where its call stands, what it asked with, who answers |
| `overlapped` | history: sides on which two changes of the settings were under way at once |

A lock is held across steps where the code holds it across a wait: the slot from
`EnterSlot` to `MarkReady`, the runtime by a poll (`Poll` to `EndPoll`) and by a
reload (`LockRuntime` to `Replace`). `SetTier` replaces a configuration;
`SetDescriptor` and `ApplyPolicy` read one (`Merge`) and write it later. `Quit` restarts the
program: `SERVICE` is a static, whose drop never runs, so that a child may be left on
its fixed port; the health check of the next run asks the port, not its child.

### ModelDownload

| Variable | Code |
|---|---|
| `final`, `partial` | the model file and `<name>.partial`, as sequences of good and damaged chunks |
| `guard` | the `download_guard` of the side the file belongs to |
| `call` | per thread: the step, the file, the position in the body |
| `progress` | the last published snapshot, which the settings page polls |

`CheckFinal` to `Complete` are the steps of `download_model` and
`download_to_file`: fast paths, resumption by range (206), a server that
ignores the range (200), 416, a body that is cut or damaged, verification,
rename. An error before anything is published ends the call and leaves the last snapshot
as it was (`FastPathFails`). A hash is compared, not computed: contents are verified when they are the whole
model. Descriptors without a digest (`File \ Pinned`) are taken at their word.
`Foreign` is a file that a user has put in the model's place.

### KChatLoopback

Three parties: the main process with its queue and comments, the panel with
three callbacks (publish, mirror, refresh), and KChat's thread.

| Variable | Code |
|---|---|
| `up`, `accepted`, `queue`, `review` | `state !== null`; how many cards were accepted; `publishQueue`; the `ReviewThreadState` |
| `thread` | the messages at KChat (external): for each the card it carries, or a person |
| `shown` | the panel's `LoadState` |
| `job` | where each callback stands, with the answers it has got |
| `late` | requests whose client gave up after 5 s, and that may be handled all the same |
| `dropped`, `unsure`, `overtaken`, `gaps` | history: cards evicted or lost with the process; cards whose publishing failed after the post; an older refresh that landed after a newer one; messages a watermark jumped over |

One review thread is modelled; a message is its position, which is also its time.
The answers to `queued-publishes` and `reviews` are taken as one, as nothing compares
them. A request that was handled and whose answer is lost is
`TimedOut` followed by `ServeLate`. The switch that turns KChat off is the possibility that a
publish is refused, which changes nothing. The Refresh button has one callback at a time, and no more
than `MaxCallbacks` of the panel's run at once; the proofs hold for any number.

`kchat.send_message` and `kchat.query_messages` are external. A call is refused and does nothing (`HostRefuses`), or
the post is made and its answer lost (`HostFailsAfterPosting`): the panel's one `catch` does not tell
them apart. A query asks for at most 50 messages, and the host may cap further (`host.ts:141`): an
answer has `QueryLimit` of the messages found, and nothing says which, so the host chooses
(`Limited`). `gaps` gets a message for one of three causes: an acknowledgement moves the watermark from before it
to after it (`PublishToThread`); an answer leaves it out and has a newer one (`LeftOut`); a process starts
while the panel holds a watermark at or after it (`MarksHeld`). The last two are recorded when the cause
arises: the messages are lost only if that answer, or one to a query from that watermark, arrives.

## 3. What the runs check

Nine runs pass, and three show a documented claim to be false (section 6). States are
distinct states; each run takes less than two and a half minutes with two workers.

| Run | Question | Bounds | States |
|---|---|---|---|
| `Session` | commands, batches, undo, redo, refusals, SQL errors, crashes between any two steps, reopening: memory and table in lock-step (`LockStep`), the rows explain the disk (`JournalExplainsDisk`), both stacks drain (`StacksDrain`), journal in memory and on disk agree (`JournalMatchesDisk`), **implements `EditTimeline`** | 2 entities, 4 commands, capacity 2, 2 reopens | 1,990,746 |
| `Hosted` | a wall and a door on it, so that a `DELETE` cascades: `EngineInvariant`, `MirrorNeverPanics`, `CallsReturn` | 2 entities, 4 commands, 2 reopens | 205,459 |
| `Review` | two threads, two proposals, every interleaving the lock allows, every write failing, a crash: `ReviewInvariant`, `AppliedAtMostOnce`, `AnswersAreTrue`, `UndisturbedLogIsWhole`, **implements `DiffLifecycle`** | 4 accepts or rejects, 1 crash | 288,329 |
| `RenderRestart` | cancels racing completions, crashes between any two steps: `RecoveryOK`, `QueueComesBack`, `NoFrameTwice`, `EveryJobEnds`, **implements `JobPool`** | an urgent job and a batch of 2, 2 workers, 1 frame, 1 resume, 1 crash and 1 in the recovery | 428,111 |
| `ProjectSession` | opens, closes, saves, undos and timers with answers in any order: `SessionInvariant`, `OnTheChosenProject`, `DirtyIsProtected`, `CleanIsCovered`, `ChangesAreSaved` | 2 projects, 2 calls in flight, 5 requests | 270,038 |
| `ProjectStore` | five calls on one package, two migrations, crashes and I/O errors: `PackageInvariant`, `BackupIsPreImage`, `CacheIsCurrent`, `ManifestIsReadWhole`, `OpenMigrates` | 2 threads, 4 calls, 2 faults, versions 1 to 3 | 272,890 |
| `AiSidecars` | plans, cancels, polls and changes of settings, crashing children, failing spawns, a restart: `SidecarInvariant`, `SettingsInEffect`, `OldModelIsSilent`, `CallsReturn` | 2 threads, 3 calls, 1 crash, 1 restart, 2 attempts | 124,120 |
| `ModelDownload` | two threads, a pinned and an unpinned file, every answer of the server: `DownloadInvariant`, `InstalledIsVerified`, `NeverUninstalled`, `RetriesInstall` | 3 chunks, 3 faults | 452,284 |
| `KChat` | publishing, mirroring, refreshing, with posts that fail halfway, answers cut at a limit, time-outs, late requests, reloads and restarts: `LoopbackInvariant`, `CommentsAreTheNewest`, `RepostHasACause`, `MirrorIsWhole` | 3 cards, a queue of 2, 1 comment kept, 1 message per query, 2 messages, 2 callbacks at once, 1 fault | 1,561,169 |
| `ForkedLog`, `LeakedSidecar`, `PostedTwice` | one documented claim each that the code does not keep: section 6 | smallest that shows it | |

**Why the bounds are enough.** An engine property is about one entity and its
host, or about the order of entries on a stack: two entities are a parent and
its child, or two independent ones. Four commands with undos and redos between them reach
a stack of two below a top, an edit after an undo, and a trimmed entry. Two
reopens let a crash fall in a call on a project that was itself recovered. In the review, two
threads are what a race takes, the third and fourth call are retries after a race, and a
crash between any two steps loses the registry. In the queue, order is a
question of two jobs: three with two priorities have equals and one that goes before
them. One frame is enough for a worker to be before, or behind, what is recorded. The second crash
hits a recovery. In `ProjectSession` two projects are an old and a new one, and five
requests let a save, a transition and an undo overlap with two calls in flight,
twice. `ProjectStore` has two migrations, so that a crash falls between
them, and a second fault hits the retry. `AiSidecars`: two changes and a plan, or a change and two plans, are
the overlaps there are on one side. In `ModelDownload` three chunks give a partial that is empty,
short, complete or too long, and three faults damage it, cut it and crash. In `KChat`, a queue of two has an
order and evicts with the third card, one kept comment is overrun by the second message, one message per answer
leaves out the other of two, two callbacks are what a race takes, and one fault of any kind can hit any step. For every component, the proofs of
section 4 cover all other values.

**Exceptions are history variables.** Several properties hold up to a
circumstance that the code does not exclude. The model records that circumstance and the property
names it, so that TLC shows both: the circumstance is the only
way out, and what happens without it is right. These are `reordered` (an `open` loads two redo rows, which
come back in the wrong order; `JournalExplainsDisk`, `StacksDrain`, `JournalMatchesDisk` and
the refinement are claimed until then), `disturbed`, `overtaken`, `gaps`, `raced`, `cut`, `ioError`,
`overlapped`, `unsure` and `dropped`. Section 6 tells which code makes each of them happen. A resumed
job breaks the order of the queue and repeats its frames: `QueueComesBack`, `NoFrameTwice`
and the order of `ImplementsPool` are claimed of the jobs that were never resumed.

**Deadlock** is checked where the system always has something to do: `Session`, `Hosted`,
`ModelDownload`, `KChat`, `PostedTwice`. The others switch it off,
because bounded requests, calls and crashes are used up, and a user who asks for nothing
more, or a queue whose jobs have all ended, is a legitimate end. That no *call* is stuck is what
`CallsReturn`, `OpenMigrates` and `EveryJobEnds` say.

**Fairness.** Stated are only these:

- `Hosted`, `AiSidecars`, `ProjectStore`: weak fairness of the steps of a call in
  flight. It is a blocking thread that the operating system schedules; spawns and requests have
  timeouts. Nothing says that calls are made, or that errors and crashes do not happen.
- `RenderRestart`: an upsert that is due, the two steps of the recovery (a process that died is
  started again, and its start runs them), and `Work` of each worker: it takes a job
  when there is one, renders the next frame, completes, or lets go. That is what
  "the worker pool will pick them up again" supposes of the driver.
- `ProjectSession`: an armed timer fires, event loops deliver, the bridge ends its
  calls, and a save that is tried again and again succeeds at last (strong fairness of
  `SaveSucceeds`: otherwise nothing could ever be saved).
- `ModelDownload`: a call goes on (weak fairness of `WellServed`, which has no fault in it;
  faults are bounded), and the user tries a download again whenever a thread is free (strong
  fairness of `Start`, since two files compete for threads).
- the other runs have none.

## 4. What is proved

Eight modules hold the proofs, one for each component: `CommandEngineProofs`, `RenderRecoveryProofs`,
`ProjectSessionProofs`, `ProjectStoreProofs`, `KChatProofs`, `AiSidecarsProofs`, `AiDiffReviewProofs` and
`ModelDownloadProofs`. They show the theorems below for every value of the
constants: every safety property that a run checks, and the three refinements. Assumed are
the named assumptions of the modules and no more:
`GraphAssumption`, `EngineAssumption`, `ReviewAssumption`, `QueueAssumption`, `SessionAssumption`,
`StoreAssumption`, `SidecarAssumption`, `DownloadAssumption` and `KChatAssumption` (sentinels are not
values, there is an entity and hosts are entities, capacities, priorities and lengths are numbers, faults are
among those listed). TLC evaluates
them in the runs. No proof uses a value of a `Max...` bound: they hold for any number of
calls, faults, crashes and restarts.

| Theorem | Statement |
|---|---|
| `Invariance` (engine) | `Spec => []EngineInvariant` |
| `TypeCorrect` | `Spec => []TypeOK` |
| `NoPanic` | the `.expect` of the mirror loops never fires |
| `MemoryCovers` | between calls the graph in memory has every row of the table with its contents |
| `LockStepWithoutHosts` | `Host = {} => (Spec => []LockStep)`: the cascade is the only way out of lock-step |
| `JournalExplains`, `StacksAlwaysDrain`, `JournalMatches` | `Host = {} => (HistorySpec => []P)` for `JournalExplainsDisk`, `StacksDrain`, `JournalMatchesDisk`: the rows lead to the table, every undo and redo applies, the stacks in memory are the rows on disk |
| `EngineIsTimeline` | `Host = {} => (HistorySpec => ImplementsTimeline)`: the engine refines `EditTimeline` |
| `ReviewIsInvariant` | `Spec => []ReviewInvariant` |
| `NeverAppliedTwice`, `AnswersHold`, `RejectionsAreRecorded` | the three safety properties of the review |
| `ReviewImplementsLifecycle` | the review refines `DiffLifecycle` |
| `UndisturbedLogs` | `MCSpec => []UndisturbedLogIsWhole`: overlapping and cut-off appends are all that can damage the audit files |
| `RecoveryKeepsPartitions` | `Spec => []RecoveryOK`: queue, running and completed set partition the jobs, also after any recovery |
| `FramesAreRenderedOnce` | `Spec => []NoFrameTwice` |
| `QueueIsInRowOrder` | `Spec => []QueueComesBack`: the order in memory is the order a restart would load |
| `QueueImplementsPool` | the queue with its store refines `JobPool` |
| `SaveInFlightIsOurs` | `Spec => []SessionInvariant` |
| `RendererFollowsMain` | `Spec => []OnTheChosenProject` |
| `AutoSaveHolds`, `CleanMeansSaved` | `Spec => []DirtyIsProtected`, `Spec => []CleanIsCovered` |
| `PackageIsConsistent` | `Spec => []PackageInvariant` |
| `BackupBeforeMigration` | `Spec => []BackupIsPreImage` |
| `CachedConnectionIsCurrent`, `ManifestsAreReadWhole` | `Spec => []CacheIsCurrent`, `Spec => []ManifestIsReadWhole` |
| `Invariance` (sidecars) | `Spec => []SidecarInvariant` |
| `ChangesTakeEffect` | `Spec => []SettingsInEffect` |
| `OnlyStraysAnswerLate` | `Spec => []OldModelIsSilent` |
| `Invariance` (downloads) | `Spec => []DownloadInvariant` |
| `OnlyVerifiedIsInstalled` | `Spec => []InstalledIsVerified` |
| `InstalledStays` | `Spec => NeverUninstalled`, an action property |
| `Invariance` (KChat) | `Spec => []LoopbackInvariant`; among it that a card accepted is queued, posted or counted as evicted (`CardsAreAccounted`) |
| `OnlyFaultsRepost` | `Spec => []RepostHasACause` |
| `MirrorsEverything` | `Spec => []MirrorIsWhole` |
| `NewestAreKept` | `Spec => []CommentsAreTheNewest` |

**The engine's argument.** That the mirror loop cannot panic is not inductive:
the loop runs after the commit, and what it relies on was checked before. The
table may even have lost more rows than the deltas say. `EngineInvariant`
therefore keeps the shadow copy's whole `trail`: between two of its graphs lies one
walked delta that applied (`TrailIsWalk`); the loop's graph is always one of
them (`MirrorRetraces`), hence the next delta applies. For the table,
`TransactionCovered` and `TableCovered` say that at statement *k* the transaction
holds nothing that graph *k* of the trail does not (the lemma `CoversStep`: one
delta in both layers keeps memory covering the table, whatever cascades).
`LockStepWithoutHosts` repeats this with equality, `TableMirrored`, where no record has a
parent: a cascade then removes just its root (`CascadeAlone`).

**The journal's argument.** `HistoryInvariant` adds two parts. `CallOnTrack`: the deltas of the call
in flight are the top entry's, or those of a command whose inverse leads from its graph back to the present one
(`CommandIsUndone`, also for an edit that names a primitive twice). `Told`: there is an enumeration `at` of the
live rows such that each row's deltas lead one step along the line of past, present and future, and its
inverse back (`Story`), rows have distinct command ids (`Issuing`, which rests on the assumption that commands come with ids of their own), and the two stacks are the rows on both
sides of the present, or, while a project is loaded, what the loop has collected so far (`Tracks`). `Leads` says that
a list of deltas applies one by one, over a graph and, where nothing cascades, over the table
(`ReplayFollows`, `RewriteFollows`); walking the stacks is then following the line (`UndoPath`,
`RedoPath`). Only three steps tell a new story: the commits of an undo, of a redo
and of a command (`CommitUndoTold`, `CommitRedoTold`, `CommitRecordTold`; the last also
trims). `Host = {}` is needed: with a wall and its door the cascade leaves no entry, and the properties fail as
section 6 says.

**The review's argument.** `AppliedAtMostOnce` is true because a proposal in the registry
has not been applied. This is false at one moment, between the commit and the
removal, and harmless then because the accept is alone. So the invariant has three
parts: an accept excludes every other call (`LockExcludes`), what a call has
done follows from where it is (`OnTrack`: an accept about to commit has
`applied = 0`, a reject about to finalize has both its records), and a pending
proposal is unapplied unless its accept is at that moment
(`PendingNotApplied`). `OnTrack` of *other* threads survives a step because log and
companion file only grow (`LogGrows`, `RecordsGrow`). It does not say that a
reject's proposal is still pending: two rejects of one proposal may both pass
the check, and `FinalizeReject` looks again.

The refinement maps a proposal to accepted from its commit on, and to rejected when it
leaves the registry for that reason. `StepImplements` takes the actions one by one: a
commit is `Accept`, which needs `applied = 0` and the proposal pending
(`OnTrack`); a finalized reject is `Reject`, whose precondition needs that nobody is about to
finalize an accept (`LockExcludes`); a crash is `Lose`; everything else is a
stutter.

**The audit files' argument.** While nothing has disturbed them, the files are after *q* events (`InStep`):
entries and newlines take turns, each entry names the one before, the companion file is behind by
at most one record, and a thread that appends is alone and holds the head it has read. The head of such a
file is its last entry's hash (`HeadsAre`), so that the line written next continues the chain. `ChainOpens`
replays every prefix, `EntriesAre` finds the entries that the loop of `open` collects. A thread that gives up
while it appends is what `disturbed` records (`GivesUpLoudly`).

**The render queue's argument.** A job is placed in front of the first that is less urgent, and a recovery
sorts the rows: both give a queue in which nobody waits behind a less urgent job, or behind an equal one that came
later, resumed jobs excepted (`InOrder`). `Stored` says how far the rows are behind the jobs: by the mutation that
`unsaved` names, at most. `Frames` says that wherever a job can be taken up from (its row,
the queue, its worker), the frames agree with what was rendered; `Held`, that a worker is at a running job or at
one that was cancelled under it. A batch and a sort go through a list: the lemmas about them take
the least position at which they would fail. The refinement of `JobPool` maps the states of the jobs, while the program
is down to what a recovery will make of the rows: the crash itself is then the step at which
what was not recorded falls back, and the two steps of the recovery are stutters.

**The session's argument** follows the messages that are on their way. The last transition in the channel
settles on the project that is active, and where there is none, the renderer is there already (`Agreement`); the slot of the pending
save is one of this project (`SlotOnTrack`); a dirty project has a timer, a save or a transition under way
(`Protection`). For `CleanIsCovered`, an answer that will show a project as clean is followed by that of
every undo the bridge did later, as long as no answer overtook another
(`Coverage`); what is in the channel was finished before what is still to be sent.

**The store's argument.** A call under the write lock is alone. Of those that may overlap, each relies on what it has
found at the package, which holds as long as the project is up to date; while it is not, no second call starts unless it
races (`raced`: the status call opens its connection under the read lock). What holds even then is kept by the database: its
version only grows until the project is removed, so that what a call has seen is a lower bound (`OnTrack`). What needs
the call to be alone is `Undisturbed`: a backup that was made is of the version seen, a manifest about to be
written is behind. `AloneAtUpgrade` says why that is enough: while the project is out of date, one call is at work.
`StaleOnlyInCreate` is the one moment at which the cache has the connection of a project that is gone.

**The sidecars' argument.** A side's child and its lifecycle state are touched by nobody but the
holder of its slot (`SlotIsHeld`), who knows at each of its steps whether there is a child
(`HolderKnows`); with the slot free, Ready means a child and nothing else does
(`SideOnTrack`). `StatusIsTrue` is not inductive but follows (`CoreIsEnough`). For the
settings, a child always runs the runtime's configuration, and while no two changes of a side
have overlapped the one under way carries what the settings say (`ChangeIsAlone`). So a call that still
remembers what it was made with (`AskedIsInForce`) is answered by a child that runs
it. Most steps touch one side and one thread: `Frame` says so, and
`FrameKeepsCore` leaves just that side and that call to be shown.

**The downloads' argument.** A call works on the files of a model only while it holds the
model's guard, and two calls never hold one guard. What another call does is therefore
about other files (`OthersUndisturbed`): the partial that a call has verified is the
partial it renames, and a file that is there when the guard is taken is there
until the call itself removes it, which it does only if the file is not the model.

**KChat's argument.** The panel acknowledges only cards that it posted (`HandleKeeps`), and a posted card
whose answer and acknowledgement came through has left the queue: it cannot be shown again unless a refresh that
was sent before the acknowledgement lands after a newer one. That is `RepostHasACause`.
A watermark moves to the newest message it has seen, over messages that were ingested
(`IngestMovesOn`) or that the step puts into `gaps`, so that `MirrorIsWhole` is a statement about the messages at or below it; which message is
newest needs a maximum of a set of numbers (`LatestExists`). It is not inductive: `MarksAreCovered` says the
same of every watermark the panel holds and of every batch on its way. That a process which has stopped is followed by one that has no
comments, and nothing on its way (`Stopped`), is why the watermarks held then are all that can go wrong. The theorem
is for any `QueryLimit`. A comment that the cap drops has a cap's worth of
newer ones in front of it, and so has every comment dropped before: `NewestAreKept` counts them
(`ListCounts`, `TrimKeepsNewest`).

## 5. What only TLC checks, what nothing checks

Model-checked only: liveness, which is out of the prover's reach: `CallsReturn` (both), `EveryJobEnds`,
`ChangesAreSaved`, `OpenMigrates`, `RetriesInstall`.

Lists are gone through by recursive functions (`Successive`, `EntriesUpto`), never by RECURSIVE operators, which the
prover cannot take. What such a function computes is proved from its recursive equation: a second list that
satisfies the same equation is given, and the least position at which the two would differ is
refuted. The library's induction theorems, which take a predicate as a parameter, are not needed.

Three theorems (`TypeCorrect`, `MemoryCovers`, `RejectionsAreRecorded`) state parts of
invariants that the runs check as a whole.

**Not modelled**, each for its reason:

- *Resource governor*: its admission is called by the scheduler, which only tests construct; nothing
  in the application commits the start or the end of any work.
- *Tile scheduler*: its state does not outlive one call, and no second thread enters it.
- *Revisions*: of create, list, delete and verify an endpoint reaches create and list, one write under the
  lock; section 6 notes what a reading shows.
- *Asset ingest*: independent jobs, no shared state but the pool's queue.
- *Snapshot cache*: a bounded map of immutable snapshots behind one mutex, keyed by path, modification time and size.
- *Extensions, integrity at boot*: sequential parsing and verification, no state.
- *CAD, BIM, geometry, materials, export, path tracer, viewport, pages*: file formats, numerical functions
  and layout, by far the largest share of the code. They are loops over floating point data without a
  state that survives the call. A model of them would have their size and be of no use to a
  checker that enumerates states. The map therefore covers a small share of the repository's lines: those in
  which order, failure and concurrency matter.

In the modelled components: the in-memory `execute`, `undo` and `redo` of the engine (only tests call
them), what a plan contains and how operations become commands, `mirror_to_sql` and legacy entries of the
audit log, the JSON snapshot of the queue (no endpoint writes or reads it), the idle eviction
of the image runtime (nothing calls it), deadlines and restart delays of spawns, redirects
of downloads, `install_model` and `delete_model` (unreachable), and the endpoints of the bridge other than
those above. The bridge takes the `command_id` of a command from its caller and does not look for it in the
journal (`service.rs:2812`); every builder of commands draws a fresh one (`commands.ts:82-113`, `Command::user`,
`Command::ai`), and the model assumes that no two commands share one. Poisoning of the bridge's lock and power loss during a write are assumed away: a crash
is the end of the process, and what was written before it is on disk.

## 6. Findings

Three places where the documentation in the repository says one thing and the
code does another have a run whose counterexample shows it.

1. **`ForkedLog`** (`service.rs:5810`). Two rejects under the read lock both read the head of the
   audit chain before either appends: the file then never opens again. The comment
   expects "a duplicate audit entry ... but harmless" (`service.rs:5720-5721`); another
   says that both calls take the write side (`service.rs:4965-4967`).
2. **`LeakedSidecar`** (`napi_api.rs:44`). The bridge lives in a static, which Rust does not drop, and
   nothing empties it at the end: the model server outlives the program on its fixed port. The next
   session takes it for its own, and it answers with the model of the last session's setting. Against
   "On shutdown we kill the sidecar via `SidecarHandle::Drop`" (`ai_state.rs:551`) and "the only
   correctness-critical invariant" (`sidecar.rs:49-52`).
3. **`PostedTwice`** (`publish-panel.tsx:123`). A card whose acknowledgement times out stays in the queue, the
   panel shows it again, and the next click posts it a second time; the docs promise that a card is
   not posted twice (`KCHAT_LOOPBACK_API.md:195-198`, `KCHAT_EXTENSION.md:102-103`).

Others follow from a small change of a passing configuration or property; the exceptions
of section 3 have their reason here.

*Engine and journal.*

- `load` pushes redo rows in the order of `seq` (`journal.rs:126`), so that the newest command ends on top,
  where a session has the one undone last. The doc says that the stacks "remain coherent across
  save/reload" (`journal.rs:119-122`). Every bridge call opens a new engine: two undos and a redo in the
  application do this (`reordered`).
- Deleting a wall removes the doors on it, which are in no journal entry (`db.rs:251`): undo restores the wall
  without them, and the entry that placed a door can then not be undone, against "replaying `inverse` undoes
  the command" (`journal.rs:1-3`). In memory the doors stay, against "stay in lock-step".
- `load` never trims (`journal.rs:175`), against "bounded at 1024" (`journal.rs:29, 39`).

*Audit log.*

- `verify_chain` reads the companion file as a link of the chain and reports a break in whole
  files (`aec_audit/src/lib.rs:604`); a comment relies on it (`service.rs:5455-5456`).
- A line whose write fails half-way, or only its newline (`aec_audit/src/lib.rs:377`), makes the file unreadable
  for the retry; the comment expects a chain that verifies (`lib.rs:359-363, 386-388`). This is `disturbed`.
- Noted: `aec_ai/src/audit.rs` says that `append` fsyncs, which `aec_audit/src/lib.rs` deliberately does
  not; and accepted commands are said to reach `audit/log.jsonl` (`service.rs:5797-5798`), to which no
  production code appends.

*Render queue.*

- `resume` puts the job at the end whatever its priority (`queue.rs:305`), against "the highest-priority
  queued job" (`queue.rs:192`).
- The frames a worker has rendered never reach the queue's copy of the job, and `resume` keeps that
  copy (`queue.rs:289`): a resumed walkthrough starts where the failed attempt did, not "after the last successful
  frame" (`job.rs:48-50`).
- A job restored from the JSON snapshot as running has no worker (`service.rs:4635`, against 4617-4619); no
  endpoint restores one.

*Project session* (`useActiveProject.tsx`).

- A save that starts while an `open` is under way stays the pending one of the new project, which the comment at
  494-503 takes to be impossible (`midway`).
- A manual save that fails arms no timer, since only the timer's own path does (345-359; `manual`).
- When the answer of an undo is overtaken by that of a save, the project is clean without the undo on
  record (687; `overtaken`).
- `App.tsx:146,161` mark dirty whatever project is open when the answer arrives; and only undo and redo mark
  dirty at all, where the doc speaks of every mutation.

*Project store.*

- The status call opens its connection under the bridge's read lock, so that the backup before a migration may
  run beside another connection; its comment counts on being the only one (`db.rs:63-85`; `raced`).
- A `recents.json` that is cut short makes the bridge's constructor fail at every start; a manifest that is
  cut short never opens; a `create` that meets an I/O error leaves a directory that blocks the name.

*Sidecars and downloads.*

- Two changes of a side that overlap may lose one, or leave the settings page and the runtime with different
  models: `snapshot_config` and `reload_with_config` are two steps (`service.rs:6467-6475`, "must survive a descriptor
  swap"; `overlapped`).
- The text tiers share one download guard. An image descriptor without a digest is installed unverified, which the
  code says; that two programs do not download at once is due to the single-instance lock
  (`main.ts:20-31`).

*KChat.*

- Two refreshes that overlap can leave an old queue in the panel, so that a card is posted again (`overtaken`).
- The watermark passes by comments that were never mirrored when a published card is acknowledged
  (`kchatAppState.ts:332`), or after a restart of the main process with a panel that goes on (`gaps`).
- One click asks for at most 50 messages and never for a second page (`publish-panel.tsx:169-173`). If more are
  new and the host returns the most recent ones, the watermark passes the older ones for good; if it
  returns the oldest, the next click goes on. `host.ts:137-145` leaves open which (`gaps`).
- A post whose answer is lost looks like a refused one: the card stays, and is posted again (`unsure`).
- Queued cards stay visible after the switch is turned off; an acknowledgement of an evicted card records it as
  posted; `kchat:publish` reads the switch before an await.

*Revisions*, read only: `deliver_create_revision` journals its command before it looks whether the tag is taken,
so that a refused tag leaves a command; undo does not remove the JSON; a crash between the snapshot and the JSON leaves a
snapshot that nothing removes.

## 7. Plan

Done: the command engine and its journal, the review and its audit chain, the render queue with its recovery, the
project session, the project store, the sidecars, the downloads and KChat, all of them with runs and proofs.

| Step | Modules | What for |
|---|---|---|
| 1 | `Revisions` | create, undo and crash between the files, when an endpoint deletes or verifies them |
| 2 | `ResourceGovernor` | admitted work fits the budget, when the application calls it |

Conventions: one action per operation or step, parameters as CONSTANTS with
named assumptions, invariants as conjunctions of named parts, no RECURSIVE operator
where something is to be proved, an MC module only where the constants need definitions.

## 8. How to run

```
tlc -workers 2 -config Session.cfg MCEngineHistory
tlc -workers 2 -config Hosted.cfg MCCommandEngine
tlc -workers 2 -config Review.cfg MCAiDiffReview
tlc -workers 2 -config RenderRestart.cfg MCRenderRecovery
tlc -workers 2 -config ProjectSession.cfg ProjectSession
tlc -workers 2 -config ProjectStore.cfg ProjectStore
tlc -workers 2 -config AiSidecars.cfg AiSidecars
tlc -workers 2 -config ModelDownload.cfg ModelDownload
tlc -workers 2 -config KChat.cfg KChatLoopback

tlc -workers 2 -config ForkedLog.cfg AiDiffReview
tlc -workers 2 -config LeakedSidecar.cfg AiSidecars
tlc -workers 2 -config PostedTwice.cfg KChatLoopback

tlapm CommandEngineProofs.tla       # and each other ...Proofs.tla
```

The last three runs stop at their counterexample.
