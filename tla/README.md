# Skill-Kernel: a TLA+ verification project

Skill-Kernel is a sidecar that learns skills for an agent gateway. A plugin in
the gateway captures events and forwards them to a core service; the core keeps
everything in Postgres and turns observations into skill versions; workers take
jobs from a queue and carry the work out; one of them, the filesystem worker,
writes the directories from which the agent loads its skills.

This directory models the parts of it where order, failure and retries decide
whether the result is right. Paths below are relative to `src/`; `autoskill/`
stands for `sidecar/autoskill/`.

## 1. Inventory

### Modelled

| Component | State | Operations | What makes it hard | What makes it correct |
|---|---|---|---|---|
| Job queue and worker loop (`autoskill/db/jobs.py`, `services/worker.py`) | tables `jobs`, `job_attempts`; a slot's handler task | enqueue, claim, renew, complete, recovery of expired leases (inside claim) | leases expire under running handlers; late completions; crashes; exceptions in the renewal loop | a completion settles the attempt that made it; the attempt history is true of what it can know; the budget is exact; a settled job is final; every job settles |
| Scheduler (`db/scheduler.py`, `services/scheduler_defaults.py`, `services/external_inventory.py`, `services/historical_discovery.py`) | table `schedules`, the advisory lock | tick, upsert, registration at worker start | a tick is one transaction of many READ COMMITTED statements; registrations and edits race it; ticks overlap and roll back | no slot twice; one scheduled job per kind, and none beside one enqueued by hand; no edit lost; every due schedule served |
| Event spool (`plugin/autoskill/src/spool/index.js`, `src/index.js`) | one `.jsonl` file and one `.corrupt` file per day, the sidecar's store | capture (forward, append), expiry, eviction, replay | captures, compactions and one replay interleave at every `await`; files are read, and rewritten later; crashes and failing file calls | what replay drops is stored or tombstoned; what was spooled is accounted for; what is reported spooled is in the spool; the spool drains |
| Skill writer and rollback (`services/writer.py`, `services/worker.py`, `db/governance.py`) | active directory, archives, transaction status and rollback actions, revocation requests | `writer.apply`, `revocations.rollback` | a crash between any two renames; retries that find their own leftovers; recoveries that fail; a handler that a raising lease renewal leaves behind | rollback pointers are valid; an applied version is never lost; errors leave no gap; a completed rollback took effect |
| Lifecycle, curation and topology of a skill (`autoskill/db/lifecycle.py`, `db/utility.py`, `db/topology.py`) | `skills.lifecycle_state`, the presence of the active directory and of a snapshot, topology operations and jobs | freeze, unfreeze, canary results, `curation.run`, `topology.apply_downstream`, the writer's swap | a curation moves files inside a transaction that may roll back; the writer takes no lock; control calls overlap, and so do curation handlers; jobs are retried | files follow the state; a plan takes effect once; only an operator lifts a freeze |
| Hint cache of the broker (`services/broker.py`, `db/retrieval.py`, `api/app.py`) | the cache, requests in progress | retrieve, store, expire, evict | an answer is cached after awaits that an eviction falls between | an eviction misses only answers already on their way |
| Repairs (`services/worker.py`, `db/contracts.py`, `db/diagnostics.py`, `db/utility.py`) | planned actions, drift events and their contract, diagnostic momentum; transactions and jobs of each | drift checks, signals, false positives, `repair.execute`, the writer that takes over | claim and completion are transactions apart; two workers; sources that are armed again after their job has ended | handed on once; recorded as queued by the execution that made the job; not stranded without a failure |
| Import and revocation (`services/historical_import.py`, `db/historical.py`, `db/evidence.py`, `db/embeddings.py`, `services/embedding_generation.py`, `db/governance.py`) | source and chunk rows, provenance edges, evidence, embeddings, run records, revocation requests and jobs | discovery, import, derivation, embedding, revocation, its traversal and its job | every statement commits by itself; a source may be revoked in the middle of each; the traversal has a limit | no line twice; completed runs are complete; a revocation reaches what it can see |

### Not modelled

| Component | Why |
|---|---|
| Autonomy orchestrator (`services/autonomy_orchestrator.py`) | one sequential pass over counts, enqueueing jobs under idempotency keys; the keys are modelled where the jobs are |
| Topology planning and graph admission | scores over graphs of skills; operations begin here as accepted |
| Activation gate and windows (`db/activation.py`) | pure decisions over other components' rows; the models take the outcome as a choice |
| Bootstrap of the historical import, parsers | one job that enqueues others; text |
| Evaluator, attribution, usage, profiles; the scores of the curation | sequential arithmetic over recorded metrics |
| Compiler, SkillIR, scanner; matching, ranking, context | text and vector computations without a protocol |
| Memory, raw evidence, event ingest, candidates, external skills | row stores of single statements |
| LLM client; plugin client, redaction, raw vault, hooks | external services, encryption, text |
| API endpoints | validation over the stores; those that change what is modelled are actions (`EnqueueJob`, `EditSchedule`, `Freeze`, `RevokeSource`, `MarkFalsePositive`, `PostSignal`) |
| Observability and Observatory; scripts; migrations | read models, a user interface, operator tools |

The map in `PROJECT.json` covers a small part of the repository's lines, and
that is a property of the repository: `api/app.py` alone has 17,440 lines of
request models and of endpoints that call one store method each, and the
Observatory, the stores' listings, the evaluator, the compiler and the context
builder are queries, arithmetic and text. What is modelled is where several
actors, or a failure, decide the outcome.

The components interact through tables. The plugin sends event batches to the
API. The scheduler inserts jobs that the worker loop claims. Handlers of
claimed jobs update the other tables and enqueue more jobs. `writer.apply`,
`revocations.rollback` and `topology.apply_downstream` are such handlers, in
the filesystem pool; `curation.run`, in the analysis pool, moves the same
directories from another container. The
API runs the same store methods, and for the writer the same file operations,
in another process.

`PROJECT.json` lists, under `hazards`, what in this code is hard to test, line
by line, with the property that covers it or the reason none does.

## 2. Modules

| Module | Models | Lines |
|---|---|---|
| `JobLedger` | abstract: what a job queue promises its callers | 67 |
| `JobQueue` | the Postgres queue and the execution of a handler; implements `JobLedger` | 383 |
| `JobQueueProofs` | safety of `JobQueue` for all constants, and the refinement | 1506 |
| `Scheduler` | the tick and the writers of schedules that race it | 362 |
| `SchedulerProofs` | safety of `Scheduler` for all constants | 704 |
| `EventSpool` | captures, compaction and replay of the spool files | 440 |
| `EventSpoolProofs` | safety of `EventSpool` for all constants | 1815 |
| `SkillWriter` | apply, recovery and rollback of the versions of one skill | 488 |
| `SkillWriterProofs` | safety of `SkillWriter` for all constants, any concurrency among them | 3164 |
| `SkillLifecycle` | state of one skill, and whether its files are there, between control API, curation, topology jobs and writer | 486 |
| `SkillExposure` | `SkillLifecycle` composed with the hints of the API's broker and their cache | 102 |
| `SkillExposureProofs` | safety of `SkillExposure`, and so of `SkillLifecycle`, for all constants | 1229 |
| `RepairExecution` | drift events, diagnostic momentum and curation actions, and the jobs that repair them | 459 |
| `RepairExecutionProofs` | safety of `RepairExecution` for all constants | 1219 |
| `HistoricalImport` | imports of a growing file, what is made of its lines, the revocation of its sources | 498 |
| `HistoricalImportProofs` | safety of the import for all constants | 643 |
| `RevocationProofs` | safety of the revocation in `HistoricalImport` for all constants | 818 |
| `MC*` | constants and bounds for TLC | |

Operators named with a fault (`HeldByAnyone`, `NotPutBack`, ...) stand beside
the operator they would replace. No action uses them: substituting one for the
real definition shows that a property notices the bug.

### JobQueue

`jobs` and `rows` are the tables, reduced to the columns the statements test:
status, owner, attempts, and two countdowns for `lease_expires_at` and
`available_at`. `exec` is what a slot of `run_worker_loop` holds: the job and
attempt number it claimed, and how far `run_worker_once` has come. `orphans`
are handler tasks that still run after their execution has given them up.
`returned` is a history variable, the attempts whose handler returned.

| Action | Code |
|---|---|
| `EnqueueJob` | `enqueue_job`: an insert, or the existing row |
| `ClaimNextJob`, `ClaimNothing` | `claim_next_job`, with `_recover_expired_leases` at its head in both cases |
| `StartHandler`, `HandlerReturns`, `HandlerRaises` | the handler task of `run_worker_once` |
| `RenewLease`, `RenewRefused`, `RenewRaises` | `renew_job_lease` and the three ways its call in `_run_with_lease_renewal` can end |
| `Complete` | `complete_job`, or a call of it that matches no row |
| `Escapes` | an exception where `run_worker_once` has no `try` |
| `Crash`, `OrphanEnds`, `Tick` | the process dies; a task left behind ends; time passes |

Each store method is one database transaction and locks the rows it changes, so
it is one action. That `renew_job_lease` and `complete_job` test `worker_id`
and not the attempt is kept: why it is enough is `OwnerHoldsCurrentAttempt`. For
the rows of `job_attempts` it is not enough: `complete_job` closes every open
row of its worker for the job, and recovery closes none. `HistoryAgrees` says
what that leaves: a lapsed row may stay open, or be given the outcome of a later
attempt of the same worker, and nothing else may be wrong with a row.

### Scheduler

A tick is `BeginTick` (advisory lock, due query), one `TickSchedule` per row and
`CommitTick` or `AbortTick`; what it writes is in `ticks[t]` until it commits.
Tickers are loops of scheduler workers (`Loops`), and others: `scheduler.tick`
jobs and the tick endpoint. A loop ticks once per iteration, maybe without
finding anything (`TickFindsNothing`), and then waits for the jobs its slots
have claimed (`SlotsEnd`). The query returns at most `Limit` rows.
The due query is `FOR UPDATE SKIP LOCKED` over a join, so it locks the
workspace row too, and every writer that calls `ensure_workspace` waits for
it: `WorkspaceLocked` guards those actions. `ListSchedules`, `EnsureCore` and
`EnsureScan` are the registration at a worker's start, whose listing is read
outside the later transactions. `EditSchedule` is the upsert endpoint,
`EnqueueManual` and `JobSettles` the job queue as seen from here.

### EventSpool

Each action is the code between two awaits that touch a file or the sidecar.
`procs[p]` is the local state of capture `p` or of the one replay (the code
keeps replays single with `replayInFlight`; captures are not serialised).
`fs.writeFile` is two actions, truncation and write, because other calls fall
between them. `Measure` is one `fs.stat`, so files change between two of them.
Any of these calls can fail (`FileCallFails`), a write after the truncation and
with some of its lines written; the exception ends the capture or the replay,
and nothing puts right what it leaves. A record is its event; a size is a number of records. What the sidecar
answers is external: accepted or duplicate, an answer that counts too few, an
error, or an error after the events were stored.

Two history variables name what can be lost: `raced`, lines that came into a
file after the rewrite of that file had read it, and `torn`, lines held by a
rewrite that broke off, by a crash or a failing call.

### SkillWriter

One slug. `active` is the directory `skills/autoskill/<slug>` with the version
in it and the archive its manifest points to; `archive[t]` is the snapshot that
transaction `t` took, absent, partial or complete. `status`, `undo`,
`requests` and `rollback` are the database.

`slots` are handler tasks, at most `Concurrency` of which a worker waits for.
Each file operation whose loss would show is an action; `At` keeps other tasks
out while one runs code without an `await`, as the event loop does. `Crash` stops
everything between any two steps and hands the jobs back as lease recovery
does. `Cancel` is a handler cancelled at an `await` because its lease was lost;
`RenewalRaises` is the other way to lose it (`worker.py:508-534`): the job is
recorded as failed and claimed again, while its handler, an orphan now, goes on
moving directories and its end is told to nobody. Each failing call is an action
guarded by `Fault` that does what the code's `except` and `finally` do.

Two history variables: `crossed`, a handler was started while another was
running, by a concurrency above one or beside an orphan; and `replaced[t]`, what
was active when `t` was first applied. Staging and its checks are done once per
version and precede the model. The temporary directories under `.autoskill` are
removed by the code before they are used again and are kept only as `aside`.

### SkillLifecycle and SkillExposure

One skill. `active` says that its directory is there, `snapshots` that its
archive has one. What is in them is not followed: `archive_active_skill` copies
file by file and the removal walks a tree, and the writer, another process, may
put another version there in between, so that a snapshot may hold some files of
each. `Copy` and `Remove` stand for the last step of these walks, which decides
what is there. Transactions on the lifecycle begin with
`ensure_workspace`, whose upsert locks the workspace row until the commit:
they are single steps, guarded by `RowFree`, which is false while a curation is
between two file operations of its transaction. Control calls overlap between
their commit and their eviction (`api[k]`), and any number of curation handlers
have their rollups before one of them gets the row (`scored[c]`). The writer has
no such guard.

| Action | Code |
|---|---|
| `Freeze`, `RecordCritical`, `Unfreeze`, `Record`, `CallFails` | `freeze_skill`, `record_canary_result`, `unfreeze_skill` and the governance calls after their transaction |
| `Rollup`, `BeginCuration` | `run_utility_rollup`, in a transaction of its own: `scored[c]`, later `curation.saw`, is what it read; the transaction that uses it |
| `FilesPresent` ... `Promote`, `PromotionRefused` | `_promote_archived_from_demand` |
| `ChooseSkill` ... `Archive`, `ArchiveRefused` | the three passes that archive, which share `archive_active_skill` and `_restore_files_after_failed_archive` |
| `FilesFail`, `CurationFails`, `CurationCrash` | a failing file operation, a statement that raises, a process that dies |
| `ApplyDownstream`, `DownstreamBlocked`, `Govern`, `Invalidate` | the handler of `topology.apply_downstream` and its job's retries |
| `TakeAway`, `MoveIn` | what `SkillWriter` does to the directory: it is moved aside or deleted; a version is moved in |

`SkillExposure` adds requests that retrieve, await and cache, and replaces
`Evict` and `ApiCrash` by steps that also empty the cache. An answer on its way
during an eviction is `"late"`; `missed` records that a freezing call failed
before its eviction. Curation, topology and revocation run in other
processes than the cache and evict nothing; that cached hints of an archived
skill live on until they expire is by design.

### RepairExecution

`status` is the status column of every source, in its own store's words.
`workers` are the `repair.execute` jobs: `Claim` three times, then for each
source `StartTransaction`, `Plan`, `EnqueueRepair`, `RecordQueued`, one
commit each, and `CompleteSource`. The exception handler around the execution
is `ExecuteFails`; what raises outside it is `JobFails`. `ContractNext` is the
drift check and the operator's mark, which two places keep (`contract.status`
and the metadata), `SignalNext` the upsert of a diagnostic record.
`QueueNext` is what becomes of the jobs: `GateEnds`, after which the job is over
and its idempotency key still taken, and the writer's side of the transaction,
which is the source's own unless the proposal names another (`Elsewhere`).
`created` is whether this execution's insert made a row or met one.

### HistoricalImport

A source row is a fingerprint of the file, which is taken from its size and time
before the file is read. A chunk row is therefore known by two numbers, the
version it is registered under and its line. `Register`, `CheckSource`,
`Compare`, `Insert` and `Link` are the statements of `upsert_sources` and
`record_chunks` in their order. `RevokeSource` is a transaction; the steps of
the same call after it (`PreviewTraversal`, `RequestRevocation`,
`EnqueueInvalidate`) commit one by one, and the job works on the list made by
the preview. It ends when its claim returns nothing (`EndJob`), which does not
mean that nothing is queued: `FOR UPDATE SKIP LOCKED` over the join with
`workspaces` passes over requests while any transaction holds the workspace row,
and the loop has a limit. Evidence items get no embedding in the model: nothing
revokes an evidence row's status, so its embedding would tell nothing.

Four history variables name the races. `late` holds the rows a revocation came
too late for and why (an insert in progress, listed for embedding, not linked
yet, cut off by the limit), `raced` the lines that two imports found missing
at once, `abandoned` the revocations cut short before their job. Each property
then says that nothing *else* goes wrong.

## 3. Runs

| Run | Instance | Shows |
|---|---|---|
| `job_queue` | 2 jobs of unequal priority, 2 slots, 2 attempts | `AttemptBudget`, `HistoryAgrees`, `CompletionIsOwn`, `SettledStaysSettled`, that the queue implements `JobLedger`, and under `Fairness` `EveryJobSettles` |
| `job_queue_duplicate` | 1 job, 2 slots, 3 attempts, leases always renewed in time | violation of `JobLeasesPreventDuplicateMutation` |
| `scheduler` | 3 schedules of one kind of which a tick fetches 2, a worker loop and a second ticker, a worker start, an edit, a rolled-back tick, a job enqueued by hand | `OneActivePerKind`, `NoneBesideManual`, `SlotRunsOnce`, `CommitKeepsEdits`, `DueIsServed` |
| `scheduler_cadence` | 2 schedules registered before, no edits or rollbacks | violation of `CadencePreserved` |
| `event_spool` | a plain, a raw and a rejected event, 2 days, batches and a spool of 2 records, a crash or a failing file call | `DroppedIsSafe`, `SpooledIsAccounted` |
| `event_spool_live` | the same, with the raw event unreadable, under `Fairness` | `SpoolDrains` |
| `event_spool_race` | 2 events, 1 day, 2 captures at once | violation of `FailedEventsAreSpooled` |
| `skill_writer` | 2 versions, a worker of concurrency 1 and a place for an orphaned handler, 2 attempts, 1 crash or cancellation, 2 failing calls or renewals | `RollbackPointersValid`, `AppliedVersionKept`, `NoGapFromErrors`, `CompletedRollbackTookEffect` |
| `skill_writer_exposed` | the same with 1 failing call | violation of `FailedApplyNotVisible` |
| `skill_exposure` | 2 control calls and 2 curation handlers at a time, 1 operation and its job, 1 hint request | `FilesFollowState`, `DownstreamOnce`, `OnlyOperatorLifts`, `FrozenHintIsLate` |
| `repair_execution` | a source of each kind, 2 workers, 2 runs, 2 signals, 1 mishap | `RepairedOnce`, `QueuedIsHandedOn`, `NothingStranded`, `FalsePositiveNeverOpens`, `OutcomeLostByQueuer` |
| `historical_import` | a file of 1 line that grows to 2, 2 imports, a traversal of 3 nodes, 3 starts, revocations or mishaps | `StoredOnce`, `CompletedRunStored`, `NothingUnderRevoked`, `RevocationReaches`, `DerivedIsListed` |

Every passing run but `event_spool_live`, whose module `event_spool` checks, also
checks its module's `TypeOK`.

### What the violations say

- **Two handlers of one job.** `_run_with_lease_renewal` cancels the handler
  when the renewal is refused, not when the renewal, or the heartbeat after it,
  raises. The exception completes the job as failed, the job is retried, and
  the first handler goes on. The specification (8623) says leases prevent
  duplicate mutation. The run lets no lease lapse, so lapsed leases are not the
  cause.
- **A schedule set back.** `ensure_core_schedules` lists `next_run_at`, then
  writes it; a tick that commits between is undone and the schedule is due again
  at once. `test_scheduler_defaults.py:115` is named for the opposite. No run
  is repeated (`SlotRunsOnce` holds: the idempotency key names the slot); the
  tick after it only repeats the advance.
- **A spooled event overwritten.** A replay writes back what it read before it
  awaited `send`. A line appended meanwhile is lost, although its capture
  returned `spooled: true`. `SpooledIsAccounted` shows that this, and a rewrite
  that breaks off, are the only ways to lose one.
- **A failed version left active.** A crash after the swap and before its record
  leaves the new version active. The retry archives it as the "previous" one,
  under its own id; if its record then fails, the recovery restores that
  archive, and the status becomes `failed` while the version is active. The
  docstring at `writer.py:567` says apply is fail-closed.

### What else the models show

States the models reach, or that they were made coarser for, and which a reader
of the code may want to know. The properties except them by name.

- The row of an attempt whose lease lapsed stays open for ever, unless its worker
  completes a later attempt of the job; then it is closed with that outcome.
- Beside an orphaned handler of the writer, `AppliedVersionKept` and
  `NoGapFromErrors` do not hold: the two swap each other's directories. Without
  the condition `~crossed` TLC finds a counterexample to each.
- An apply that was tried again after a crash between its two renames records a
  deletion as its rollback, although it replaced a version, which stays in an
  archive that nothing refers to (`unified-implementation-specification.md:5450`
  forbids orphan archives).
- A curation walks a tree that the writer may exchange meanwhile: the version the
  writer has installed can be removed without an archive of its own, or the
  snapshot be made of two versions (`writer.py:410-444`, `464`). Nothing in the
  code rules it out, and no property here claims otherwise.
- `unfreeze_skill` sets its target whatever the state is (`lifecycle.py:310`).
  `unified-implementation-specification.md:6516` lets a frozen skill go to a staged
  repair, the archive or revocation, and a revoked one nowhere. Code and document
  disagree; `OnlyOperatorLifts` says who may lift, not to what.
- A repair source whose worker dies, or whose job fails outside the `try`, stays
  `executing` or `repairing`: no statement takes it back (`NothingStranded`
  holds without failures only).
- A diagnostic that signals arm again after its gate job has ended finds its key
  taken, enqueues nothing and is still recorded `repair_queued`. For actions and
  events `QueuedIsHandedOn` excludes that.
- A worker that claimed a drift event before an operator marked its contract a
  false positive overwrites `false_positive` with `repair_queued`.
  `FalsePositiveNeverOpens` promises that the event is not claimed *again*.
- A worker that records `queued` late overwrites the writer's outcome of the same
  transaction (`OutcomeLostByQueuer` says it is the only way).
- Discovery and import write a source's status whatever it was: a revoked source
  is registered again, its lines stay revoked.
- A revocation is of one fingerprint. Lines stored under an earlier one of the
  same file keep theirs.
- The traversal stops at `max_nodes` without a mark; a line inserted by a process
  that died before its edge is found by later imports and never linked.
- A revocation's job may end with its request still queued, and a later request
  of the same source gets no job, since the key is taken: such a request waits
  for a job of another source, and a failed one, or one whose job died, for
  nothing.
- A hint rendered during a freeze is cached after the eviction, and a freezing
  call that fails before its eviction leaves the cache as it was.
- A crash or a rollback of a curation leaves the files it has moved.
- The writer does not read the lifecycle state: it may apply a version to a
  frozen or archived skill.

### Bounds, and why they are enough

- *Attempts.* Two give a retry and an exhausted budget; the duplicate run has a
  third so that a job can be claimed a second time and more.
- *Slots and workers.* The hazards are about pairs: the late one and the one
  that took over. A pair of jobs makes recovery of one happen in a claim of the
  other. The safety of the queue is proved for any number.
- *Leases.* `LeaseTicks = 0` lets a lease lapse at any tick, the hardest case.
  `AgeCap` stops the countdowns where no statement tells them apart any
  more.
- *Schedules.* Three of one kind and a `Limit` of two: a tick leaves one behind,
  and two misfire policies meet in one tick. The clock stops at 1, the first
  run after an interval; `Horizon` is past any `next_run_at` the clock allows.
  The run for the cadence has two schedules and a clock to 2.
- *Spool.* Two days are a file that grows and one that does not; a batch of two
  mixes a stored with a rejected record, or with an undecodable one; a
  spool of two records evicts with three events and rewrites what it keeps. One
  mishap is a crash or a failing call at any await.
- *Writer.* Two versions are one to replace and one that replaces it. Two slots
  are a handler and an orphan beside it: `Concurrency` is 1, the default
  (`config.py:96`) and the only deployment in `docker-compose.yml`. `MaxStops` 1
  and `MaxFaults` 2 combine into a crash followed by a failing recovery, the case
  of the violation (which needs one fault), and into an orphan whose successor
  fails.
- *Exposure.* Two control calls are a freeze and what lifts it, overlapping; two
  curation handlers are a stale rollup and the run that overtakes it. One job
  with two attempts is a plan that is tried again. Failures are not counted: any
  step may fail or die, any number of times.
- *Repairs.* One source of each kind meets every path of the handler; the two jobs
  race for them. Two signals take a record over a threshold and arm it again
  while it is being repaired. The proofs are for any number.
- *Import.* Two versions give a line that two fingerprints see. With
  `MaxNodes = 3` a traversal of two lines and their evidence is cut, that of
  one is not. `Budget = 3` is two imports and a revocation, or one of each and
  a mishap, and so on; rows do not depend on each other, so evidence and
  embedding of one row (`Followed`) are enough.

`CHECK_DEADLOCK FALSE` appears where the system may stop: the scheduler's clock
ends, the writer's transactions and requests are finite in number, and so are
the calls, jobs and imports of the last three runs.

### Fairness

- `JobQueue`: time passes; a slot that polls goes on polling and runs and
  completes what it claimed (the loop of `run_worker_loop`); handlers end. There
  is no fairness on renewals, crashes or exceptions: they may always or never
  happen. The number of crashes need not be bounded, because each costs an
  attempt.
- `Scheduler`: every transaction ends. Of the loop of a scheduler worker it is
  assumed that the jobs of its own slots end (`SlotsEnd`): until they do it does
  not tick (`worker.py:400-434`), and a worker of the scheduler pool claims
  `scheduler.tick` jobs only (`worker.py:3551`), which are ticks themselves.
  And that not every tick of a loop meets the advisory lock taken or the
  workspace row locked, when it returns nothing: strong fairness of `BeginTick`.
  Other tickers need not tick. Nothing is assumed of the jobs that schedules are
  due for: other workers run them, and one may be active for ever.
- `EventSpool`: captures keep coming (each successful one starts a replay), what
  is started goes on unless the process dies or a file call fails, and a sidecar
  that is tried again and again answers at some time (the one strong fairness).
  `SpoolDrains` excepts a rejected record: it stops the replay before everything
  behind it.
- `SkillWriter`, `SkillExposure`, `RepairExecution`, `HistoricalImport`: no
  liveness is claimed. What a crash leaves behind there is taken up by nobody,
  so that the liveness one would wish for does not hold; the safety properties
  say instead what is left, and that only failures leave it.

## 4. Proofs

`JobQueueProofs` proves, for any jobs, slots, workers, attempt limit, lease
length and backoff:

| Theorem | States |
|---|---|
| `TypeCorrect` | `Spec => []TypeOK` |
| `BudgetHolds` | `Spec => []AttemptBudget` |
| `OwnershipIsCurrent` | `Spec => []OwnerHoldsCurrentAttempt` |
| `CompletionsAreOwn` | `Spec => CompletionIsOwn` |
| `SettledIsFinal` | `Spec => SettledStaysSettled` |
| `QueueImplementsLedger` | `Spec => LedgerSpec` |
| `HistoryIsTrue` | `Spec => []HistoryAgrees` |

The argument. The statements compare `worker_id` only, so `CompletionIsOwn` is
not inductive: it needs that whoever still passes that test also holds the
current attempt. The inductive invariant is

    IInv == TypeOK /\ AttemptBudget /\ OwnerHoldsCurrentAttempt

`GrantsNothing` is its core: an action that gives nobody an attempt cannot make
`Held` true again. A claim gives one, to a slot that was idle, and since no two
slots share a worker id nobody else gains it. `AttemptBudget` is in the
invariant because `Completed` and `Recovered` return to the queue by comparing
`attempts` with the limit, and the shape of their results needs that
comparison. The refinement needs `RInv` besides: a busy slot's attempt number
is at most the row's, a success about to be reported was returned by the
handler, and an unleased row has no owner. `RowChange` then matches each change
of a row to `Submit`, `Grant`, `Return`, `GiveUp` or `Succeed`; one claim may
return several lapsed grants at once, which is why the ledger's step is over
all jobs together. `HistoryAgrees` needs `HInv` besides, which adds to it what
an execution knows of its handler (`ResultsKnown`) and that the attempt it will
close is its last (`SuccessRecorded`). `complete_job` closes every open row of
its worker for the job: the rows of lapsed attempts with the one it is for
(`OutcomesTold`), never that of an attempt which took over (`OwnRowOpen`), which
is again that no two slots share a worker id.

Assumptions. The named `ASSUME`s of `JobQueue`: a positive attempt limit, natural
lease and backoff, `None` distinct from workers and jobs, and
`WorkerAssumption`, that no two slots share a worker id. The last one is what
`docker-compose.yml` (one `--worker-id` per container) and the loop's suffix
(`worker.py:415`) provide; the queue itself does not enforce it.

### The import

`HistoricalImportProofs` proves, for a file of any length, any importers and any
budget:

| Theorem | States |
|---|---|
| `ImportInvariant` | `Spec => []IInv` |
| `ImportTypeCorrect` | `Spec => []ImportTypeOK` |
| `LinesStoredOnce` | `Spec => []StoredOnce` |
| `CompletedRunsStored` | `Spec => []CompletedRunStored` |
| `RevokedShowsNothing` | `Spec => []NothingUnderRevoked` |

None of the three properties is inductive: each is about rows, and what makes it
true is what an import knows between two of its statements. `IInv` adds that
knowledge. `AtWork`: an import past its start has a version, a line and a
running record. `InBetween`: an import past its check of a source that is now
revoked is in `late`, which is what `NothingUnderRevoked` needs at `Insert`.
`Missing`: a line about to be inserted is stored nowhere and inserted by nobody
else, unless it is in `raced`; without it `Insert` could break `StoredOnce`.
`Progress`: each parsed line is still to do, in hand or stored, which at the end
of the list is `CompletedRunStored`. The revocation's side changes rows of
chunks only from present to revoked, and one lemma (`AsideKeeps`) covers all the
steps that touch neither rows nor imports. Assumption: `VersionAssumption`, a
file has at least one version.

### The repairs

`RepairExecutionProofs` proves, for any sources, workers, signals and bounds:

| Theorem | States |
|---|---|
| `RepairInvariant` | `Spec => []IInv` |
| `RepairTypeCorrect` | `Spec => []TypeOK` |
| `SourcesRepairedOnce` | `Spec => []RepairedOnce` |
| `QueuedSourcesAreHandedOn` | `Spec => QueuedIsHandedOn` |
| `NobodyStrands` | `Spec => []NothingStranded` |
| `FalsePositivesStayClosed` | `Spec => []FalsePositiveNeverOpens` |
| `OutcomesLostByQueuersOnly` | `Spec => OutcomeLostByQueuer` |

Actions and events are claimed once in their life, diagnostic records many
times, and the two are safe for different reasons. For the first, `FreshIsFree`
and `OneHolder` say that what can be claimed is in nobody's hands and was never
handed on, and that a claimed source has one holder and no job until that holder
enqueues it. For the second, `RowIsJob` says that a row in the job table keeps
its idempotency key taken. An action's or an event's insert meets a free key, and
`EnqueuedIsOwn` carries that to the record `QueuedIsHandedOn` is about; that of a
diagnostic may meet the key of a gate job that has ended.
`SettledIsDone` excludes a verdict of the writer while a worker is still
planning. `NothingStranded` needs `InHand`: a worker that takes a source had
none in hand to lose. Assumptions: `SourceAssumption` (the three kinds of source
are disjoint, and `"none"` is no source) and `BoundAssumption`.

### The scheduler

`SchedulerProofs` proves, for any schedules, policies, tickers, clocks and
bounds:

| Theorem | States |
|---|---|
| `InductiveInvariant` | `Spec => []IInv` |
| `TypeCorrect` | `Spec => []TypeOK` |
| `OneActive` | `Spec => []OneActivePerKind` |
| `OneBesideNone` | `Spec => NoneBesideManual` |
| `OneTicker` | two ticks are never both in their transaction |
| `RunsOnce` | `Spec => SlotRunsOnce` |
| `TickAdvances` | a committed tick moves `next_run_at` past the run that was due |
| `EditsKept` | `Spec => CommitKeepsEdits` |

A tick writes at its commit what it has decided from rows read at its start.
`LockHolder` ties the transaction to the advisory lock, so there is one.
`ViewCurrent` says that what it has read is still in the table: the fetched rows
keep their workspace row locked, and everybody else who writes a schedule waits
for that row. Without it `EditsKept` is false. `AddedIsNew` says that a job the
tick will insert has a new key, and a kind that has no active job of the
scheduler; no other action makes a job active, so that it still holds at the
commit, which is `OneActivePerKind`, and so is the absence of a job by hand
(`NoneBesideManual`): its insert waits for the workspace row. The arithmetic of
the four misfire policies is in `NextRunBounds`. Assumptions: the bounds fit
together (`ClockAssumption`: the horizon is past every run the clock allows),
and `None` is no ticker.

### The spool

`EventSpoolProofs` proves, for any finite set of events, any days, batch and
spool sizes, captures and crashes:

| Theorem | States |
|---|---|
| `InductiveInvariant` | `Spec => []IInv` |
| `TypeCorrect` | `Spec => []TypeOK` |
| `DropsAreSafe` | `Spec => []DroppedIsSafe` |
| `SpooledAccounted` | `Spec => []SpooledIsAccounted` |

`DroppedIsSafe` is about a process that is about to rewrite a file. `SafeToDrop`
carries it back to the `send`: what the process will not keep is in the core or
has a tombstone, and neither is ever undone. `HolderOk` says that what a
process keeps is part of what it has read, once each. `FileOk` and `NotYet`
(an event is appended once) keep a file free of duplicates; without them a
record could leave a file and still be in it. `SpooledIsAccounted` is carried
from step to step over this invariant, one lemma for each way in which a line
can leave its file: an append brings a line in (`AppendAccounts`); an eviction
names what it removes (`EvictAccounts`); a rewrite leaves out what `SafeToDrop`
covers, holds what it will write back, and has not seen the rest, which is
`raced` (`RewriteAccounts`); a crash or a failing call leaves in `torn` what was
held (`MishapAccounts`). Assumption: the named sets of events are finite and
part of each other, and the bounds are positive.

### The writer

`SkillWriterProofs` proves, for any finite number of transactions and slots, any
concurrency, attempts, crashes and failures:

| Theorem | States |
|---|---|
| `InductiveInvariant` | `Spec => []IInv` |
| `TypeCorrect` | `Spec => []TypeOK` |
| `PointersValid` | `Spec => []RollbackPointersValid` |
| `AloneInvariant` | `Spec => [](IInv /\ HistoryTyped /\ AInv)` |
| `VersionsKept` | `Spec => []AppliedVersionKept` |
| `NoGaps` | `Spec => []NoGapFromErrors` |
| `RollbacksTakeEffect` | `Spec => CompletedRollbackTookEffect` |

None of them assumes anything of the number of handlers. The first three hold
also beside an orphan: an archive that is complete stays so, for
`archive_active_skill` returns one that exists and `FinishArchive` only
completes a partial one. `Pointers` says it of every manifest, also of the
directory that a slot has set aside and may bring back; `PlaceOf` says it of the
archive a slot will restore from; `UndoKnown` says it of the rollback action.
`OneInFiles` is the event loop: two tasks are never both between file
operations.

The other properties speak of the states in which no handler has been started
beside another, because that is where they hold. Their invariant is

    AInv == crossed \/ \E w \in Slots : Sole(w) /\ Traced(w)

with the one slot that may be at work as a witness. `Undisturbed`, a part of
`Sole`, is what a slot alone knows at each of its steps: which version is active,
archived and aside. `AppliedVersionKept` follows, because each step that removes
a directory has another copy of it in hand. `NoGap` adds that a slot which
removes what it has put into place has something to put back, as long as nothing
has crashed; `Owed` excludes the crash, for the attempt after it finds nothing
active, takes the skill for new and has nothing to put back. `Traced` relates
each record of a rollback to what the transaction replaced, a history the code
does not have: `FirstAttempt` follows it through the swap, `TriedOnce` keeps it
afterwards, and a second attempt is where it may be lost.

### The lifecycle and its hints

`SkillExposureProofs` proves, for the composition of `SkillLifecycle` with the
hint cache, any operations, jobs, requests and bounds:

| Theorem | States |
|---|---|
| `InductiveInvariant` | `Spec => []IInv` |
| `TypeCorrect` | `Spec => []TypeOK` |
| `FilesAgree` | `Spec => []FilesFollowState` |
| `PlanTakesEffectOnce` | `Spec => []DownstreamOnce` |
| `FreezeEvicts` | `Spec => []FrozenHintIsLate` |
| `OperatorLifts` | `Spec => OnlyOperatorLifts` |

The properties of the files are about a curation at its end, and what makes them
true is spread over its passes. `PassShape` says in which pass each step can be
and whether it has a snapshot in hand; `DraftCurrent` that the uncommitted state
is the committed one or the one of active and archived that it was not, so that
a curation never lifts a freeze. `Moves` is `FilesFollowState` carried to every
step: `curation.moved` is what the run has done to the files, and for each pass
it says where the two may still differ; once a file operation has failed or the
writer has taken the directory away it is `"mixed"` and says nothing.
`RecordedByJob` keeps a plan that has taken effect in the hands of a running job
until it is recorded, or until that job is `broken`. `HintsEvicted` adds the
requests to the cache: a request that has retrieved before the freeze becomes
late at the eviction, and one that retrieves after it is offered nothing. The
frame lemmas (`WriterFrame` ... `BrokerFrame`) say once what each part of the
system leaves alone.

### The revocation

`RevocationProofs` builds on the invariant of the import and proves, for any
size of the file, the traversal and the queue:

| Theorem | States |
|---|---|
| `RevocationInvariant` | `Spec => [](ImportTypeOK /\ RInv)` |
| `TypeCorrect` | `Spec => []TypeOK` |
| `EmbeddingsReached` | `Spec => []RevocationReaches` |
| `EvidenceListed` | `Spec => []DerivedIsListed` |

A revoked row passes from the call to its preview, to a request, to the job that
works the request off, and the properties must hold in between. `EmbeddedInReach`
says where it is at each time: a request counts only while it is queued, or while
the job that has claimed it is about to carry it out, and a request that failed
or whose job died puts its revocation among the `abandoned`. The request must
also be of the row's own version, which `RevocationReaches` does not say and the
step to `abandoned` depends on (`Awaited`). `TraversalMet` is what the preview's
list contains, or why it does not, and `ListedKnown` that a row listed for
embedding before its revocation is known as such: its embedding may be written
after everything else is over. That a queued request is claimed at last is not
among the theorems, since the code does not ensure it.

### Only model-checked

`EveryJobSettles`, `DueIsServed` and `SpoolDrains`: liveness under fairness needs
`ENABLED`, which the proof system does not handle. Every other property that a
passing run checks is a theorem above. The four violations are
counterexamples, not theorems.

## 5. Plan

Done: the modules above, and the safety of each for every value of its
constants. What is left, in order:

1. An abstract specification of the writer (a stack of versions with undo) and the
   refinement while no handler was started beside another; then
   `SkillLifecycle`'s `TakeAway` and `MoveIn` are its steps. The invariant of the
   refinement is `IInv /\ AInv`.
2. The same for the spool: what a reader of the files may rely on, with losses by
   races as its only exception.
3. A run for the orphaned archive after a crash between the renames
   (specification 5450), with `SkillWriter` as it is.
4. The writer's endpoints of the API as a second process in `SkillWriter`, to say
   what the event loop of one process protects.

## 6. Running it

    tlc -workers 2 -config MCJobQueue.cfg MCJobQueue
    tlapm JobQueueProofs.tla

Each run takes up to three minutes with two workers; the largest,
`repair_execution`, has 2.9 million states, `skill_writer` and
`historical_import` about 2.2 million each. Each proof module is checked from
nothing in a few minutes.
