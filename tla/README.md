# A model of the Journey Builder API

TLA+ specifications of the control plane in `app/`: the services and workers
that share one PostgreSQL database and several queues. The modules are
model-checked with TLC and, where the table below says so, proved with TLAPS.
`PROJECT.json` maps every definition to the lines it stands for and lists runs,
hazards, findings and theorems.

## 1. The system

API processes and five worker loops (each with any number of replicas) work on
the same rows. Nothing is passed between them but rows and SQS messages.

| component | state | operations | talks to |
|---|---|---|---|
| standardization service (`modules/standardization/service.py`) | `standardization_run`, `_checkpoint`, `_outbox_event`, `_partition_state` | `create_manual_run`, `get_manual_run` | outbox rows to the outbox worker |
| standardization workers (`workers/standardization.py`) | the same rows | outbox loop: `reconcile_partition_once`, `process_outbox_once`; result loop: `process_result_message` | dispatch queue → ECS worker (external) → result queue |
| connector service (`modules/connectors/service.py`) | `workspace`, `connection`, `dataset`, `schema_snapshot`, `mapping_version`, `schedule`, `operation`, `sync_run`, `outbox_event` | workspaces and apps, connections and credentials, operations, datasets, mappings, schedules, `materialize_sync_run` | Secrets Manager, outbox rows |
| connector outbox worker (`workers/connectors.py`) | `outbox_event`, `operation`, `schedule` | `process_outbox_once` (publish a dispatch, or sync a schedule to EventBridge), `cleanup_expired_preview_results` | dispatch queues → external consumers; EventBridge |
| occurrence worker (`workers/connectors.py`) | `schedule_occurrence` | `process_occurrence_message` → `materialize_sync_run` | EventBridge → occurrence queue |
| connector result worker (`workers/connectors.py`) | `operation`, `sync_run` | `process_result_message` | result queue |
| publication status (`modules/connectors/repository.py`) | none: a query | projection of execution, stitching and transfer status | views of another system |
| intake mapping engine (`modules/connectors/intake_mapping/`) | none | header normalization, validation of mappings, projection of records | – |
| sessions, configuration, secrets, cache, health, migrations, deployment | connections of the process | – | – |

What makes it hard is that PostgreSQL runs at READ COMMITTED, most service
functions read, check and commit without a lock, the few row locks are taken in
different orders, every queue delivers at least once and in any order, and every
worker may stop between any two of its steps. The hazards in `PROJECT.json` name
the lines. What each component owes:

* standardization: a run ends, once, and says the truth about its work items;
  no work item is lost or tried too often;
* admission of syncs: one active run per dataset, with a published mapping it can
  work with and the app of its workspace; an idempotency key or an occurrence
  leads to one answer;
* dispatch: every operation reaches a worker and ends, with its first outcome;
* schedules: what EventBridge does is what was asked last, and the row says so;
* connections: READY means that the stored credentials have been tested;
* publication status: never better than what has been published, and a failure
  before publication stays visible;
* planning of standardization: clicks that overlap make one run, a key makes one
  run for ever, and no document that a plan could have seen is passed over;
* intake mapping: what an accepted mapping does to a row depends on that row and on
  the columns it was checked against alone.

## 2. Modules

| module | models | checked by | proved in |
|---|---|---|---|
| `StandardizationRun` | `workers/standardization.py`; `create_manual_run` as one step | `MCStandardizationRun` | `StandardizationRunProofs` |
| `ManualRunPlan` | `create_manual_run` and `discover_source_inventory` in `modules/standardization/service.py` | `MCManualRunPlan` | `ManualRunPlanProofs` |
| `ConnectorSync` | the preparation and admission of sync runs in `modules/connectors/service.py`, and the occurrence worker | `MCConnectorSync` | `ConnectorSyncProofs` |
| `OperationDispatch` | outbox, result worker and external consumers of operations in `workers/connectors.py` | `MCOperationDispatch` | `OperationDispatchProofs` |
| `OperationLife` | abstract: what a client polling an operation, its run and its preview is promised | `operation_dispatch` implements it | `OperationDispatchProofs` |
| `ScheduleSync` | `upsert_schedule`, `control_schedule` of `modules/connectors/service.py`; the schedule events of the outbox worker | `MCScheduleSync` | `ScheduleSyncProofs` |
| `ConnectionSecrets` | `create_connection`, `update_credentials`, `update_connection` of `modules/connectors/service.py` against Secrets Manager | `MCConnectionSecrets` | `ConnectionSecretsProofs` |
| `PublicationStatus` | the projection of `modules/connectors/repository.py` and the views that use it | `MCPublicationStatus` | `PublicationStatusProofs` |
| `IntakeMapping` | `modules/connectors/intake_mapping/`, `create_upload_dataset` | `MCIntakeMapping` | `IntakeMappingProofs` |

`ConnectorSync` and `OperationDispatch` meet in the rows of an operation:
`queue_operation` and `materialize_sync_run` insert the operation, its run and
its outbox event in one commit (`InsertRun`, `QueueCommit` there, `Create`
here). The end of a run, which is `EndRun` in the first, is the business of the
second (`ResultCommit` with `RunEnded`). `ScheduleSync` has the outbox worker of
`OperationDispatch` again, for the other kind of event: the two kinds share the
loop and the claim, and no row. `ManualRunPlan` says which work items the one step
`CreateManualRun` of `StandardizationRun` may make, and sees the workers from
outside, by the watermarks they commit. `ConnectionSecrets` is what lies behind the
status that `ConnectorSync` lets change freely, and `PublicationStatus` begins
where `ResultCommit` of `OperationDispatch` ends.

### How a module corresponds to the code

A transaction is one action as long as nothing else can come between its
statements. Where something can, because it waits for a row lock, calls a
service, or read before and writes later, it is several, with the process's
place in a record (`ctl`, `handler`, `session`, `outbox`). Row locks are not
variables: they follow from these places (`RunLocked`, `CheckpointLocked`,
`WorkspaceLocked`, `Locked`). Queues are sets: SQS repeats and reorders messages,
and a message is removed only when its handler has succeeded. A definition whose
comment begins "Slip:" is a plausible error of the code; no action uses it, and
`PROJECT.json` names the property that notices it.

**StandardizationRun.** `run`, `ckpt` and `event` are the three tables, `ctl`
the outbox workers, `handler` the result workers, `tasks` the attempts in the
hands of the external ECS worker. The outbox loop is
`ReconcileSelect`/`ReconcileRepair`/`ReconcileSettle` (first branch of
`reconcile_partition_once`: the lock of the row, the repair with the aggregate, and
the commit, between which results may arrive), `ReconcileSelectRun`/`ReconcileFinalize` (second),
then `OutboxClaim`/`OutboxPublish`/`OutboxMark`. The deadlock between the two
lock orders is an action, `BreakDeadlock`, as PostgreSQL resolves it. Time is
not modelled: a RUNNING row may be stale at any moment and a claimed event may be
claimed again at any moment, which covers every choice of the time limits.

**ConnectorSync.** A `session` is a request or a message; it reads in its first
step and commits in a later one. The ORM writes only the columns that differ
from what was read (`Flush`). `materialize_sync_run` is `RunNow` or
`ReceiveOccurrence` (read dataset and mapping), then, with the workspace lock,
one of `Refuse`, `Replay`, `Overlap`, `Admit`, and `InsertRun`, its commit.
`Abort` is any exception or crash. An operation is named by its idempotency key.
Left out of the data: the bodies of mappings and requests (a mapping has its
entity, a request is a value), sync mode and cursors, the registration of the
source system (`service.py:835-863`; its failure is an `Abort`) and the ids of
the landing, ingestion and stitching rows, which are inserted by the same commit.
That a caller's Idempotency-Key is never the `schedule:...` key of an occurrence
(`NamesAssumption`) is an assumption about callers: no code keeps one from sending it.

**OperationDispatch.** `op`, `run`, `preview` and `event` are columns of the
rows; `outbox` and `handler` the workers; `FastClaim`, `LeaseExpires`,
`FastFinish` and the `Legacy...` actions are the two external consumers as
README.md ("To roll back fast routing safely") and migration 004 describe them.
The two dispatch queues are one set: during the switch either consumer may get a
fast operation. The five active statuses of a run are one.

**ScheduleSync.** The `row` of one schedule, its outbox rows (`event`, by
deduplication key, and `log`, the order of `created_at`) and `aws`, the schedule
in EventBridge. A request is `UpsertSchedule` or `ControlSchedule` (read) and
`RequestCommit`, which writes the columns that differ from what was read or fails
on a unique key (`Refused`). The worker is `Claim`, `ReadRow`, then `SyncUpsert`
(`create_schedule`, or `update_schedule` after a conflict) or `SyncGet` and
`SyncUpdate`, then `SyncCommit`. `SyncFails` is any exception, `WorkerRestart` a
crash; an event that was claimed or has failed is available again at any later
moment, which covers every back-off. Cron expression, timezone and date bounds
are one value, the timing. `log` is in the order of the commits. `created_at` is the
clock of an API process at the insert of the event (`model.py:432`); every request
changes the schedule's revision, the ORM writes that update before the insert, and
the row stays locked from there to the commit, so the two orders are the same as
long as the clocks of the API hosts agree, which the model assumes.

**OperationLife.** The specification behind `OperationDispatch`: an operation is
accepted, sent, begun and ended once, its run moves with it, and rows of a preview
appear with a success, expire, and are never replaced. `Life` in
`OperationDispatch` hides leases, events, queues, workers and locks;
`ImplementsLife` is the refinement.

**ConnectionSecrets.** `row` is the table, `secret` the store, `creator` the
request that creates each connection (named by the fresh uuid it makes), `session`
the requests that change one. A call of the store is a step of its own: it fails
with or without effect, and so does the commit. `CleanUp` is the error path of
`create_connection`. The worker that tests a connection is external: `TestBegin`
reads the stored credentials, `TestEnd` writes READY or ERROR later. The variables
`orphan`, `lost` and `raced` record faults for the properties and guard nothing
(`orphan` only those faults that leave a secret behind).
The creator's checks and its flush are two steps, as another request may insert
the same name or source code in between (`Taken`, `Waits`).

**ManualRunPlan.** `Discover` is the inventory, read before the transaction. The
transaction takes the advisory lock first, so all that follows up to its commit
could be one step; it is two, `Plan` and `PlanCommit`, with the lock held in
between, so that a slip in the lock shows. The documents of a part (a source index
with a stream) are numbered in the order in which the source database sorts their
cursor; `documents` are those that are visible, `watermark` is `committed_cursor`,
`done` what workers have certainly standardized. Documents arrive in any order
(`Ingest`): a baseline is sorted by a textual id, and ingest ids are given out before
their transactions commit. `late` records, for the property only, the documents that
became visible where a plan or a worker had already been. The cutoffs are the
`max()` of the inventory (`IsLast`); whether a part has work is decided by Python
(`service.py:327`), whose order of two different texts need not be the collation of
the database, so for the parts in `Textual` both outcomes are possible
(`MayHaveWork`, `MayHaveNone`). The scopes of a rolling migration
(`legacy_scope_enabled`) are off, and a run without a workspace, which only older
data has, may be there at the start (`LeftOver`).

**PublicationStatus.** `operation` and `run` are the rows of the control plane,
`ingested` and `attempts` the tables of the pipeline under the view
`customer_publication_status`, which the tests of the repository create. `ViewRow`
is that view, `EffectiveStitching`, `ScopedStatus` and `Projected` the SQL of
`repository.py:72-103`, `GetRun`, `GetOperation` and `SuccessfulRecords` its three
users. CANCELLED is like FAILED. An ingestion may fail and be begun again; a job may
also be VALIDATING or have a status unknown to the view (STITCHING_UNKNOWN).

**IntakeMapping.** A name of a column is a sequence (`"a #2"` is `<<"a", 2>>`), a
cell is known by what reading it gives: nothing, a value, nothing after a
transform, or an error. `validate_mapping`, `referenced_paths` and the values are
operators; registering a file, accepting a mapping, and projecting a row one
projection at a time are actions, since the cache of derived keys lives as long as
a row. Of the entity tables CUSTOMER and EVENT are kept, with a field of each kind;
an item of a pack is a constant, a column with transforms, or a plain column.

## 3. Runs

| run | question | bounds | distinct states |
|---|---|---|---|
| `standardization_run` | do the rows stay consistent, and is no dispatch lost? | 1 run, 2 work items, 1 outbox and 1 result worker, 2 attempts, 2 messages or tasks at a time | 2.1 M |
| `standardization_ends` | does every run end? | 1 run, 2 items, 1 attempt | 85 k |
| `standardization_retry` (violation) | is a failed item always dispatched again? | 2 items, 3 attempts, up to the first retry | 15 k |
| `manual_run_plan` | do clicks, keys and failures make the runs they should, and is no document passed over? | 2 workspaces, 2 callers, 1 key, a baseline of 2 documents and a stream of 1, arriving in any order, 2 runs | 1.0 M |
| `sync_admission` | is one run admitted at a time, and does every key get its answer? | 2 callers, 2 occurrence workers, 1 dataset, 2 occurrences, 2 different requests, 1 reused key | 1.3 M |
| `sync_mapping` | do mappings, entities, apps and runs fit, and is every occurrence decided? | 1 caller, 1 occurrence worker, 2 mappings, 2 entities, 2 apps | 359 k |
| `mapping_race` (violation) | does the active mapping fit with two callers? | 2 callers, 1 mapping, 2 entities | 10 k |
| `operation_dispatch` | is a dispatch ever lost, does a client see what `OperationLife` says, does every operation end? | 1 fast operation, 1 sync, 1 outbox worker, 2 result workers, either consumer | 72 k |
| `schedule_sync` | do row and EventBridge agree, does the last change decide, is every change applied? | 2 timings, 2 callers, 1 worker, revisions up to 2 | 217 k |
| `connection_secrets` | do secrets and connections stay together, and is READY true? | 2 connections, 1 name, 1 source code, 2 credentials, 2 callers | 475 k |
| `publication_status` | is COMPLETED only said of what was published, and is a failure shown? | 1 run, 3 attempts at its batch | 512 k |
| `intake_mapping` | does a mapping do what it was accepted for, whatever the file? | files of 2 or 3 columns, mappings of 1 or 2 projections and 1 derived key with every kind of value | 45 k |

Why these are enough: the interesting conflicts are between two processes over
one row, so an outbox and a result worker on one run, two work items of it, two
result workers or two callers on one dataset or connection exhibit them; two
attempts are the smallest budget with a retry and an exhausted row. A second
workspace (of syncs) or standardization dataset shares nothing with the first but
the loops. `MaxInFlight` bounds messages and tasks together and is a state
constraint of two instances only, not of the specification; the liveness run
states it but does not need a constraint.

`standardization_ends` has two items, so that each may miss the other's end and an
exhausted row be found again and again, and one attempt, since two make more than
20 million states; that a retry cannot get lost is `NoLostDispatch`.
`schedule_sync` has one outbox worker, as README.md:285-286 of the repository
tells to start with; see section 4 for two. Two revisions are enough for a request
to read what another is about to overwrite, to collide with it on a key, and for
an event that fails to be overtaken. `standardization_run` has one outbox and one
result worker, `operation_dispatch` one outbox worker; more of either are covered
by the proofs (section 5), except for the liveness.
In `manual_run_plan` two documents let an inventory be older than a watermark and a
document arrive below the last one, `Source` bounds what the parts may come to
hold, and two runs are enough for a run to be planned while a worker of a failed one
goes on. `sync_admission` sends its key again with the same request, with another one
and for a run; other datasets appear only in the proof of `AnswersMatch`.
`publication_status` has one run: that the list adds up over several is shown by the
proof of `TheListAgrees`.
Three attempts in `publication_status` let an older and a newer one disagree about
the one between. Two connections in `connection_secrets` compete for one name and
one source code; two callers update and change one of them while it is tested.

`TypeOK` of `StandardizationRun`, `OperationDispatch` and `ScheduleSync` is in no
run: it is proved (section 5).

Deadlock checking is off where a system without further input may stop
(all modules but `StandardizationRun` and `IntakeMapping`): when every operation
has ended and every message is gone nothing more need happen.

### Fairness

`StandardizationRun!Fairness`: the loop of the outbox worker goes on after every
iteration (`workers/standardization.py:530-538`), both its SELECTs order their
rows by time and a repair moves a row to the end (`updated_at = now()`), so an
eligible row is not passed over for ever; a dispatch that can be claimed is,
PostgreSQL grants locks in turn and breaks deadlocks, and failures are finitely
many. Nothing is assumed about the end of a worker's task or the arrival of its
result: the runs end through the reconciler alone.

`ConnectorSync!Fairness` with `CrashesEnd`: the queue loop goes on after an
exception (`workers/connectors.py:395-399`) and SQS delivers again (strong
fairness, since other sessions may take the lock or decide first); whoever holds
the lock commits or rolls back; handlers do not crash for ever. The property is
conditional on the dataset becoming and staying ready to sync.

`OperationDispatch!Fairness`: failures (`Failure`: a publication or a result
transaction that fails, a restart, a lease that expires, a message delivered again
after it was handled) are finitely many; the outbox loop goes on and does not wait
for a row lock for ever, the result loop receives every message until it is
deleted and commits, and the external consumers take what is in their queue and
finish in the end. That their results arrive in the end is therefore an assumption:
an operation whose result is lost for good never ends (a hazard in `PROJECT.json`).

`ScheduleSync!Fairness`: the loop of the worker goes on; an event that is refused
backs off for at most five minutes (`workers/connectors.py:287-291`), so the event
that creates the schedule is not passed over for ever. From some time on the worker
is not stopped and EventBridge answers, except that it refuses to pause or resume a
schedule it does not have.

The other modules state safety only and assume no fairness.

## 4. What the checks show

All properties of the passing runs hold, and each is violated when a plausible
slip is put into the code it is about. Two runs show that the code does not do
what it or its documentation says:

* `standardization_retry`: "failed or stale running checkpoints are dispatched
  again up to three worker attempts" (README.md:241-243). A checkpoint that a
  worker has just marked FAILED counts as finished
  (`workers/standardization.py:286-313`), so the result of another work item can
  end the run as FAILED in between; if the message of the failed one is lost it
  is never dispatched again, because the reconciler looks at active runs only.
* `mapping_race`: "the old mapping belongs to another contract"
  (`service.py:494`). `update_dataset` and `publish_mapping` check what they
  read and then write, without a lock, only the columns they change; overlapping,
  they leave the new target entity with a mapping of the old one. With one
  caller at a time the property holds (`sync_mapping`).

A few results are less obvious than they look. `OverlapIsFoundEarly`: the lock
of the workspace makes the partial unique index of active runs redundant; no
insert is ever refused by it. `RunMappingIsSupported`: although the dataset is
read before the lock, a run never has an unsupported mapping, because mappings
are immutable and the pair read was consistent, as long as no two callers change the
dataset at a time (the one caller of `sync_mapping`; with two it fails on the
instance of `mapping_race`); it may, however, have one that is no longer active.

`RunEnds`: a result and a repair can each see the other's checkpoint as unfinished, so
that neither ends the run. A row that was repaired to FAILED is then found again by
the first branch of the reconciler, which comes to see all rows finished; the second
branch is needed when a worker has written COMPLETE, its result message is lost, and
no row is left to repair. That FAILED rows are found again holds only while the run is
active, which is why `standardization_retry` fails all the same.

`SettledRowIsTrue` survives failures, crashes, overlapping requests and events
applied out of order, because the one worker writes the status of the event it
has just applied and the timing it read. With two outbox workers it does not
hold: they can call EventBridge in one order and commit in the other. Nothing in
the repository promises it for replicas, so it is listed as a hazard and not as a
finding. `LastRequestWins` is conditional for a reason: a failed pause that is
tried again after a newer resume wins, as revisions are not compared.

`ReadyIsTested` has its exceptions for a reason too: `update_credentials` stores the
new credentials first and resets the status afterwards, and the ORM does not write
the reset when the row read was DRAFT already. A test that overlaps the update can
therefore leave a connection READY with credentials nobody tested; so can an update
that stops between store and commit. `StoredSecretHasOwner` and `DatabaseHasSecret`
name what the clean-up of `create_connection` cannot know: a creator that dies after
it has stored, a clean-up that fails, and a commit whose answer is lost, after which the error path
deletes the secret of a connection that exists. No text of the repository promises
more. Though the schemas say that an upload takes no credentials
(`schemas.py:138`), `update_credentials` does not look at the engine: a file_upload
connection, READY from its creation, gets a secret and goes back to DRAFT.

`WatermarkIsEarned` holds although the inventory is read before the lock and workers
of a failed run go on: a plan starts at the committed watermark or behind it, and a
late worker that moves the watermark back only makes work be done again. It does not
cover a document in `late`, one that became visible below a watermark or behind a
worker: `has_work` compares cutoffs, so no later plan goes back for it. Without that
exception TLC finds such a document at once; no text of the repository says whether
a source may do this, so it is listed with the hazard and not as a finding. `AnswerIsOwn` rests on the claim of a dataset
by its first run, and on the refusal to adopt a run without a workspace.

`CompletedIsPublished` and `FailureIsShown` are the sentences of README.md,
"Customer publication status cutover", over every order of result, ingestion (which
may fail and begin again), retries and transfer. `ListAgrees`: the list reads runs, GET operation reads
operations, and both count a run as successful at the same moment, even if its
result has not arrived yet.

`VerdictIsOfRow` holds for files whose header differs from the snapshot: columns that
are missing read as empty, further ones are not read. Things met on the way that no
property covers: a header that is literally `a #2` hides the second column `a`
(`engine.py:45`); the rules that a key is no constant (76) and that a pack fills JSON
fields only (79) are not applied inside a coalesce, and a template without a
placeholder is a constant; a projection without a name, or a malformed pack inside a
coalesce, passes `validate_mapping` and is refused by `project` with a KeyError.

## 5. What is proved

Every invariant and every action property that a passing run checks, and the
refinement, are theorems: TLC shows them on the instances of section 3, TLAPS for
every value of the constants. What is left to TLC is liveness (`RunEnds`,
`OccurrenceIsDecided`, `EveryOperationEnds`, `EveryRequestIsApplied`), which is out
of the prover's reach, and the two runs that expect a violation.

Each proof follows one argument: an inductive invariant holds initially, every action
keeps it (one lemma per action or group of actions), and it implies the properties. What the
properties alone lack, and the invariant therefore adds, is said below.

### Assumptions

Each module names its assumptions, and TLC evaluates them on every run.

* `MaxAttemptsAssumption` (`StandardizationRun`): the budget is a positive number.
* `TypesAssumption` (`OperationDispatch`): no operation is both fast and a sync.
* `BoundAssumption` (`ManualRunPlan`, `PublicationStatus`) and `MaxRevisionAssumption`
  (`ScheduleSync`): the bounds of the models are numbers.
* `SourceAssumption`, `TextualAssumption` (`ManualRunPlan`): the types of these two.
* `NullAssumption` (every module with a NULL): NULL is none of the values it stands in
  for and, in `PublicationStatus`, no status of a transfer. Without the second half "no transfer yet"
  could be the value of a published one; the proof asked for it.
* `CustomerAssumption`, `GenericAssumption`, `DatasetOfAssumption`, `NamesAssumption`
  (`ConnectorSync`): CUSTOMER is an entity, whether others can be synced is a flag,
  each occurrence is of one dataset, keys of callers are no occurrences (which
  callers must keep to, see section 2), and no caller is an occurrence worker.
* `MappingAssumption` (`IntakeMapping`): what the abstraction of the JSON keeps, that
  projections are a list and each field has one of the `VALUE_SOURCES` of
  `engine.py:29`, as line 72 checks.

Four theorems have a hypothesis on the behaviour, as the code keeps their properties
under it only; both say what a row lock that the code does not take would give.

* `ChangesApart`: no two callers are between read and commit of the same dataset. With
  two, `mapping_race` shows `ActiveMappingFits` violated, and `RunMappingIsSupported`
  fails on the same instance. It holds with a single caller (`OneCallerIsApart`).
* `OneAtATime`: no two outbox workers are between claim and commit of an event of the
  schedule. With two workers in `MCScheduleSync.cfg`, TLC finds both `SettledRowIsTrue`
  and `LastRequestWins` violated. It holds with the one replica that README.md:285-286
  of the repository tells to start with (`OneReplicaIsEnough`).

### Standardization

`StandardizationRunProofs`, for any number of runs, work items, workers and attempts:
`TypeCorrect`, `SuccessCorrect`, `WarningsCorrect`, `DispatchCorrect`,
`BudgetCorrect`, and the action properties `OutcomeCorrect` and `CompleteCorrect`.
`IInv` adds

* `LocksExclusive`, `RepairHolds`: a checkpoint lock has one holder, and the row it
  is repairing stays FAILED or RUNNING until it commits, so the repair it computes
  at the commit is the one its verdict was computed from;
* `SettleFails`: a repair never ends a run as succeeded, since the repaired row
  itself is PENDING or FAILED. With it `SuccessIsComplete` needs no argument about
  stale aggregates: success is only ever written under the lock of the run by
  someone who sees all rows COMPLETE, and COMPLETE rows stay so;
* `EventOrder`, `Published`, `NextAttemptCarried`: the event of attempt k exists
  only when attempt k-1 is over, so the conflict on the deduplication key never
  swallows the event a PENDING row needs; what is marked PROCESSED has been
  published, and the message is there unless its attempt has been claimed. The
  row's *next* attempt is therefore always carried by something, which is
  stronger than `NoLostDispatch`;
* `Known`: rows, tasks and messages belong to runs that exist.

`ManualRunPlanProofs`, for any number of workspaces, keys, callers, parts, runs and
documents: `TypeCorrect`, `InsertNeverRefused`, `KeyMakesOneRun`, `AnswersAreOwn`,
`WatermarksAreEarned`.

* `PlanHoldsLock`: what a request has found under the advisory lock (no active run,
  nobody else's claim, no run with its key) is true until its commit, since workers
  make no run active and whoever else plans must take the lock;
* `OwnerIsRunOwner`, `LeftOverHasNoKey`, `AnswerExists`: the dataset belongs to the
  owner of any of its runs, and a run without a workspace has no key by which
  anyone could be given it;
* `WorkIsEarned`: up to the start of every piece of work that is not at its end, of a run
  or of a plan not yet committed, all documents but the late ones have been done. `WatermarkIsEarned` is not inductive
  without it: a worker that finishes a piece adds what lies between its start and its
  cutoff, and this leaves no gap only if there was none before the start.

### Connector service

`ConnectorSyncProofs`, for any number of datasets, mappings, callers, handlers, keys
and occurrences: `TypeCorrect`, `OverlapsAreFoundEarly`, `OccurrencesMatchRuns`,
`AnswersMatch`, `AppsAgree`, and the action property `DecisionsAreFinal`.

* `PlansAreOwn`, `PublishingExists`: even the types need that the plan of a handler is
  one for its occurrence and that a mapping being published exists;
* `LockIsHeld`: the workspace row has one holder and keeps the app it has read. All
  of `OverlapsAreFoundEarly`, `AppsAgree` and `AnswersMatch` hang on it: what was
  looked up after the lock is what is committed against;
* `WorkedOnIsUndecided`: an occurrence that a handler works on has no committed row, and
  no second handler works on it, as the row is inserted before anything else and the
  unique key makes the second wait. The action property rests on it.

As long as `ChangesApart` holds, `MappingsFit` and `RunMappingsAreSupported`, for any
number of callers and handlers. `SeenIsCurrent` says that between read and commit of a caller
nobody changes what it has read; `PlanMappingIsSupported`, that a plan made before the lock has
a mapping that is published, and stays so, though another may be active by then.

`ConnectionSecretsProofs`, for any number of connections, callers, names and
credentials: `TypeCorrect`, `SecretsHaveOwners`, `DatabasesHaveSecrets`,
`ReadyMeansTested`.

* `CreatorInv`: the request that creates a connection stores credentials of a database
  only, before the row exists, and comes to delete them after the row exists only
  if the answer of its commit was lost;
* `OnRows`, `ChangeInv`: requests and tests are about rows that exist, and
  `update_connection` writes READY only where it has read it;
* `TestIsCurrent`, `SeenReady`: outside of the two windows (`lost`, `raced`) a
  running test has the stored credentials, and an update has read READY if the row
  says READY, so that the ORM does write the reset. `ReadyIsTested` is not
  inductive without either: the end of a test and the commit of an update break it.

`PublicationStatusProofs`, for any number of runs and attempts: `TypeCorrect`,
`CompletedMeansPublished`, `FailuresAreShown`, `TheListAgrees`. The first needs no
history: the SQL of the projection gives COMPLETED for no other rows of the view
(`OverallMeans`, `ProjectedMeans`), whatever the order of events was. The other two
need `OutcomesAgree`: an operation has an outcome exactly when its run has it.
`FailuresAreShown` also needs `NothingStitched`: as long as ingestion has not ended well
the jobs of a batch are as they were created, and no transfer can hide its failure.

`IntakeMappingProofs`, for any files and any mappings: `TypeCorrect`,
`VerdictsAreOfTheRow`, `OptionalsNeverLoseRows`. The core is a frame lemma about
the projector, `VerdictAgrees`: two rows that agree on the cells of the conditions, of
the keys used and of the fields give the same verdict, and of the optional fields
only the cells count that can be read. It is proved from one lemma for each kind of value
(`TemplateAgrees`, `PackAgrees`, `OptionAgrees`, ...). The invariant `CacheIsOfRow` says
that the cache holds keys of the row at hand only, which gives `VerdictIsExact`: projecting
with the cache is projecting without. `MappingFits` carries what `validate_mapping`
and `referenced_paths` have checked to the rows projected later.

### Workers

`OperationDispatchProofs`, for any number of operations and replicas: `TypeCorrect`,
`DispatchCorrect`, `LeaseCorrect`, `RunCorrect`, and the action properties
`StatusCorrect` and `PreviewCorrect`.

* `LocksExclusive`, `AcceptedStands`: with FOR UPDATE, what a result worker found
  out about the row still holds when it commits; hence no second outcome, and no
  end under a lease;
* `MarkIsBacked`: a worker about to mark an event PROCESSED has a message behind
  it unless the operation has moved on; without it `NoLostDispatch` is not
  inductive, since marking gives up the event;
* `Known`, `MessagesExist`: events, messages and results are about operations that
  exist; `SyncHasNoLease`, `PreviewIsOutcome`: the two facts that keep the fast
  worker away from syncs and a late result away from an expired preview.

`LifeImplemented` proves the refinement, `Spec => ImplementsLife`: the initial states
map to initial states, and each action to the step of `OperationLife` that clients
see of it (`Create` to `Accept`, `Mark` to `Send` or to nothing, a claim to `Begin`
or, after an expired lease, to nothing, `FastFinish` and an accepted `ResultCommit`
to `End`, `Cleanup` to `Expire`) or to a stutter. It needs the invariant for one
thing above all: that what a result worker accepted still stands when it commits.

`ScheduleSyncProofs` proves `TypeCorrect` and `PendingCorrect` for any number of
callers, workers and requests. `PendingIsBacked` alone is not inductive: the last
outstanding event might be held by a worker that read another status and
therefore writes none. `PendingIsSeen` strengthens it: among the outstanding
events there is one whose workers all read PENDING_SYNC, because a request that
makes the row PENDING_SYNC inserts an event no worker has yet.

As long as `OneAtATime` holds, for any number of callers, workers and requests,
`SettledCorrect` and `LastRequestCorrect`:

* `SeenInv`: if the row differs from what the worker has read, the request that changed it
  left another event outstanding, and one that copies the timing if it is the
  timing that differs. This is why a worker may write the status of an old event;
* `CopyIsDue`: EventBridge has the timing of the row, or an upsert is outstanding and not
  yet at its commit. It holds because a pause or resume writes no timing (`SessionInv`),
  and fails with two workers at a time, whose calls and commits cross;
* `LogInv`, `LastInv`: events are claimed in the order in which they were inserted as
  long as none is tried twice, so that once the last is claimed the worker is at no other.

## 6. Not modelled

* *Pure I/O*: configuration, engine and pool, cache client, health, secrets at
  start-up, logging, routers, migrations as operations, deployment scripts.
* *Validation of single requests* (Pydantic schemas): the models start from
  requests that have been accepted.
* *Value transforms* of the mapping engine: formatting of strings and numbers, and
  exceptions of a transform other than `TransformError` (`transforms.py:176` replaces
  the year of a date, which a leap day refuses with a ValueError);
  RELATIONSHIP records with their derived id; payloads of the wrong JSON shape.
* *Rolling migration* of standardization (`legacy_scope_enabled`), which narrows every
  query to the runs of one scope.
* *A second standardization dataset*: one whose run has an exhausted row keeps the
  second branch of the reconciler (`workers/standardization.py:457`) from the runs of
  others until that run ends, which `RunEnds` says it does.
* *External systems*: the ECS worker, the fast worker, Step Functions,
  EventBridge and SQS appear only as far as the code relies on them.

## 7. Plan

1. Done: all components of section 2 modelled and checked, and every safety property
   and the refinement proved.
2. The life of a run, as a client polling it sees it, implemented by
   `StandardizationRun`.
3. More action properties: a settled watermark moves back only by a late worker, a
   connection leaves READY only by an update or a failed test.
