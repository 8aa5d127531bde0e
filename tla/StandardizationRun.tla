------------------------- MODULE StandardizationRun -------------------------
(***************************************************************************)
(* The life of the standardization runs of one dataset: the rows of        *)
(* control.standardization_run, standardization_checkpoint and             *)
(* standardization_outbox_event, and the processes that change them.       *)
(*                                                                         *)
(*   Controllers  app/workers/standardization.py in mode "outbox": a loop  *)
(*                that reconciles one checkpoint or run, then dispatches   *)
(*                one outbox event;                                        *)
(*   Handlers     the same file in mode "result": one result message at a  *)
(*                time;                                                    *)
(*   ECS workers  external: they claim a dispatched checkpoint, write its  *)
(*                outcome and send a result message.                       *)
(*                                                                         *)
(* A database transaction that can be interleaved with another one is      *)
(* several actions: it takes its row lock in the first, and its writes     *)
(* appear at once in the last, the commit.  The row locks are not          *)
(* variables; they follow from where each process is (RunLocked and        *)
(* CheckpointLocked).                                                      *)
(***************************************************************************)
EXTENDS Naturals

CONSTANTS
    Runs,         \* run ids of the dataset
    Parts,        \* work items: a source index with a stream kind
    Controllers,  \* replicas of the outbox worker
    Handlers,     \* replicas of the result worker
    MaxAttempts   \* 3 in the code

ASSUME MaxAttemptsAssumption == MaxAttempts \in Nat \ {0}

VARIABLES
    run,        \* run_status of each run, "NONE" while there is no row
    ckpt,       \* the checkpoint row of each run and part
    event,      \* status of the outbox event of each run, part and key
    ctl,        \* where each controller is in its loop
    handler,    \* the message whose transaction each handler is in
    dispatchQ,  \* messages in the dispatch queue
    resultQ,    \* messages in the result queue
    tasks       \* attempts an ECS worker has claimed and not finished

vars == <<run, ckpt, event, ctl, handler, dispatchQ, resultQ, tasks>>

-----------------------------------------------------------------------------
Active == {"PENDING", "RUNNING"}
Succeeded == {"SUCCEEDED", "SUCCEEDED_WITH_WARNINGS"}
RunStatus == {"NONE", "FAILED"} \cup Active \cup Succeeded

\* attempt counts worker claims; warned says that rejected_record_count or
\* quarantined_record_count is positive.
Checkpoint == [status : {"NONE", "PENDING", "RUNNING", "COMPLETE", "FAILED"},
               attempt : 0 .. MaxAttempts,
               warned : BOOLEAN]

\* deduplication_key: 1 stands for "standardize:run:part", k > 1 for
\* "standardize-retry:run:part:k".
Keys == 1 .. MaxAttempts

EventStatus == {"NONE", "PENDING", "PROCESSING", "FAILED", "PROCESSED"}
Dispatchable == {"PENDING", "FAILED", "PROCESSING"}

\* A task is one attempt in the hands of a worker.
Task == [run : Runs, part : Parts, attempt : Keys]
Dispatch == [run : Runs, part : Parts]
Result == [run : Runs, part : Parts,
           status : {"SUCCEEDED", "FAILED"}, warned : BOOLEAN]

ControllerState ==
    [pc : {"reconcile", "outbox"}]
      \cup [pc : {"repair"}, run : Runs, part : Parts]
      \cup [pc : {"settle"}, run : Runs, part : Parts, verdict : RunStatus]
      \cup [pc : {"finalize"}, run : Runs]
      \cup [pc : {"publish", "mark"}, run : Runs, part : Parts, key : Keys]

HandlerState == [pc : {"idle"}] \cup [pc : {"locked"}, msg : Result]

TypeOK ==
    /\ run \in [Runs -> RunStatus]
    /\ ckpt \in [Runs -> [Parts -> Checkpoint]]
    /\ event \in [Runs -> [Parts -> [Keys -> EventStatus]]]
    /\ ctl \in [Controllers -> ControllerState]
    /\ handler \in [Handlers -> HandlerState]
    /\ dispatchQ \subseteq Dispatch
    /\ resultQ \subseteq Result
    /\ tasks \subseteq Task

-----------------------------------------------------------------------------
(* Rows, locks and the decisions the transactions take from them.          *)

NoCheckpoint == [status |-> "NONE", attempt |-> 0, warned |-> FALSE]
NewCheckpoint == [status |-> "PENDING", attempt |-> 0, warned |-> FALSE]

\* FOR UPDATE OF run, held to the end of the transaction.
RunLocked(r) ==
    \/ \E h \in Handlers : handler[h].pc = "locked" /\ handler[h].msg.run = r
    \/ \E c \in Controllers : ctl[c].pc = "finalize" /\ ctl[c].run = r

Holds(c, r, p) ==
    ctl[c].pc \in {"repair", "settle"} /\ ctl[c].run = r /\ ctl[c].part = p

\* FOR UPDATE OF checkpoint.
CheckpointLocked(r, p) == \E c \in Controllers : Holds(c, r, p)

\* Slip: one attempt too many.
RetryOrFailOffByOne(row) ==
    [row EXCEPT !.status = IF row.attempt <= MaxAttempts THEN "PENDING" ELSE "FAILED"]

\* A failed or stale attempt goes back to PENDING while attempts are left.
RetryOrFail(row) ==
    [row EXCEPT !.status = IF row.attempt < MaxAttempts THEN "PENDING" ELSE "FAILED"]

\* INSERT ... ON CONFLICT (deduplication_key) DO NOTHING.
Enqueue(events, r, p, k) ==
    IF events[r][p][k] = "NONE" THEN [events EXCEPT ![r][p][k] = "PENDING"] ELSE events

\* Slip: a retry with the deduplication key of the first dispatch.
RetryEventSameKey(r, p) ==
    IF ckpt[r][p].attempt < MaxAttempts THEN Enqueue(event, r, p, 1) ELSE event

RetryEvent(r, p) ==
    IF ckpt[r][p].attempt < MaxAttempts
    THEN Enqueue(event, r, p, ckpt[r][p].attempt + 1)
    ELSE event

\* Slip: checkpoints put back to PENDING are not counted as active.
VerdictOfRunning(rows) ==
    IF \E p \in Parts : rows[p].status = "RUNNING" THEN "RUNNING"
    ELSE IF \E p \in Parts : rows[p].status = "FAILED" THEN "FAILED"
    ELSE IF \E p \in Parts : rows[p].warned THEN "SUCCEEDED_WITH_WARNINGS"
    ELSE "SUCCEEDED"

\* The aggregate of _finalize_run_if_terminal over the rows of a run:
\* "RUNNING" when a checkpoint is still to be worked on, else the status
\* the run ends with.
Verdict(rows) ==
    IF \E p \in Parts : rows[p].status \in Active THEN "RUNNING"
    ELSE IF \E p \in Parts : rows[p].status = "FAILED" THEN "FAILED"
    ELSE IF \E p \in Parts : rows[p].warned THEN "SUCCEEDED_WITH_WARNINGS"
    ELSE "SUCCEEDED"

\* Slip: the UPDATE without its test of run_status.
FinalizeAlways(r, verdict) ==
    run' = IF verdict # "RUNNING" THEN [run EXCEPT ![r] = verdict] ELSE run

\* UPDATE control.standardization_run ... WHERE run_status IN (active).
Finalize(r, verdict) ==
    run' = IF run[r] \in Active /\ verdict # "RUNNING"
           THEN [run EXCEPT ![r] = verdict] ELSE run
-----------------------------------------------------------------------------
Init ==
    /\ run = [r \in Runs |-> "NONE"]
    /\ ckpt = [r \in Runs |-> [p \in Parts |-> NoCheckpoint]]
    /\ event = [r \in Runs |-> [p \in Parts |-> [k \in Keys |-> "NONE"]]]
    /\ ctl = [c \in Controllers |-> [pc |-> "reconcile"]]
    /\ handler = [h \in Handlers |-> [pc |-> "idle"]]
    /\ dispatchQ = {}
    /\ resultQ = {}
    /\ tasks = {}

\* create_manual_run, serialised per dataset by its advisory lock: with a run
\* active it changes nothing; else it writes the run, a checkpoint and an
\* event for every part that has work, and a run without work has succeeded.
\* Which parts have work (watermark behind cutoff) is an input.
CreateManualRun(r, work) ==
    /\ run[r] = "NONE"
    /\ \A s \in Runs : run[s] \notin Active
    /\ run' = [run EXCEPT ![r] = IF work = {} THEN "SUCCEEDED" ELSE "PENDING"]
    /\ ckpt' = [ckpt EXCEPT ![r] =
                  [p \in Parts |-> IF p \in work THEN NewCheckpoint ELSE NoCheckpoint]]
    /\ event' = [event EXCEPT ![r] =
                   [p \in Parts |-> [k \in Keys |->
                      IF p \in work /\ k = 1 THEN "PENDING" ELSE "NONE"]]]
    /\ UNCHANGED <<ctl, handler, dispatchQ, resultQ, tasks>>

-----------------------------------------------------------------------------
(* Mode "outbox": reconcile_partition_once, then process_outbox_once.      *)

\* Slip: stale RUNNING rows are left to their workers.
RepairableFailed(r, p) ==
    /\ run[r] \in Active
    /\ ckpt[r][p].status = "FAILED"
    /\ ~CheckpointLocked(r, p)

\* The rows the first SELECT may return.  A RUNNING row qualifies once it has
\* not been touched for stale_seconds; the worker behind it may be dead or slow.
Repairable(r, p) ==
    /\ run[r] \in Active
    /\ ckpt[r][p].status \in {"FAILED", "RUNNING"}
    /\ ~CheckpointLocked(r, p)

ReconcileSelect(c, r, p) ==
    /\ ctl[c].pc = "reconcile"
    /\ Repairable(r, p)
    /\ ctl' = [ctl EXCEPT ![c] = [pc |-> "repair", run |-> r, part |-> p]]
    /\ UNCHANGED <<run, ckpt, event, handler, dispatchQ, resultQ, tasks>>

\* The aggregate sees this transaction's own repair and what others have
\* committed, not what they commit before this transaction does.
ReconcileRepair(c) ==
    LET r == ctl[c].run
        p == ctl[c].part
        rows == [ckpt[r] EXCEPT ![p] = RetryOrFail(@)]
    IN  /\ ctl[c].pc = "repair"
        /\ ctl' = [ctl EXCEPT ![c] = [pc |-> "settle", run |-> r, part |-> p,
                                     verdict |-> Verdict(rows)]]
        /\ UNCHANGED <<run, ckpt, event, handler, dispatchQ, resultQ, tasks>>

\* The UPDATE of a run that is over waits for its row lock and checks run_status
\* again; with work left the run is not touched.  The commit makes the repair
\* and the run status visible together.
ReconcileSettle(c) ==
    LET r == ctl[c].run
        p == ctl[c].part
    IN  /\ ctl[c].pc = "settle"
        /\ ctl[c].verdict # "RUNNING" => ~RunLocked(r)
        /\ ckpt' = [ckpt EXCEPT ![r][p] = RetryOrFail(@)]
        /\ event' = RetryEvent(r, p)
        /\ Finalize(r, ctl[c].verdict)
        /\ ctl' = [ctl EXCEPT ![c] = [pc |-> "outbox"]]
        /\ UNCHANGED <<handler, dispatchQ, resultQ, tasks>>

\* The second SELECT: an active run with checkpoints, all of them terminal.
Finalizable(r) ==
    /\ run[r] \in Active
    /\ ~RunLocked(r)
    /\ \E p \in Parts : ckpt[r][p].status # "NONE"
    /\ \A p \in Parts : ckpt[r][p].status \notin Active

\* Reached only when the first SELECT returned nothing: every FAILED row of an
\* active run is locked by another replica.
NothingToRepair ==
    \A r \in Runs, p \in Parts :
        ckpt[r][p].status = "FAILED" => ~Repairable(r, p)

ReconcileSelectRun(c, r) ==
    /\ ctl[c].pc = "reconcile"
    /\ NothingToRepair
    /\ Finalizable(r)
    /\ ctl' = [ctl EXCEPT ![c] = [pc |-> "finalize", run |-> r]]
    /\ UNCHANGED <<run, ckpt, event, handler, dispatchQ, resultQ, tasks>>

ReconcileFinalize(c) ==
    LET r == ctl[c].run
    IN  /\ ctl[c].pc = "finalize"
        /\ Finalize(r, Verdict(ckpt[r]))
        /\ ctl' = [ctl EXCEPT ![c] = [pc |-> "outbox"]]
        /\ UNCHANGED <<ckpt, event, handler, dispatchQ, resultQ, tasks>>

ReconcileNothing(c) ==
    /\ ctl[c].pc = "reconcile"
    /\ NothingToRepair
    /\ \A r \in Runs : ~Finalizable(r)
    /\ ctl' = [ctl EXCEPT ![c] = [pc |-> "outbox"]]
    /\ UNCHANGED <<run, ckpt, event, handler, dispatchQ, resultQ, tasks>>

\* An event left PROCESSING (its controller died, or takes more than five
\* minutes) is claimed again.
OutboxClaim(c, r, p, k) ==
    /\ ctl[c].pc = "outbox"
    /\ event[r][p][k] \in Dispatchable
    /\ event' = [event EXCEPT ![r][p][k] = "PROCESSING"]
    /\ ctl' = [ctl EXCEPT ![c] = [pc |-> "publish", run |-> r, part |-> p, key |-> k]]
    /\ UNCHANGED <<run, ckpt, handler, dispatchQ, resultQ, tasks>>

\* No event is available: none is left, or those left are backing off.
OutboxNothing(c) ==
    /\ ctl[c].pc = "outbox"
    /\ ctl' = [ctl EXCEPT ![c] = [pc |-> "reconcile"]]
    /\ UNCHANGED <<run, ckpt, event, handler, dispatchQ, resultQ, tasks>>

OutboxPublish(c) ==
    /\ ctl[c].pc = "publish"
    /\ dispatchQ' = dispatchQ \cup {[run |-> ctl[c].run, part |-> ctl[c].part]}
    /\ ctl' = [ctl EXCEPT ![c].pc = "mark"]
    /\ UNCHANGED <<run, ckpt, event, handler, resultQ, tasks>>

\* send_message raised: the event waits for its back-off.
OutboxPublishFails(c) ==
    /\ ctl[c].pc = "publish"
    /\ event' = [event EXCEPT ![ctl[c].run][ctl[c].part][ctl[c].key] = "FAILED"]
    /\ ctl' = [ctl EXCEPT ![c] = [pc |-> "reconcile"]]
    /\ UNCHANGED <<run, ckpt, handler, dispatchQ, resultQ, tasks>>

\* The event is done and its run has started; the UPDATE of a PENDING run
\* waits for the row lock.
OutboxMark(c) ==
    LET r == ctl[c].run
    IN  /\ ctl[c].pc = "mark"
        /\ run[r] = "PENDING" => ~RunLocked(r)
        /\ event' = [event EXCEPT ![r][ctl[c].part][ctl[c].key] = "PROCESSED"]
        /\ run' = [run EXCEPT ![r] = IF @ = "PENDING" THEN "RUNNING" ELSE @]
        /\ ctl' = [ctl EXCEPT ![c] = [pc |-> "reconcile"]]
        /\ UNCHANGED <<ckpt, handler, dispatchQ, resultQ, tasks>>

\* The process dies in mid-transaction or before it marks an event, and is
\* started again.  What it had not committed is rolled back.  (Dying between
\* the two halves of the loop is no different from OutboxNothing.)
ControllerRestart(c) ==
    /\ ctl[c].pc \notin {"reconcile", "outbox"}
    /\ ctl' = [ctl EXCEPT ![c] = [pc |-> "reconcile"]]
    /\ UNCHANGED <<run, ckpt, event, handler, dispatchQ, resultQ, tasks>>

-----------------------------------------------------------------------------
(* Mode "result": process_result_message and the queue loop around it.     *)

ResultLockRun(h, m) ==
    /\ handler[h].pc = "idle"
    /\ m \in resultQ
    /\ ~RunLocked(m.run)
    /\ handler' = [handler EXCEPT ![h] = [pc |-> "locked", msg |-> m]]
    /\ UNCHANGED <<run, ckpt, event, ctl, dispatchQ, resultQ, tasks>>

\* Slip: the counts of the last message replace the durable ones.
SettledLastCounts(row, m) ==
    CASE m.status = "SUCCEEDED" -> [row EXCEPT !.status = "COMPLETE", !.warned = m.warned]
      [] m.status = "FAILED" /\ row.status = "FAILED" -> RetryOrFail(row)
      [] OTHER -> row

\* Slip: a failure is believed whatever the row says.
SettledByMessage(row, m) ==
    IF m.status = "SUCCEEDED" THEN [row EXCEPT !.status = "COMPLETE", !.warned = @ \/ m.warned]
    ELSE RetryOrFail(row)

\* The checkpoint as a result leaves it.  A failure counts only while the row
\* is FAILED: a late one neither undoes COMPLETE nor disturbs a retry.
Settled(row, m) ==
    CASE m.status = "SUCCEEDED" -> [row EXCEPT !.status = "COMPLETE",
                                               !.warned = @ \/ m.warned]
      [] m.status = "FAILED" /\ row.status = "FAILED" -> RetryOrFail(row)
      [] OTHER -> row

\* The rest of the transaction, once the checkpoint row is free: the row, the
\* retry event, the run.  The run stays locked throughout, so nothing that
\* others do between the aggregate and the commit can tell the two apart.
ResultCommit(h) ==
    LET m == handler[h].msg
        r == m.run
        p == m.part
        rows == [ckpt[r] EXCEPT ![p] = Settled(@, m)]
    IN  /\ handler[h].pc = "locked"
        /\ ~CheckpointLocked(r, p)
        /\ ckpt' = [ckpt EXCEPT ![r] = rows]
        /\ event' = IF m.status = "FAILED" /\ ckpt[r][p].status = "FAILED"
                    THEN RetryEvent(r, p) ELSE event
        /\ Finalize(r, Verdict(rows))
        /\ handler' = [handler EXCEPT ![h] = [pc |-> "idle"]]
        \* delete_message, unless the process dies first or SQS delivers twice
        /\ resultQ' \in {resultQ, resultQ \ {m}}
        /\ UNCHANGED <<ctl, dispatchQ, tasks>>

\* The transaction fails or its process dies; the message will be seen again.
ResultRollback(h) ==
    /\ handler[h].pc = "locked"
    /\ handler' = [handler EXCEPT ![h] = [pc |-> "idle"]]
    /\ UNCHANGED <<run, ckpt, event, ctl, dispatchQ, resultQ, tasks>>

\* A handler locks the run and then the checkpoint, a controller the other way
\* round.  PostgreSQL ends such a deadlock by failing one of the two: the
\* handler keeps its message, the controller's loop ends with the exception.
Deadlocked(c, h) ==
    /\ ctl[c].pc = "settle"
    /\ ctl[c].verdict # "RUNNING"
    /\ handler[h].pc = "locked"
    /\ handler[h].msg.run = ctl[c].run
    /\ handler[h].msg.part = ctl[c].part

BreakDeadlock(c, h) ==
    /\ Deadlocked(c, h)
    /\ ControllerRestart(c) \/ ResultRollback(h)

-----------------------------------------------------------------------------
(* External: the ECS worker, as the control plane relies on it.  It claims  *)
(* PENDING rows only, counts its claims in attempt, and writes an outcome   *)
(* only over its own attempt.                                               *)

WorkerClaim(r, p) ==
    /\ [run |-> r, part |-> p] \in dispatchQ
    /\ ckpt[r][p].status = "PENDING"
    /\ ckpt' = [ckpt EXCEPT ![r][p].status = "RUNNING", ![r][p].attempt = @ + 1]
    /\ tasks' = tasks \cup {[run |-> r, part |-> p, attempt |-> ckpt[r][p].attempt + 1]}
    /\ dispatchQ' \in {dispatchQ, dispatchQ \ {[run |-> r, part |-> p]}}
    /\ UNCHANGED <<run, event, ctl, handler, resultQ>>

\* A message whose checkpoint is not PENDING is consumed without effect.
WorkerIgnore(r, p) ==
    /\ [run |-> r, part |-> p] \in dispatchQ
    /\ ckpt[r][p].status # "PENDING"
    /\ dispatchQ' = dispatchQ \ {[run |-> r, part |-> p]}
    /\ UNCHANGED <<run, ckpt, event, ctl, handler, resultQ, tasks>>

\* The attempt ends: its outcome is written if the row is still its own, then
\* the result is sent, unless the task stops in between.  A superseded attempt
\* may report too; a task that never ends is a dead one.
WorkerFinish(t, m, sent) ==
    LET row == ckpt[t.run][t.part]
        own == row.status = "RUNNING" /\ row.attempt = t.attempt
    IN  /\ t \in tasks
        /\ m.run = t.run /\ m.part = t.part
        /\ m.warned => m.status = "SUCCEEDED"
        /\ own => ~CheckpointLocked(t.run, t.part)
        /\ ckpt' = IF ~own THEN ckpt
                   ELSE [ckpt EXCEPT
                           ![t.run][t.part].status =
                               IF m.status = "SUCCEEDED" THEN "COMPLETE" ELSE "FAILED",
                           ![t.run][t.part].warned = @ \/ m.warned]
        /\ tasks' = tasks \ {t}
        /\ resultQ' = IF sent THEN resultQ \cup {m} ELSE resultQ
        /\ UNCHANGED <<run, event, ctl, handler, dispatchQ>>

-----------------------------------------------------------------------------
Reconcile(c) ==
    \/ \E r \in Runs, p \in Parts : ReconcileSelect(c, r, p)
    \/ ReconcileRepair(c)
    \/ ReconcileSettle(c)
    \/ \E r \in Runs : ReconcileSelectRun(c, r)
    \/ ReconcileFinalize(c)
    \/ ReconcileNothing(c)

Outbox(c) ==
    \/ \E r \in Runs, p \in Parts, k \in Keys : OutboxClaim(c, r, p, k)
    \/ OutboxNothing(c)
    \/ OutboxPublish(c)
    \/ OutboxPublishFails(c)
    \/ OutboxMark(c)

HandleResult(h) ==
    \/ \E m \in resultQ : ResultLockRun(h, m)
    \/ ResultCommit(h)
    \/ ResultRollback(h)

Worker ==
    \/ \E r \in Runs, p \in Parts : WorkerClaim(r, p) \/ WorkerIgnore(r, p)
    \/ \E t \in tasks, m \in Result, sent \in BOOLEAN : WorkerFinish(t, m, sent)

Next ==
    \/ \E r \in Runs, work \in SUBSET Parts : CreateManualRun(r, work)
    \/ \E c \in Controllers : Reconcile(c) \/ Outbox(c) \/ ControllerRestart(c)
    \/ \E h \in Handlers : HandleResult(h)
    \/ \E c \in Controllers, h \in Handlers : BreakDeadlock(c, h)
    \/ Worker

Spec == Init /\ [][Next]_vars

\* What the infrastructure may do to a step: the outbox process dies, SQS
\* refuses a message or delivers one again, a result transaction fails.  The
\* victim of a deadlock is not counted here.
Failure ==
    \/ \E c \in Controllers :
         \/ OutboxPublishFails(c)
         \/ ControllerRestart(c) /\ \A h \in Handlers : ~Deadlocked(c, h)
    \/ \E h \in Handlers :
         \/ ResultRollback(h) /\ \A c \in Controllers : ~Deadlocked(c, h)
         \/ ResultCommit(h) /\ handler[h].msg \in resultQ'

\* The outbox loop never stops polling, and both its SELECTs order their rows
\* (updated_at, created_at), so no row that stays eligible is passed over for
\* ever; a dispatch that can be claimed is; PostgreSQL queues for row locks and
\* ends deadlocks; failures are finitely many.  Nothing is assumed of the end
\* of a task nor of the arrival of its result.
Fairness ==
    /\ <>[][~Failure]_vars
    /\ \A c \in Controllers :
         /\ WF_vars(Reconcile(c) \/ Outbox(c)) /\ SF_vars(ReconcileSettle(c))
         /\ \A r \in Runs, p \in Parts : SF_vars(ReconcileSelect(c, r, p))
         /\ SF_vars(\E r \in Runs, p \in Parts, k \in Keys : OutboxClaim(c, r, p, k))
    /\ \A h \in Handlers : SF_vars(ResultCommit(h))
    /\ \A c \in Controllers, h \in Handlers : WF_vars(BreakDeadlock(c, h))
    /\ WF_vars(\E r \in Runs, p \in Parts : WorkerClaim(r, p))

FairSpec == Spec /\ Fairness

-----------------------------------------------------------------------------
(* Properties.                                                             *)

\* A run that succeeded has no unfinished work: every checkpoint it queued is
\* COMPLETE.  Result handlers, reconcilers and workers change checkpoints under
\* different locks, and each may be the one whose aggregate ends the run.
SuccessIsComplete ==
    \A r \in Runs : run[r] \in Succeeded =>
        \A p \in Parts : ckpt[r][p].status \in {"NONE", "COMPLETE"}

\* A run reported with warnings has a checkpoint whose durable counts show the
\* rejected or quarantined records, however late or often its results arrive
\* (the GREATEST in the result handler).
WarningsAreBacked ==
    \A r \in Runs : run[r] = "SUCCEEDED_WITH_WARNINGS" =>
        \E p \in Parts : ckpt[r][p].warned

\* No dispatch is lost: a PENDING checkpoint always has an outbox event that
\* will still be published or a message in the dispatch queue, through every
\* crash between publishing and marking, conflict on the deduplication key and
\* message consumed by an earlier delivery.
NoLostDispatch ==
    \A r \in Runs, p \in Parts : ckpt[r][p].status = "PENDING" =>
        \/ \E k \in Keys : event[r][p][k] \in Dispatchable
        \/ [run |-> r, part |-> p] \in dispatchQ

\* The retry budget: no checkpoint waits for a worker once its attempts are
\* used up, whichever of the handler and the reconciler repaired it, and one
\* that is with a worker has been counted.
AttemptBudget ==
    \A r \in Runs, p \in Parts :
        /\ ckpt[r][p].status = "PENDING" => ckpt[r][p].attempt < MaxAttempts
        /\ ckpt[r][p].status = "RUNNING" => ckpt[r][p].attempt > 0

\* A run ends once: whatever arrives later, its final status stays.
RunOutcomeIsFinal ==
    [][\A r \in Runs : run[r] \notin Active \cup {"NONE"} => run'[r] = run[r]]_vars

\* Finished work is never dispatched or failed again: a late failure, a stale
\* repair or a superseded attempt leaves a COMPLETE checkpoint COMPLETE.
CompleteIsFinal ==
    [][\A r \in Runs, p \in Parts :
         ckpt[r][p].status = "COMPLETE" => ckpt'[r][p].status = "COMPLETE"]_vars

\* Every run ends, also when tasks die, controllers crash and every result
\* message is lost: the reconciler alone brings it to an end.
RunEnds ==
    \A r \in Runs : run[r] \in Active ~> run[r] \notin Active

\* README, "Manual Elasticsearch standardization": "failed or stale running
\* checkpoints are dispatched again up to three worker attempts".
FailedCheckpointIsRetried ==
    \A r \in Runs, p \in Parts :
        ckpt[r][p].status = "FAILED" /\ ckpt[r][p].attempt < MaxAttempts
            ~> ckpt[r][p].status # "FAILED"
=============================================================================
