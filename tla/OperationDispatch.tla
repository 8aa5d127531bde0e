-------------------------- MODULE OperationDispatch -------------------------
(***************************************************************************)
(* The life of connector operations after their commit: the outbox worker  *)
(* publishes the dispatch event of each, an external worker executes it,   *)
(* and the result worker writes the outcome (app/workers/connectors.py).   *)
(*                                                                         *)
(* An operation is of a fast type (connection test, discovery, preview) or *)
(* a dataset sync with a run.  Two external consumers may execute a fast   *)
(* operation while fast routing is switched over: the fast worker, which   *)
(* holds a lease in the operation's row and writes the outcome itself, and *)
(* the legacy consumer (Step Functions), which reports through the result  *)
(* queue and executes every sync.                                          *)
(*                                                                         *)
(* The result handler and the outbox worker take several actions for one   *)
(* transaction or one event; FOR UPDATE on the operation row keeps other   *)
(* writers out meanwhile (Locked).                                         *)
(***************************************************************************)
EXTENDS Naturals

CONSTANTS
    FastOps,       \* CONNECTION_TEST, SCHEMA_DISCOVERY, DATASET_PREVIEW
    SyncOps,       \* DATASET_SYNC
    OutboxWorkers, \* replicas of the outbox worker
    ResultWorkers  \* replicas of the result worker

ASSUME TypesAssumption == FastOps \cap SyncOps = {}

Ops == FastOps \cup SyncOps

VARIABLES
    op,        \* status and lease of each operation's row
    run,       \* status of the sync run of each sync operation
    preview,   \* result_json of each fast operation
    event,     \* status of each operation's outbox event
    outbox,    \* where each outbox worker is
    handler,   \* where each result worker is
    dispatchQ, \* operations with a message in a dispatch queue
    legacy,    \* operations the legacy consumer executes
    resultQ    \* messages in the result queue

vars == <<op, run, preview, event, outbox, handler, dispatchQ, legacy, resultQ>>

-----------------------------------------------------------------------------
Outcome == {"SUCCEEDED", "FAILED"}   \* CANCELLED is like FAILED
OpStatus == {"NONE", "QUEUED", "DISPATCHED", "RUNNING"} \cup Outcome

\* lease_owner and lease_expires_at
Lease == {"none", "held", "expired"}

\* ACTIVE stands for the five statuses of the partial unique index.
RunStatus == {"NONE", "ACTIVE"} \cup Outcome

EventStatus == {"NONE", "PENDING", "PROCESSING", "FAILED", "PROCESSED"}
Claimable == {"PENDING", "FAILED", "PROCESSING"}

Result == [op : Ops, status : Outcome]
OutboxState == [pc : {"idle"}] \cup [pc : {"publish", "mark"}, op : Ops]
HandlerState == [pc : {"idle"}] \cup [pc : {"locked"}, msg : Result, accepted : BOOLEAN]
Idle == [pc |-> "idle"]

TypeOK ==
    /\ op \in [Ops -> [status : OpStatus, lease : Lease]]
    /\ run \in [SyncOps -> RunStatus]
    /\ preview \in [FastOps -> {"NONE", "METRICS", "ROWS", "EXPIRED"}]
    /\ event \in [Ops -> EventStatus]
    /\ outbox \in [OutboxWorkers -> OutboxState]
    /\ handler \in [ResultWorkers -> HandlerState]
    /\ dispatchQ \subseteq Ops
    /\ legacy \subseteq Ops
    /\ resultQ \subseteq Result

Waiting == {"QUEUED", "DISPATCHED"}

\* Slip: the operation read without FOR UPDATE.
Unlocked(o) == FALSE

Locked(o) == \E h \in ResultWorkers : handler[h].pc = "locked" /\ handler[h].msg.op = o

Init ==
    /\ op = [o \in Ops |-> [status |-> "NONE", lease |-> "none"]]
    /\ run = [o \in SyncOps |-> "NONE"]
    /\ preview = [o \in FastOps |-> "NONE"]
    /\ event = [o \in Ops |-> "NONE"]
    /\ outbox = [w \in OutboxWorkers |-> Idle]
    /\ handler = [h \in ResultWorkers |-> Idle]
    /\ dispatchQ = {}
    /\ legacy = {}
    /\ resultQ = {}

-----------------------------------------------------------------------------
\* queue_operation or materialize_sync_run: one commit inserts all rows.
Create(o) ==
    /\ op[o].status = "NONE"
    /\ op' = [op EXCEPT ![o].status = "QUEUED"]
    /\ run' = IF o \in SyncOps THEN [run EXCEPT ![o] = "ACTIVE"] ELSE run
    /\ event' = [event EXCEPT ![o] = "PENDING"]
    /\ UNCHANGED <<preview, outbox, handler, dispatchQ, legacy, resultQ>>

-----------------------------------------------------------------------------
(* process_outbox_once.                                                    *)

\* An event is claimed for five minutes; a worker that takes longer, or
\* crashed, leaves it to be claimed again.
Claim(w, o) ==
    /\ outbox[w] = Idle
    /\ event[o] \in Claimable
    /\ event' = [event EXCEPT ![o] = "PROCESSING"]
    /\ outbox' = [outbox EXCEPT ![w] = [pc |-> "publish", op |-> o]]
    /\ UNCHANGED <<op, run, preview, handler, dispatchQ, legacy, resultQ>>

Publish(w) ==
    /\ outbox[w].pc = "publish"
    /\ dispatchQ' = dispatchQ \cup {outbox[w].op}
    /\ outbox' = [outbox EXCEPT ![w].pc = "mark"]
    /\ UNCHANGED <<op, run, preview, event, handler, legacy, resultQ>>

\* Slip: a failed publication counts as processed.
AfterFailureProcessed == "PROCESSED"

AfterFailure == "FAILED"

\* SQS is down or the queue is not configured: the event is tried again.
PublishFails(w) ==
    /\ outbox[w].pc = "publish"
    /\ event' = [event EXCEPT ![outbox[w].op] = AfterFailure]
    /\ outbox' = [outbox EXCEPT ![w] = Idle]
    /\ UNCHANGED <<op, run, preview, handler, dispatchQ, legacy, resultQ>>

\* Slip: the status is set whatever it is.
MarkedAlways(row) == [row EXCEPT !.status = "DISPATCHED"]

\* UPDATE ... SET status = 'DISPATCHED' WHERE status = 'QUEUED'
Marked(row) == IF row.status = "QUEUED" THEN [row EXCEPT !.status = "DISPATCHED"] ELSE row

Mark(w) ==
    /\ outbox[w].pc = "mark"
    /\ LET o == outbox[w].op IN
        /\ ~Locked(o)
        /\ op' = [op EXCEPT ![o] = Marked(@)]
        /\ event' = [event EXCEPT ![o] = "PROCESSED"]
    /\ outbox' = [outbox EXCEPT ![w] = Idle]
    /\ UNCHANGED <<run, preview, handler, dispatchQ, legacy, resultQ>>

OutboxRestart(w) ==
    /\ outbox[w] # Idle
    /\ outbox' = [outbox EXCEPT ![w] = Idle]
    /\ UNCHANGED <<op, run, preview, event, handler, dispatchQ, legacy, resultQ>>

\* cleanup_expired_preview_results, some time after the previews expired.
Cleanup ==
    /\ \E expired \in SUBSET {o \in FastOps : preview[o] = "ROWS" /\ ~Locked(o)} :
        /\ expired # {}
        /\ preview' = [o \in FastOps |-> IF o \in expired THEN "EXPIRED" ELSE preview[o]]
    /\ UNCHANGED <<op, run, event, outbox, handler, dispatchQ, legacy, resultQ>>

-----------------------------------------------------------------------------
(* process_result_message.                                                 *)

\* A result counts unless the operation has ended, or a fast worker holds it.
Accepts(o) == op[o].status \notin Outcome /\ ~(o \in FastOps /\ op[o].lease = "held")

ResultLock(h, msg) ==
    /\ handler[h] = Idle
    /\ msg \in resultQ
    /\ ~Locked(msg.op)
    /\ handler' = [handler EXCEPT ![h] =
            [pc |-> "locked", msg |-> msg, accepted |-> Accepts(msg.op)]]
    /\ UNCHANGED <<op, run, preview, event, outbox, dispatchQ, legacy, resultQ>>

RunEnded(o, status) == IF o \in SyncOps THEN [run EXCEPT ![o] = status] ELSE run

\* The message is deleted after the commit, or delivered again.
ResultCommit(h) ==
    /\ handler[h].pc = "locked"
    /\ LET msg == handler[h].msg
           o == msg.op
       IN /\ IF handler[h].accepted
             THEN /\ op' = [op EXCEPT ![o].status = msg.status]
                  /\ run' = RunEnded(o, msg.status)
                  /\ preview' = IF o \in FastOps THEN [preview EXCEPT ![o] = "METRICS"] ELSE preview
             ELSE UNCHANGED <<op, run, preview>>
          /\ resultQ' \in {resultQ, resultQ \ {msg}}
    /\ handler' = [handler EXCEPT ![h] = Idle]
    /\ UNCHANGED <<event, outbox, dispatchQ, legacy>>

\* An exception or a crash: the message is delivered again.
ResultRollback(h) ==
    /\ handler[h].pc = "locked"
    /\ handler' = [handler EXCEPT ![h] = Idle]
    /\ UNCHANGED <<op, run, preview, event, outbox, dispatchQ, legacy, resultQ>>

-----------------------------------------------------------------------------
(* The external workers.                                                   *)

\* The fast worker claims an operation, or takes over an expired lease; its
\* message stays in the queue until it has finished.
FastClaim(o) ==
    /\ o \in dispatchQ \cap FastOps
    /\ ~Locked(o)
    /\ op[o].status \in Waiting \/ (op[o].status = "RUNNING" /\ op[o].lease = "expired")
    /\ op' = [op EXCEPT ![o] = [status |-> "RUNNING", lease |-> "held"]]
    /\ UNCHANGED <<run, preview, event, outbox, handler, dispatchQ, legacy, resultQ>>

\* It is too slow, or has died.
LeaseExpires(o) ==
    /\ op[o].lease = "held"
    /\ op' = [op EXCEPT ![o].lease = "expired"]
    /\ UNCHANGED <<run, preview, event, outbox, handler, dispatchQ, legacy, resultQ>>

FastFinish(o) ==
    /\ ~Locked(o)
    /\ op[o].lease = "held"
    /\ op[o].status = "RUNNING"
    /\ \E status \in Outcome :
        /\ op' = [op EXCEPT ![o] = [status |-> status, lease |-> "none"]]
        /\ preview' = [preview EXCEPT ![o] = IF status = "SUCCEEDED" THEN "ROWS" ELSE "NONE"]
    /\ dispatchQ' = dispatchQ \ {o}
    /\ UNCHANGED <<run, event, outbox, handler, legacy, resultQ>>

\* The legacy consumer claims any waiting operation.
LegacyClaim(o) ==
    /\ o \in dispatchQ
    /\ ~Locked(o)
    /\ op[o].status \in Waiting
    /\ op' = [op EXCEPT ![o].status = "RUNNING"]
    /\ dispatchQ' = dispatchQ \ {o}
    /\ legacy' = legacy \cup {o}
    /\ UNCHANGED <<run, preview, event, outbox, handler, resultQ>>

LegacyFinish(o) ==
    /\ o \in legacy
    /\ \E status \in Outcome : resultQ' = resultQ \cup {[op |-> o, status |-> status]}
    /\ legacy' = legacy \ {o}
    /\ UNCHANGED <<op, run, preview, event, outbox, handler, dispatchQ>>

\* A message for an operation that runs without a lease or has ended.
DropDuplicate(o) ==
    /\ o \in dispatchQ
    /\ op[o].status \in {"RUNNING"} \cup Outcome
    /\ op[o].lease = "none"
    /\ dispatchQ' = dispatchQ \ {o}
    /\ UNCHANGED <<op, run, preview, event, outbox, handler, legacy, resultQ>>

\* The legacy consumer reports that it could not claim a fast operation.
LegacyRefused(o) ==
    /\ o \in dispatchQ \cap FastOps
    /\ op[o].status \notin Waiting
    /\ resultQ' = resultQ \cup {[op |-> o, status |-> "FAILED"]}
    /\ UNCHANGED <<op, run, preview, event, outbox, handler, dispatchQ, legacy>>

-----------------------------------------------------------------------------
Outbox(w) ==
    (\E o \in Ops : Claim(w, o)) \/ Publish(w) \/ PublishFails(w) \/ Mark(w) \/ OutboxRestart(w)

HandleResult(h) ==
    (\E msg \in resultQ : ResultLock(h, msg)) \/ ResultCommit(h) \/ ResultRollback(h)

Worker(o) ==
    \/ FastClaim(o) \/ LeaseExpires(o) \/ FastFinish(o)
    \/ LegacyClaim(o) \/ LegacyFinish(o) \/ DropDuplicate(o) \/ LegacyRefused(o)

Next ==
    \/ \E o \in Ops : Create(o) \/ Worker(o)
    \/ \E w \in OutboxWorkers : Outbox(w)
    \/ \E h \in ResultWorkers : HandleResult(h)
    \/ Cleanup

Spec == Init /\ [][Next]_vars

-----------------------------------------------------------------------------
(* Properties.                                                             *)

Rank == [NONE |-> 0, QUEUED |-> 1, DISPATCHED |-> 2, RUNNING |-> 3,
         SUCCEEDED |-> 4, FAILED |-> 4]

\* The status of an operation only moves forward and its first outcome
\* stands: neither the late mark of a slow outbox worker
\* (workers/connectors.py:143-153), nor a duplicated, late or contradicting
\* result message (354), nor the other consumer turns it back.
StatusMovesForward ==
    [][\A o \in Ops : op'[o].status # op[o].status =>
            Rank[op'[o].status] > Rank[op[o].status]]_vars

\* An operation that waits for a worker has a message in a queue or an event
\* the outbox will try again (workers/connectors.py:254-293).
NoLostDispatch ==
    \A o \in Ops :
        op[o].status \in Waiting => event[o] \in Claimable \/ o \in dispatchQ

\* A fast operation does not end while a worker holds its lease: results of
\* the other consumer are ignored (workers/connectors.py:356-366).
LeaseIsRespected ==
    \A o \in FastOps : op[o].status \in Outcome => op[o].lease # "held"

\* The run of a sync is active, and blocks its dataset, exactly as long as its
\* operation has not ended, and both end alike (workers/connectors.py:367-375).
RunFollowsOperation ==
    \A o \in SyncOps :
        run[o] = CASE op[o].status = "NONE" -> "NONE"
                   [] op[o].status \in Outcome -> op[o].status
                   [] OTHER -> "ACTIVE"

\* The rows of a preview are shown until they expire and never come back: no
\* result message replaces them (workers/connectors.py:36-45, 354, 371).
PreviewIsNotReplaced ==
    [][\A o \in FastOps :
        /\ preview[o] = "ROWS" => preview'[o] \in {"ROWS", "EXPIRED"}
        /\ preview[o] = "EXPIRED" => preview'[o] = "EXPIRED"]_vars

\* All that together is what a client may rely on: the module is an
\* implementation of OperationLife, with leases, events, queues, workers and
\* locks hidden.
Life == INSTANCE OperationLife WITH
            status <- [o \in Ops |-> op[o].status], shown <- preview

ImplementsLife == Life!Spec

-----------------------------------------------------------------------------
(* Liveness.                                                               *)

LocksOp(h, o) == \E status \in Outcome : ResultLock(h, [op |-> o, status |-> status])

\* SQS refuses a message or delivers one again, a process dies, a lease is lost.
Failure ==
    \/ \E w \in OutboxWorkers : PublishFails(w) \/ OutboxRestart(w)
    \/ \E h \in ResultWorkers :
         ResultRollback(h) \/ (ResultCommit(h) /\ handler[h].msg \in resultQ')
    \/ \E o \in FastOps : LeaseExpires(o)

\* The loops of the workers go on after every error, and failures are finitely
\* many; no worker waits for a row lock for ever; SQS delivers a message until
\* it is deleted.
Fairness ==
    /\ <>[][~Failure]_vars
    /\ \A w \in OutboxWorkers :
        /\ WF_vars((\E o \in Ops : Claim(w, o)) \/ Publish(w) \/ Mark(w))
        /\ []<>(outbox[w].pc # "mark")
    /\ \A o \in Ops : WF_vars(FastClaim(o) \/ LegacyClaim(o)) /\ WF_vars(LegacyFinish(o))
    /\ \A o \in FastOps : SF_vars(FastFinish(o))
    /\ \A o \in Ops : SF_vars(\E h \in ResultWorkers : LocksOp(h, o))
    /\ \A h \in ResultWorkers : WF_vars(ResultCommit(h))

LiveSpec == Spec /\ Fairness

\* Every operation ends, and with it the run that blocks its dataset.
EveryOperationEnds ==
    \A o \in Ops : op[o].status # "NONE" ~> op[o].status \in Outcome
=============================================================================
