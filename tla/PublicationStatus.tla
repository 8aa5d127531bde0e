-------------------------- MODULE PublicationStatus --------------------------
(***************************************************************************)
(* What a client is told of a sync while connector_publication_status_enabled *)
(* is on: the projection of app/modules/connectors/repository.py, read by  *)
(* GET run and POST run (_sync_run_view), GET operation, and the list of   *)
(* connections.                                                            *)
(*                                                                         *)
(* Two histories are joined there by the ingestion batch of the run.  The  *)
(* execution, in the rows of the operation and of its run, ends once, with *)
(* the result message.  The pipeline (ingestion, attempts at stitching,    *)
(* the transfer of each attempt to ClickHouse) belongs to other programs,  *)
(* goes on after that, and may retry what the execution gave up; it is     *)
(* modelled from the tests, which create its tables.                       *)
(***************************************************************************)
EXTENDS Naturals, Sequences, FiniteSets

CONSTANTS
    Runs,        \* runs of one connection, each with an operation
    MaxAttempts, \* bound: attempts at stitching one batch
    NULL

\* The NULL of SQL is no workspace and no status of a transfer.
ASSUME NullAssumption ==
    NULL \notin {"own", "other", "PENDING", "RUNNING", "FAILED", "BLOCKED", "PUBLISHED"}
ASSUME BoundAssumption == MaxAttempts \in Nat

VARIABLES
    operation, \* status of each operation's row
    run,       \* status of each run's row
    ingested,  \* state of each run's ingestion batch
    attempts   \* jobs of each batch, the last one is effective

vars == <<operation, run, ingested, attempts>>

-----------------------------------------------------------------------------
Outcome == {"SUCCEEDED", "FAILED"}   \* CANCELLED is like FAILED
Completed == {"COMPLETED", "COMPLETED_WITH_WARNINGS"}

\* UNKNOWN stands for a status that the view has no word for.
JobStatus == {"QUEUED", "WAITING_FOR_LOCK", "VALIDATING", "RUNNING", "UNKNOWN"} \cup Outcome
Transfer == [status : {"PENDING", "RUNNING", "FAILED", "BLOCKED", "PUBLISHED"},
             workspace : {"own", "other", NULL}]
NoTransfer == [status |-> NULL, workspace |-> NULL]

\* issue: an entry of customer_identity_capture_issue
Job == [status : JobStatus, transfer : Transfer \cup {NoTransfer}, issue : BOOLEAN]
NewJob == [status |-> "QUEUED", transfer |-> NoTransfer, issue |-> FALSE]

TypeOK ==
    /\ operation \in [Runs -> {"QUEUED", "RUNNING"} \cup Outcome]
    /\ run \in [Runs -> {"QUEUED", "STITCHING"} \cup Outcome]
    /\ ingested \in [Runs -> {"none", "processing", "clean", "rejects", "failed"}]
    /\ attempts \in [Runs -> Seq(Job)]
    /\ \A r \in Runs : Len(attempts[r]) <= MaxAttempts

Init ==
    /\ operation = [r \in Runs |-> "QUEUED"]
    /\ run = [r \in Runs |-> "QUEUED"]
    /\ ingested = [r \in Runs |-> "none"]
    /\ attempts = [r \in Runs |-> <<>>]

-----------------------------------------------------------------------------
(***************************************************************************)
(* The view control.customer_publication_status, one row per batch that    *)
(* has a job; no row is a row of NULLs to the outer join.                  *)
(***************************************************************************)
NoRow == [job |-> FALSE, overall |-> NULL, workspace |-> NULL]

TransferStage(t) ==
    CASE t.status = "PENDING" -> "TRANSFER_PENDING"
      [] t.status = "RUNNING" -> "TRANSFERRING"
      [] t.status = "FAILED"  -> "TRANSFER_FAILED"
      [] t.status = "BLOCKED" -> "TRANSFER_BLOCKED"

\* The tests leave open whether a failed ingestion is said to have FAILED or to
\* be INGESTING still; the second is what "processing" for ever looks like.
Overall(r, job) ==
    CASE ingested[r] \in {"none", "processing"} -> "INGESTING"
      [] ingested[r] = "failed" -> "FAILED"
      [] OTHER ->
         CASE job.status = "QUEUED"           -> "STITCHING_QUEUED"
           [] job.status = "RUNNING"          -> "STITCHING"
           [] job.status = "UNKNOWN"          -> "STITCHING_UNKNOWN"
           [] job.status \in {"WAITING_FOR_LOCK", "VALIDATING", "FAILED"} -> job.status
           [] job.status = "SUCCEEDED" ->
              CASE job.transfer = NoTransfer ->
                     IF job.issue THEN "TRANSFER_BLOCKED" ELSE "TRANSFER_PENDING"
                [] job.transfer.status = "PUBLISHED" ->
                     IF ingested[r] = "rejects" THEN "COMPLETED_WITH_WARNINGS" ELSE "COMPLETED"
                [] OTHER -> TransferStage(job.transfer)

Latest(r) == attempts[r][Len(attempts[r])]

ViewRow(r) ==
    IF attempts[r] = <<>> THEN NoRow
    ELSE [job |-> TRUE, overall |-> Overall(r, Latest(r)),
          workspace |-> Latest(r).transfer.workspace]

-----------------------------------------------------------------------------
(***************************************************************************)
(* The projection.                                                         *)
(***************************************************************************)
EffectiveStatus ==
    {"STITCHING_QUEUED", "WAITING_FOR_LOCK", "VALIDATING", "STITCHING", "STITCHING_UNKNOWN",
     "FAILED", "TRANSFER_PENDING", "TRANSFERRING", "TRANSFER_FAILED", "TRANSFER_BLOCKED"}
       \cup Completed

\* Slip: any job is taken as proof, one made before ingestion ended too.
JobIsProof(view) == view.job

EffectiveStitching(view) == view.job /\ view.overall \in EffectiveStatus

\* Slip: the workspace of the transfer is not looked at.
ScopedToBatch(view) == IF view.overall = NULL THEN "TRANSFER_PENDING" ELSE view.overall

\* SQL: a comparison with NULL is not true, hence the second disjunct.
ScopedStatus(view) ==
    IF \/ view.workspace = "other"
       \/ view.workspace = NULL /\ view.overall \in Completed
    THEN "TRANSFER_BLOCKED"
    ELSE IF view.overall = NULL THEN "TRANSFER_PENDING" ELSE view.overall

Projected(execution, view) ==
    IF execution = "SUCCEEDED" \/ EffectiveStitching(view)
    THEN ScopedStatus(view)
    ELSE execution

GetRun(r) == Projected(run[r], ViewRow(r))
GetOperation(r) == Projected(operation[r], ViewRow(r))

\* The list of connections; every run has loaded one record.
\* Slip: the counter of the time before the flag.
ExecutedRuns == {r \in Runs : run[r] = "SUCCEEDED"}

SuccessfulRuns == {r \in Runs : Projected(run[r], ViewRow(r)) \in Completed}
SuccessfulRecords == Cardinality(SuccessfulRuns)

-----------------------------------------------------------------------------
(***************************************************************************)
(* Execution: the external workers report progress, the result worker      *)
(* writes the outcome of both rows in one transaction, once.               *)
(***************************************************************************)
Execute(r) ==
    /\ operation[r] = "QUEUED"
    /\ operation' = [operation EXCEPT ![r] = "RUNNING"]
    /\ UNCHANGED <<run, ingested, attempts>>

ReachStitching(r) ==
    /\ run[r] = "QUEUED" /\ attempts[r] # <<>>
    /\ run' = [run EXCEPT ![r] = "STITCHING"]
    /\ UNCHANGED <<operation, ingested, attempts>>

\* Slip: the word of the projection is stored.
ResultIsProjected(r, status) ==
    /\ operation[r] \notin Outcome
    /\ operation' = [operation EXCEPT ![r] = Projected(status, ViewRow(r))]
    /\ run' = [run EXCEPT ![r] = Projected(status, ViewRow(r))]
    /\ UNCHANGED <<ingested, attempts>>

ResultMessage(r, status) ==
    /\ operation[r] \notin Outcome
    /\ operation' = [operation EXCEPT ![r] = status]
    /\ run' = [run EXCEPT ![r] = status]
    /\ UNCHANGED <<ingested, attempts>>

(***************************************************************************)
(* The pipeline.                                                           *)
(***************************************************************************)
IngestBegin(r) ==
    /\ ingested[r] \in {"none", "failed"}
    /\ ingested' = [ingested EXCEPT ![r] = "processing"]
    /\ UNCHANGED <<operation, run, attempts>>

IngestEnd(r) ==
    /\ ingested[r] = "processing"
    /\ \E outcome \in {"clean", "rejects", "failed"} : ingested' = [ingested EXCEPT ![r] = outcome]
    /\ UNCHANGED <<operation, run, attempts>>

\* The first job may be created before ingestion ends; a retry follows an
\* attempt that ended, even one that was published.
NewAttempt(r) ==
    /\ Len(attempts[r]) < MaxAttempts
    /\ attempts[r] # <<>> => Latest(r).status \in Outcome
    /\ attempts' = [attempts EXCEPT ![r] = Append(@, NewJob)]
    /\ UNCHANGED <<operation, run, ingested>>

\* What the stitcher goes through before an attempt ends is its own affair.
JobMove(r, i) ==
    /\ ingested[r] \in {"clean", "rejects"}
    /\ attempts[r][i].status \notin Outcome
    /\ \E s \in JobStatus \ {"QUEUED"} : attempts' = [attempts EXCEPT ![r][i].status = s]
    /\ UNCHANGED <<operation, run, ingested>>

\* The outbox of an attempt is written after it succeeded, or the failure to.
Capture(r, i) ==
    LET job == attempts[r][i] IN
    /\ job.status = "SUCCEEDED" /\ job.transfer = NoTransfer
    /\ \/ /\ ~job.issue
          /\ attempts' = [attempts EXCEPT ![r][i].issue = TRUE]
       \/ \E w \in {"own", "other", NULL} :
            attempts' = [attempts EXCEPT ![r][i].transfer = [status |-> "PENDING", workspace |-> w]]
    /\ UNCHANGED <<operation, run, ingested>>

\* An older attempt may be published after a newer one was created.
TransferMove(r, i) ==
    LET status == attempts[r][i].transfer.status
        Becomes(new) == attempts' = [attempts EXCEPT ![r][i].transfer.status = new] IN
    /\ \/ status \in {"PENDING", "FAILED", "BLOCKED"} /\ Becomes("RUNNING")
       \/ status = "RUNNING" /\ \E new \in {"FAILED", "BLOCKED", "PUBLISHED"} : Becomes(new)
    /\ UNCHANGED <<operation, run, ingested>>

Next ==
    \E r \in Runs :
      \/ Execute(r) \/ ReachStitching(r)
      \/ \E status \in Outcome : ResultMessage(r, status)
      \/ IngestBegin(r) \/ IngestEnd(r) \/ NewAttempt(r)
      \/ \E i \in DOMAIN attempts[r] : JobMove(r, i) \/ Capture(r, i) \/ TransferMove(r, i)

Spec == Init /\ [][Next]_vars

-----------------------------------------------------------------------------
Ended(r) == operation[r] \in Outcome
Shown(r) == {GetRun(r), GetOperation(r)}

(***************************************************************************)
(* README.md: "A missing outbox never completes; an older published        *)
(* attempt cannot complete a newer retry."  A client that is told that a   *)
(* sync is COMPLETED finds its batch ingested and the newest attempt at it *)
(* published, to the workspace of the run; and, whatever happened between, *)
(* SUCCEEDED, the word of the execution, is never shown.                   *)
(***************************************************************************)
CompletedIsPublished ==
    \A r \in Runs :
      /\ Shown(r) \cap Completed # {} =>
           /\ attempts[r] # <<>>
           /\ Latest(r).transfer = [status |-> "PUBLISHED", workspace |-> "own"]
           /\ ingested[r] \in {"clean", "rejects"}
      /\ "SUCCEEDED" \notin Shown(r)

(***************************************************************************)
(* README.md: "Missing lineage or unfinished ingestion does not hide a     *)
(* genuine pre-stitch failure", and an ingestion that failed does not      *)
(* (test_pre_stitch_failure_is_not_hidden_by_precreated_lineage).          *)
(***************************************************************************)
FailureIsShown ==
    \A r \in Runs :
      operation[r] = "FAILED" /\ (attempts[r] = <<>> \/ ingested[r] \notin {"clean", "rejects"})
        => Shown(r) = {"FAILED"}

(***************************************************************************)
(* README.md: "Only published runs contribute to connector-list            *)
(* successful_records".  The list reads run rows and GET operation reads   *)
(* operation rows: the records it counts are those of the runs whose       *)
(* operation is shown COMPLETED, before the execution ended as after it,   *)
(* and once it has ended the run and its operation are shown alike.        *)
(***************************************************************************)
ListAgrees ==
    /\ SuccessfulRecords = Cardinality({r \in Runs : GetOperation(r) \in Completed})
    /\ \A r \in Runs : Ended(r) => GetRun(r) = GetOperation(r)
=============================================================================
