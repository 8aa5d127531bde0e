----------------------- MODULE PublicationStatusProofs -----------------------
(***************************************************************************)
(* For any number of runs of a connection and any number of attempts at    *)
(* stitching each: what GET run, GET operation and the list of connections *)
(* say of a sync.                                                          *)
(***************************************************************************)
EXTENDS PublicationStatus, SequenceTheorems, TLAPS

\* The invariant that FailureIsShown and ListAgrees rest on: neither of the
\* two rows of a sync has an outcome without the other.
OutcomesAgree ==
    \A r \in Runs : operation[r] \in Outcome \/ run[r] \in Outcome => run[r] = operation[r]

\* Nothing is stitched before ingestion has ended well.
NothingStitched ==
    \A r \in Runs : ingested[r] \notin {"clean", "rejects"} =>
        \A i \in DOMAIN attempts[r] : attempts[r][i] = NewJob

IInv == TypeOK /\ OutcomesAgree /\ NothingStitched

-----------------------------------------------------------------------------
(* The jobs of a batch.                                                    *)

\* One job of one batch is replaced by another.
LEMMA AttemptReplaced ==
    ASSUME TypeOK, NEW r \in Runs, NEW i \in DOMAIN attempts[r], NEW job \in Job,
           attempts' = [attempts EXCEPT ![r][i] = job]
    PROVE  attempts' \in [Runs -> Seq(Job)] /\ \A q \in Runs : Len(attempts'[q]) <= MaxAttempts
<1> DEFINE new == [attempts[r] EXCEPT ![i] = job]
<1>1. attempts[r] \in Seq(Job) /\ i \in 1..Len(attempts[r])
  BY DEF TypeOK
<1>2. new \in Seq(Job) /\ Len(new) = Len(attempts[r])
  BY <1>1, ExceptSeq
<1>3. attempts' = [attempts EXCEPT ![r] = new]
  OBVIOUS
<1> HIDE DEF new
<1> QED
  BY <1>2, <1>3 DEF TypeOK

LEMMA JobTypes ==
    ASSUME TypeOK, NEW r \in Runs, NEW i \in DOMAIN attempts[r]
    PROVE  attempts[r][i] \in Job
BY DEF TypeOK

LEMMA LatestType ==
    ASSUME TypeOK, NEW r \in Runs, attempts[r] # <<>>
    PROVE  Latest(r) \in Job
<1>1. attempts[r] \in Seq(Job) /\ Len(attempts[r]) \in 1..Len(attempts[r])
  BY EmptySeq DEF TypeOK
<1> QED
  BY <1>1 DEF Latest

-----------------------------------------------------------------------------
(* Types and outcomes.                                                     *)

LEMMA InitHolds == Init => IInv
<1> SUFFICES ASSUME Init PROVE IInv
  OBVIOUS
<1>1. TypeOK /\ OutcomesAgree
  BY BoundAssumption, EmptySeq DEF Init, TypeOK, OutcomesAgree, Outcome
<1>2. NothingStitched
  BY EmptySeq DEF Init, NothingStitched
<1> QED
  BY <1>1, <1>2 DEF IInv

\* The execution.
LEMMA ExecutionInv ==
    ASSUME IInv, NEW r \in Runs,
           Execute(r) \/ ReachStitching(r) \/ \E status \in Outcome : ResultMessage(r, status)
    PROVE  IInv'
<1>1. UNCHANGED <<ingested, attempts>>
  BY DEF Execute, ReachStitching, ResultMessage
<1>2. CASE Execute(r)
  BY <1>1, <1>2 DEF IInv, TypeOK, OutcomesAgree, NothingStitched, Outcome, Execute
<1>3. CASE ReachStitching(r)
  BY <1>1, <1>3 DEF IInv, TypeOK, OutcomesAgree, NothingStitched, Outcome, ReachStitching
<1>4. ASSUME NEW status \in Outcome, ResultMessage(r, status)
      PROVE  IInv'
  BY <1>1, <1>4 DEF IInv, TypeOK, OutcomesAgree, NothingStitched, Outcome, ResultMessage
<1> QED
  BY <1>2, <1>3, <1>4

\* The ingestion.
LEMMA IngestInv ==
    ASSUME IInv, NEW r \in Runs, IngestBegin(r) \/ IngestEnd(r)
    PROVE  IInv'
<1>1. UNCHANGED <<operation, run, attempts>> /\ ingested' \in [Runs -> {"none", "processing", "clean", "rejects", "failed"}]
  BY DEF IInv, TypeOK, IngestBegin, IngestEnd
<1>2. /\ ingested[r] \notin {"clean", "rejects"}
      /\ \A q \in Runs \ {r} : ingested'[q] = ingested[q]
  BY DEF IngestBegin, IngestEnd, IInv, TypeOK
<1>3. NothingStitched'
  BY <1>1, <1>2 DEF IInv, NothingStitched
<1> QED
  BY <1>1, <1>3 DEF IInv, TypeOK, OutcomesAgree

LEMMA NewAttemptInv ==
    ASSUME IInv, NEW r \in Runs, NewAttempt(r)
    PROVE  IInv'
<1> DEFINE new == Append(attempts[r], NewJob)
<1>1. NewJob \in Job
  BY DEF NewJob, Job, JobStatus
<1>2. attempts[r] \in Seq(Job) /\ Len(attempts[r]) < MaxAttempts /\ Len(attempts[r]) \in Nat
  BY DEF IInv, TypeOK, NewAttempt
<1>3. /\ new \in Seq(Job) /\ Len(new) <= MaxAttempts
      /\ \A i \in DOMAIN new : new[i] = NewJob \/ (i \in DOMAIN attempts[r] /\ new[i] = attempts[r][i])
  BY <1>1, <1>2, BoundAssumption, AppendProperties
<1>4. attempts' = [attempts EXCEPT ![r] = new] /\ UNCHANGED <<operation, run, ingested>>
  BY DEF NewAttempt
<1> HIDE DEF new
<1>5. TypeOK' /\ OutcomesAgree'
  BY <1>3, <1>4 DEF IInv, TypeOK, OutcomesAgree
<1>6. attempts'[r] = new /\ \A q \in Runs \ {r} : attempts'[q] = attempts[q]
  BY <1>4 DEF IInv, TypeOK
<1>7. NothingStitched'
  BY <1>3, <1>4, <1>6 DEF IInv, NothingStitched
<1> QED
  BY <1>5, <1>7 DEF IInv

LEMMA JobChanges ==
    ASSUME NEW job \in Job
    PROVE  /\ \A s \in JobStatus : [job EXCEPT !.status = s] \in Job
           /\ [job EXCEPT !.issue = TRUE] \in Job
           /\ \A t \in Transfer : [job EXCEPT !.transfer = t] \in Job
           /\ \A s \in {"PENDING", "RUNNING", "FAILED", "BLOCKED", "PUBLISHED"} :
                [job EXCEPT !.transfer.status = s] \in Job
<1>1. /\ job = [status |-> job.status, transfer |-> job.transfer, issue |-> job.issue]
      /\ job.status \in JobStatus /\ job.issue \in BOOLEAN
      /\ job.transfer \in Transfer \cup {NoTransfer}
  BY DEF Job
<1>2. \A s \in JobStatus : [job EXCEPT !.status = s] \in Job
  BY <1>1 DEF Job
<1>3. [job EXCEPT !.issue = TRUE] \in Job
  BY <1>1 DEF Job
<1>4. \A t \in Transfer : [job EXCEPT !.transfer = t] \in Job
  BY <1>1 DEF Job
<1>5. ASSUME NEW s \in {"PENDING", "RUNNING", "FAILED", "BLOCKED", "PUBLISHED"}
      PROVE  [job EXCEPT !.transfer.status = s] \in Job
  <2> DEFINE t == [job.transfer EXCEPT !.status = s]
  <2>1. t \in Transfer
    BY <1>1 DEF Transfer, NoTransfer
  <2>2. [job EXCEPT !.transfer.status = s] = [job EXCEPT !.transfer = t]
    OBVIOUS
  <2> HIDE DEF t
  <2> QED
    BY <1>4, <2>1, <2>2
<1> QED
  BY <1>2, <1>3, <1>4, <1>5

\* A job moves, is captured, or its transfer moves.
LEMMA JobInv ==
    ASSUME IInv, NEW r \in Runs, NEW i \in DOMAIN attempts[r],
           JobMove(r, i) \/ Capture(r, i) \/ TransferMove(r, i)
    PROVE  IInv'
<1> DEFINE job == attempts[r][i]
<1>1. TypeOK /\ job \in Job
  BY JobTypes DEF IInv
<1>2. UNCHANGED <<operation, run, ingested>>
  BY DEF JobMove, Capture, TransferMove
<1>3. PICK new \in Job : attempts' = [attempts EXCEPT ![r][i] = new]
  <2>1. CASE JobMove(r, i)
    <3>1. PICK s \in JobStatus : attempts' = [attempts EXCEPT ![r][i] = [job EXCEPT !.status = s]]
      BY <2>1 DEF JobMove, JobStatus
    <3> QED
      BY <1>1, <3>1, JobChanges
  <2>2. CASE Capture(r, i)
    <3>1. CASE attempts' = [attempts EXCEPT ![r][i].issue = TRUE]
      <4>1. attempts' = [attempts EXCEPT ![r][i] = [job EXCEPT !.issue = TRUE]]
        BY <3>1
      <4> QED
        BY <1>1, <4>1, JobChanges
    <3>2. ASSUME NEW w \in {"own", "other", NULL},
                 attempts' = [attempts EXCEPT ![r][i].transfer = [status |-> "PENDING", workspace |-> w]]
          PROVE  \E new \in Job : attempts' = [attempts EXCEPT ![r][i] = new]
      <4> DEFINE t == [status |-> "PENDING", workspace |-> w]
      <4>1. t \in Transfer
        BY DEF Transfer
      <4>2. attempts' = [attempts EXCEPT ![r][i] = [job EXCEPT !.transfer = t]]
        BY <3>2
      <4> HIDE DEF t
      <4> QED
        BY <1>1, <4>1, <4>2, JobChanges
    <3> QED
      BY <2>2, <3>1, <3>2 DEF Capture
  <2>3. CASE TransferMove(r, i)
    <3>1. PICK s \in {"PENDING", "RUNNING", "FAILED", "BLOCKED", "PUBLISHED"} :
            attempts' = [attempts EXCEPT ![r][i].transfer.status = s]
      BY <2>3 DEF TransferMove
    <3>2. attempts' = [attempts EXCEPT ![r][i] = [job EXCEPT !.transfer.status = s]]
      BY <3>1
    <3> QED
      BY <1>1, <3>2, JobChanges
  <2> QED
    BY <2>1, <2>2, <2>3
<1>4. attempts' \in [Runs -> Seq(Job)] /\ \A q \in Runs : Len(attempts'[q]) <= MaxAttempts
  BY <1>1, <1>3, AttemptReplaced
<1>5. ingested[r] \in {"clean", "rejects"}
  <2> SUFFICES ASSUME ingested[r] \notin {"clean", "rejects"} PROVE FALSE
    OBVIOUS
  <2>1. attempts[r][i] = NewJob
    BY DEF IInv, NothingStitched
  <2> QED
    BY <2>1, NullAssumption DEF NewJob, NoTransfer, JobMove, Capture, TransferMove
<1>6. \A q \in Runs \ {r} : attempts'[q] = attempts[q]
  BY <1>1, <1>3 DEF TypeOK
<1>7. NothingStitched'
  BY <1>2, <1>5, <1>6 DEF IInv, NothingStitched
<1> QED
  BY <1>2, <1>4, <1>7 DEF IInv, TypeOK, OutcomesAgree

LEMMA InductiveStep == IInv /\ [Next]_vars => IInv'
<1> SUFFICES ASSUME IInv, [Next]_vars PROVE IInv'
  OBVIOUS
<1>1. ASSUME NEW r \in Runs,
             Execute(r) \/ ReachStitching(r) \/ \E status \in Outcome : ResultMessage(r, status)
      PROVE  IInv'
  BY <1>1, ExecutionInv
<1>2. ASSUME NEW r \in Runs, IngestBegin(r) \/ IngestEnd(r)
      PROVE  IInv'
  BY <1>2, IngestInv
<1>3. ASSUME NEW r \in Runs, NewAttempt(r)
      PROVE  IInv'
  BY <1>3, NewAttemptInv
<1>4. ASSUME NEW r \in Runs, NEW i \in DOMAIN attempts[r],
             JobMove(r, i) \/ Capture(r, i) \/ TransferMove(r, i)
      PROVE  IInv'
  BY <1>4, JobInv
<1>5. CASE UNCHANGED vars
  BY <1>5 DEF IInv, TypeOK, OutcomesAgree, NothingStitched, vars
<1> QED
  BY <1>1, <1>2, <1>3, <1>4, <1>5 DEF Next

LEMMA Invariance == Spec => []IInv
<1> QED
  BY InitHolds, InductiveStep, PTL DEF Spec

-----------------------------------------------------------------------------
(* What the view and the projection say.                                   *)

\* COMPLETED is said of an ingested batch whose job was published, and
\* SUCCEEDED of none.
LEMMA OverallMeans ==
    ASSUME TypeOK, NEW r \in Runs, NEW job \in Job
    PROVE  /\ Overall(r, job) \in Completed =>
                /\ ingested[r] \in {"clean", "rejects"}
                /\ job.transfer \in Transfer /\ job.transfer.status = "PUBLISHED"
           /\ Overall(r, job) # "SUCCEEDED"
           /\ ingested[r] \in {"none", "processing"} => Overall(r, job) = "INGESTING"
           /\ ingested[r] = "failed" => Overall(r, job) = "FAILED"
<1>1. /\ ingested[r] \in {"none", "processing", "clean", "rejects", "failed"}
      /\ job.status \in {"QUEUED", "WAITING_FOR_LOCK", "VALIDATING", "RUNNING", "UNKNOWN",
                         "SUCCEEDED", "FAILED"}
      /\ job.transfer \in Transfer \cup {NoTransfer} /\ job.issue \in BOOLEAN
  BY DEF TypeOK, Job, JobStatus, Outcome
<1>2. /\ ingested[r] \in {"none", "processing"} => Overall(r, job) = "INGESTING"
      /\ ingested[r] = "failed" => Overall(r, job) = "FAILED"
  BY DEF Overall
<1>3. ingested[r] \in {"clean", "rejects"} /\ job.status # "SUCCEEDED" =>
        Overall(r, job) \in {"STITCHING_QUEUED", "WAITING_FOR_LOCK", "VALIDATING", "STITCHING",
                             "STITCHING_UNKNOWN", "FAILED"}
  BY <1>1 DEF Overall
<1>4. ingested[r] \in {"clean", "rejects"} /\ job.status = "SUCCEEDED" /\ job.transfer = NoTransfer =>
        Overall(r, job) \in {"TRANSFER_PENDING", "TRANSFER_BLOCKED"}
  <2> SUFFICES ASSUME ingested[r] \in {"clean", "rejects"}, job.status = "SUCCEEDED",
                      job.transfer = NoTransfer
               PROVE  Overall(r, job) \in {"TRANSFER_PENDING", "TRANSFER_BLOCKED"}
    OBVIOUS
  <2>1. job.transfer.status # "PUBLISHED"
    BY NullAssumption DEF NoTransfer
  <2>2. CASE job.issue = TRUE
    BY <2>1, <2>2 DEF Overall
  <2>3. CASE job.issue = FALSE
    BY <2>1, <2>3 DEF Overall
  <2> QED
    BY <1>1, <2>2, <2>3
<1>5. ASSUME ingested[r] \in {"clean", "rejects"}, job.status = "SUCCEEDED", job.transfer # NoTransfer
      PROVE  /\ job.transfer \in Transfer
             /\ job.transfer.status # "PUBLISHED" =>
                  Overall(r, job) \in {"TRANSFER_PENDING", "TRANSFERRING", "TRANSFER_FAILED",
                                       "TRANSFER_BLOCKED"}
             /\ job.transfer.status = "PUBLISHED" => Overall(r, job) \in Completed
  <2>1. /\ job.transfer \in Transfer
        /\ job.transfer.status \in {"PENDING", "RUNNING", "FAILED", "BLOCKED", "PUBLISHED"}
    BY <1>1, <1>5 DEF Transfer
  <2>2. CASE job.transfer.status = "PUBLISHED"
    BY <1>1, <1>5, <2>1, <2>2 DEF Overall, Completed
  <2>3. CASE job.transfer.status # "PUBLISHED"
    <3>1. TransferStage(job.transfer) \in
            {"TRANSFER_PENDING", "TRANSFERRING", "TRANSFER_FAILED", "TRANSFER_BLOCKED"}
      BY <2>1, <2>3 DEF TransferStage
    <3>2. Overall(r, job) = TransferStage(job.transfer)
      BY <1>1, <1>5, <2>3 DEF Overall
    <3> QED
      BY <2>1, <2>3, <3>1, <3>2
  <2> QED
    BY <2>1, <2>2, <2>3
<1> QED
  BY <1>1, <1>2, <1>3, <1>4, <1>5 DEF Completed

\* A projected COMPLETED is the view's, of a transfer to the run's workspace,
\* whatever the row says of the execution.
LEMMA ProjectedMeans ==
    ASSUME TypeOK, NEW r \in Runs, NEW execution \in {"QUEUED", "RUNNING", "STITCHING"} \cup Outcome
    PROVE  LET shown == Projected(execution, ViewRow(r))
           IN /\ shown \in Completed =>
                    /\ attempts[r] # <<>>
                    /\ Latest(r).transfer = [status |-> "PUBLISHED", workspace |-> "own"]
                    /\ ingested[r] \in {"clean", "rejects"}
              /\ shown # "SUCCEEDED"
<1> DEFINE view == ViewRow(r)
           shown == Projected(execution, view)
<1>1. CASE attempts[r] = <<>>
  <2>1. view = NoRow
    BY <1>1 DEF ViewRow
  <2>2. ~EffectiveStitching(view) /\ ScopedStatus(view) \in {"TRANSFER_PENDING", "TRANSFER_BLOCKED"}
    BY <2>1 DEF EffectiveStitching, ScopedStatus, NoRow
  <2> QED
    BY <2>2 DEF Projected, Completed, Outcome
<1>2. CASE attempts[r] # <<>>
  <2> DEFINE job == Latest(r)
  <2>1. job \in Job /\ job.transfer \in Transfer \cup {NoTransfer}
    BY <1>2, LatestType DEF Job
  <2>2. view.overall = Overall(r, job) /\ view.workspace = job.transfer.workspace
    BY <1>2 DEF ViewRow
  <2>3. shown \in {"TRANSFER_BLOCKED", "TRANSFER_PENDING", "QUEUED", "RUNNING", "STITCHING", "FAILED"}
        \/ /\ shown = view.overall
           /\ view.workspace # "other"
           /\ view.overall \in Completed => view.workspace # NULL
    BY DEF Projected, ScopedStatus, Outcome
  <2>4. shown # "SUCCEEDED"
    BY <2>1, <2>2, <2>3, OverallMeans
  <2>5. ASSUME shown \in Completed
        PROVE  job.transfer = [status |-> "PUBLISHED", workspace |-> "own"] /\ ingested[r] \in {"clean", "rejects"}
    <3>1. Overall(r, job) \in Completed /\ job.transfer.workspace \notin {"other", NULL}
      BY <2>2, <2>3, <2>5 DEF Completed
    <3>2. /\ job.transfer \in Transfer /\ job.transfer.status = "PUBLISHED"
          /\ ingested[r] \in {"clean", "rejects"}
      BY <2>1, <3>1, OverallMeans
    <3> QED
      BY <3>1, <3>2 DEF Transfer
  <2> QED
    BY <1>2, <2>4, <2>5
<1> QED
  BY <1>1, <1>2

\* Without a job, or before ingestion has ended, the view proves nothing; of
\* an ingestion that failed it says the same as an execution that did.
LEMMA NoProof ==
    ASSUME IInv, NEW r \in Runs, attempts[r] = <<>> \/ ingested[r] \notin {"clean", "rejects"}
    PROVE  Projected("FAILED", ViewRow(r)) = "FAILED"
<1>1. CASE attempts[r] = <<>>
  BY <1>1 DEF ViewRow, NoRow, EffectiveStitching, Projected
<1>2. CASE attempts[r] # <<>>
  <2>1. Latest(r) \in Job /\ TypeOK
    BY <1>2, LatestType DEF IInv
  <2>2. Latest(r) = NewJob
    <3>1. attempts[r] \in Seq(Job) /\ Len(attempts[r]) \in DOMAIN attempts[r]
      BY <1>2, <2>1, EmptySeq DEF TypeOK
    <3> QED
      BY <1>2, <3>1 DEF IInv, NothingStitched, Latest
  <2>3. ViewRow(r).overall \in {"INGESTING", "FAILED"} /\ ViewRow(r).workspace = NULL
    BY <1>2, <2>1, <2>2, OverallMeans DEF ViewRow, TypeOK, NewJob, NoTransfer
  <2>4. CASE ViewRow(r).overall = "INGESTING"
    BY <2>4 DEF EffectiveStitching, EffectiveStatus, Completed, Projected
  <2>5. CASE ViewRow(r).overall = "FAILED"
    BY <2>3, <2>5, NullAssumption DEF Projected, ScopedStatus, Completed
  <2> QED
    BY <2>3, <2>4, <2>5
<1> QED
  BY <1>1, <1>2

-----------------------------------------------------------------------------
\* The rows of both histories keep their types through every retry.
THEOREM TypeCorrect == Spec => []TypeOK
<1>1. IInv => TypeOK
  BY DEF IInv
<1> QED
  BY <1>1, Invariance, PTL

\* A sync is shown COMPLETED only when its batch is ingested and its newest
\* attempt published to its own workspace, and SUCCEEDED is never shown.
THEOREM CompletedMeansPublished == Spec => []CompletedIsPublished
<1>1. ASSUME TypeOK PROVE CompletedIsPublished
  <2> SUFFICES ASSUME NEW r \in Runs
               PROVE  /\ Shown(r) \cap Completed # {} =>
                           /\ attempts[r] # <<>>
                           /\ Latest(r).transfer = [status |-> "PUBLISHED", workspace |-> "own"]
                           /\ ingested[r] \in {"clean", "rejects"}
                      /\ "SUCCEEDED" \notin Shown(r)
    BY DEF CompletedIsPublished
  <2>1. /\ run[r] \in {"QUEUED", "RUNNING", "STITCHING"} \cup Outcome
        /\ operation[r] \in {"QUEUED", "RUNNING", "STITCHING"} \cup Outcome
    BY <1>1 DEF TypeOK
  <2> QED
    BY <1>1, <2>1, ProjectedMeans DEF Shown, GetRun, GetOperation
<1> QED
  BY <1>1, TypeCorrect, PTL

\* A sync that failed before stitching is shown FAILED by both reads.
THEOREM FailuresAreShown == Spec => []FailureIsShown
<1>1. ASSUME IInv PROVE FailureIsShown
  <2> SUFFICES ASSUME NEW r \in Runs, operation[r] = "FAILED",
                      attempts[r] = <<>> \/ ingested[r] \notin {"clean", "rejects"}
               PROVE  Shown(r) = {"FAILED"}
    BY DEF FailureIsShown
  <2>1. run[r] = "FAILED"
    BY <1>1 DEF IInv, OutcomesAgree, Outcome
  <2>2. Projected("FAILED", ViewRow(r)) = "FAILED"
    BY <1>1, NoProof
  <2> QED
    BY <2>1, <2>2 DEF Shown, GetRun, GetOperation
<1> QED
  BY <1>1, Invariance, PTL

\* The list counts the runs whose operation is shown COMPLETED, and once a
\* sync has ended both reads show the same.
THEOREM TheListAgrees == Spec => []ListAgrees
<1>1. ASSUME IInv PROVE ListAgrees
  <2>1. ASSUME NEW r \in Runs
        PROVE  /\ GetRun(r) \in Completed <=> GetOperation(r) \in Completed
               /\ Ended(r) => GetRun(r) = GetOperation(r)
    <3>1. /\ run[r] \in {"QUEUED", "STITCHING"} \cup Outcome
          /\ operation[r] \in {"QUEUED", "RUNNING"} \cup Outcome
          /\ operation[r] \in Outcome \/ run[r] \in Outcome => run[r] = operation[r]
      BY <1>1 DEF IInv, TypeOK, OutcomesAgree
    <3>2. CASE run[r] = operation[r]
      BY <3>2 DEF GetRun, GetOperation
    <3>3. CASE run[r] # operation[r]
      <4>1. run[r] \in {"QUEUED", "STITCHING"} /\ operation[r] \in {"QUEUED", "RUNNING"}
        BY <3>1, <3>3
      <4>2. GetRun(r) = GetOperation(r) \/ (GetRun(r) = run[r] /\ GetOperation(r) = operation[r])
        BY <4>1 DEF GetRun, GetOperation, Projected
      <4> QED
        BY <4>1, <4>2 DEF Ended, Outcome, Completed
    <3> QED
      BY <3>2, <3>3
  <2>2. SuccessfulRuns = {r \in Runs : GetOperation(r) \in Completed}
    BY <2>1 DEF SuccessfulRuns, GetRun
  <2> QED
    BY <2>1, <2>2 DEF ListAgrees, SuccessfulRecords
<1> QED
  BY <1>1, Invariance, PTL
=============================================================================
