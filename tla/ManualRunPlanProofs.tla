------------------------- MODULE ManualRunPlanProofs -------------------------
(***************************************************************************)
(* For any number of workspaces, keys, callers, parts, runs and documents: *)
(* the manual runs of a dataset are planned one at a time, a key makes one *)
(* run, a caller is told of its own runs only, and no plan passes over a   *)
(* document that was there when its worker began.                          *)
(***************************************************************************)
EXTENDS ManualRunPlan, TLAPS

-----------------------------------------------------------------------------
\* What a request has found out under the lock stays true until it commits.
PlanHoldsLock ==
    \A s \in Callers : At(s, "planned") =>
        /\ Found(session[s].request.workspace)
        /\ NoPrior(session[s].request)

\* A dataset is claimed with its first run and never claimed again.
OwnerIsRunOwner == \A r \in Runs : Exists(r) /\ run[r].owner # NULL => owner = run[r].owner

LeftOverHasNoKey == \A r \in Runs : Exists(r) /\ run[r].owner = NULL => run[r].key = NULL

AnswerExists == \A s \in Callers : At(s, "answered") => Exists(session[s].run)

\* WatermarkIsEarned alone is not inductive: the end of a piece of work adds
\* to what is done only if its start was, so that must hold for every piece of
\* work that is not at its end, of a run and of a plan that is not committed.
EarnedTo(p, cursor) == \A n \in documents[p] \ late[p] : n <= cursor => n \in done[p]

StartIsEarned(work) == \A p \in Parts : Open(work[p]) => EarnedTo(p, work[p].start)

WorkIsEarned ==
    /\ \A r \in Runs : Exists(r) => StartIsEarned(run[r].work)
    /\ \A s \in Callers : At(s, "planned") => StartIsEarned(session[s].work)

\* The invariant of the lock and of what is committed under it.
LockInv ==
    /\ InsertIsNeverRefused
    /\ PlanHoldsLock
    /\ OwnerIsRunOwner
    /\ LeftOverHasNoKey
    /\ OneRunPerKey
    /\ AnswerExists
    /\ AnswerIsOwn

\* The invariant of the documents.
DocumentInv == WatermarkIsEarned /\ WorkIsEarned

IInv == TypeOK /\ LockInv /\ DocumentInv

-----------------------------------------------------------------------------
(* What the types say.                                                     *)

LEMMA SessionTypes ==
    ASSUME TypeOK, NEW s \in Callers
    PROVE  /\ session[s] \in Session
           /\ At(s, "discovered") => /\ session[s].request \in Request
                                     /\ session[s].cutoff \in [Parts -> Cursor]
           /\ At(s, "planned") => /\ session[s].request \in Request
                                  /\ session[s].work \in [Parts -> Work]
           /\ At(s, "answered") => /\ session[s].request \in Request
                                   /\ session[s].run \in Runs
BY DEF TypeOK, Session, At

\* A run that is active, or has work, exists.
LEMMA RunTypes ==
    ASSUME TypeOK, NEW r \in Runs
    PROVE  /\ Exists(r) <=> run[r] \in Run
           /\ Active(r) => Exists(r)
           /\ Exists(r) => /\ run[r].owner \in Workspaces \cup {NULL}
                           /\ run[r].key \in Keys \cup {NULL}
                           /\ run[r].work \in [Parts -> Work]
<1>1. run[r] \in Run \cup {NoRun}
  BY DEF TypeOK
<1>2. \A x \in Run : x.status # "NONE"
  BY DEF Run, ActiveStatus
<1>3. NoRun.status = "NONE"
  BY DEF NoRun
<1>4. Exists(r) <=> run[r] \in Run
  BY <1>1, <1>2, <1>3 DEF Exists
<1>5. Active(r) => Exists(r)
  BY <1>3 DEF Active, ActiveStatus, Exists
<1> QED
  BY <1>4, <1>5 DEF Run

LEMMA WorkTypes ==
    ASSUME NEW work \in Work, Open(work)
    PROVE  work # NoWork /\ work.start \in Cursor /\ work.cutoff \in Cursor
BY DEF Work, NoWork, Open

\* A plan starts at the watermark, in every part that has something to do.
LEMMA PlanTypes ==
    ASSUME TypeOK, NEW cutoff \in [Parts -> Cursor], NEW busy \in SUBSET Parts
    PROVE  /\ PlanOf(cutoff, busy) \in [Parts -> Work]
           /\ \A p \in Parts :
                Open(PlanOf(cutoff, busy)[p]) => PlanOf(cutoff, busy)[p].start = watermark[p]
BY DEF TypeOK, PlanOf, Start, Work, Open, NoWork

-----------------------------------------------------------------------------
(* The workers, seen from a request: the run is the same run, of the same  *)
(* owner and key, its work starts where it did, and none becomes active    *)
(* that was not.                                                           *)

\* x is what a step of the workers may make of run r.
KeepsRun(r, x) ==
    /\ x \in Run
    /\ x.owner = run[r].owner /\ x.key = run[r].key
    /\ x.status \in ActiveStatus => Active(r)
    /\ \A p \in Parts : Open(x.work[p]) =>
            Open(run[r].work[p]) /\ x.work[p].start = run[r].work[p].start

WorkerStep(r, x) == Exists(r) /\ run' = [run EXCEPT ![r] = x] /\ KeepsRun(r, x)

\* Writing the status of a piece of work.
LEMMA WorkStatus ==
    ASSUME NEW work \in Work, Open(work),
           NEW status \in {"PENDING", "RUNNING", "COMPLETE", "FAILED"}
    PROVE  /\ [work EXCEPT !.status = status] \in Work
           /\ [work EXCEPT !.status = status].start = work.start
BY WorkTypes DEF Work

\* ... and with it the status of the run.
LEMMA RunWork ==
    ASSUME NEW r \in Runs, NEW p \in Parts, run[r] \in Run, Open(run[r].work[p]),
           NEW status \in {"PENDING", "RUNNING", "COMPLETE", "FAILED"}
    PROVE  /\ KeepsRun(r, [run[r] EXCEPT !.work[p].status = status])
           /\ Active(r) =>
                KeepsRun(r, [run[r] EXCEPT !.work[p].status = status, !.status = "RUNNING"])
<1> DEFINE work == run[r].work
           new == [work EXCEPT ![p] = [@ EXCEPT !.status = status]]
           x == [run[r] EXCEPT !.work[p].status = status]
           y == [run[r] EXCEPT !.work[p].status = status, !.status = "RUNNING"]
<1>1. work \in [Parts -> Work]
  BY DEF Run
<1>2. /\ [work[p] EXCEPT !.status = status] \in Work
      /\ [work[p] EXCEPT !.status = status].start = work[p].start
  BY <1>1, WorkStatus
<1>3. /\ new \in [Parts -> Work]
      /\ \A q \in Parts : Open(new[q]) => Open(work[q]) /\ new[q].start = work[q].start
  BY <1>1, <1>2
<1>4. x = [owner |-> run[r].owner, key |-> run[r].key, status |-> run[r].status, work |-> new]
  <2>1. x = [run[r] EXCEPT !.work = new]
    OBVIOUS
  <2> HIDE DEF new, x
  <2> QED
    BY <2>1 DEF Run
<1>5. y = [owner |-> run[r].owner, key |-> run[r].key, status |-> "RUNNING", work |-> new]
  <2>1. y = [x EXCEPT !.status = "RUNNING"]
    OBVIOUS
  <2> HIDE DEF new, x, y
  <2> QED
    BY <1>4, <2>1
<1>6. /\ run[r].owner \in Workspaces \cup {NULL} /\ run[r].key \in Keys \cup {NULL}
      /\ run[r].status \in ActiveStatus \cup {"SUCCEEDED", "FAILED"}
  BY DEF Run
<1> HIDE DEF new, x, y
<1>7. KeepsRun(r, x)
  BY <1>3, <1>4, <1>6 DEF KeepsRun, Run, Active
<1>8. Active(r) => KeepsRun(r, y)
  BY <1>3, <1>5, <1>6 DEF KeepsRun, Run, ActiveStatus
<1> QED
  BY <1>7, <1>8 DEF x, y

LEMMA WorkersStep ==
    ASSUME TypeOK,
           \/ \E r \in Runs, p \in Parts : WorkBegin(r, p) \/ WorkEnd(r, p)
           \/ \E r \in Runs : RunEnd(r)
    PROVE  /\ \E r \in Runs, x \in Run : WorkerStep(r, x)
           /\ UNCHANGED <<owner, documents, session>>
<1>1. ASSUME NEW r \in Runs, NEW p \in Parts, WorkBegin(r, p)
      PROVE  \E x \in Run : WorkerStep(r, x)
  <2> DEFINE x == [run[r] EXCEPT !.work[p].status = "RUNNING", !.status = "RUNNING"]
  <2>1. Active(r) /\ Exists(r) /\ run[r] \in Run
    BY <1>1, RunTypes DEF WorkBegin
  <2>2. Open(run[r].work[p])
    BY <1>1 DEF WorkBegin, Open
  <2>3. run' = [run EXCEPT ![r] = x]
    BY <1>1 DEF WorkBegin, TypeOK
  <2>4. KeepsRun(r, x)
    BY <2>1, <2>2, RunWork
  <2> HIDE DEF x
  <2> QED
    BY <2>1, <2>3, <2>4 DEF WorkerStep, KeepsRun
<1>2. ASSUME NEW r \in Runs, NEW p \in Parts, WorkEnd(r, p)
      PROVE  \E x \in Run : WorkerStep(r, x)
  <2>1. Exists(r) /\ run[r] \in Run
    BY <1>2, RunTypes DEF WorkEnd
  <2>2. Open(run[r].work[p])
    BY <1>2 DEF WorkEnd, Open
  <2>3. PICK status \in {"COMPLETE", "FAILED"} :
            run' = [run EXCEPT ![r].work[p].status = status]
    BY <1>2 DEF WorkEnd
  <2> DEFINE x == [run[r] EXCEPT !.work[p].status = status]
  <2>4. run' = [run EXCEPT ![r] = x]
    BY <2>3 DEF TypeOK
  <2>5. KeepsRun(r, x)
    BY <2>1, <2>2, RunWork
  <2> HIDE DEF x
  <2> QED
    BY <2>1, <2>4, <2>5 DEF WorkerStep, KeepsRun
<1>3. ASSUME NEW r \in Runs, RunEnd(r)
      PROVE  \E x \in Run : WorkerStep(r, x)
  <2>1. Active(r) /\ Exists(r) /\ run[r] \in Run
    BY <1>3, RunTypes DEF RunEnd
  <2>2. PICK status \in {"SUCCEEDED", "FAILED"} : run' = [run EXCEPT ![r].status = status]
    BY <1>3 DEF RunEnd
  <2> DEFINE x == [run[r] EXCEPT !.status = status]
  <2>3. run' = [run EXCEPT ![r] = x]
    BY <2>2 DEF TypeOK
  <2>4. KeepsRun(r, x)
    BY <2>1 DEF KeepsRun, Run, ActiveStatus
  <2> HIDE DEF x
  <2> QED
    BY <2>1, <2>3, <2>4 DEF WorkerStep, KeepsRun
<1> QED
  BY <1>1, <1>2, <1>3 DEF WorkBegin, WorkEnd, RunEnd

-----------------------------------------------------------------------------
LEMMA InitHolds == Init => IInv
<1> SUFFICES ASSUME Init PROVE IInv
  OBVIOUS
<1>1. 0 \in Cursor
  BY BoundAssumption DEF Cursor
<1>2. LeftOver \in Run /\ LeftOver.owner = NULL /\ LeftOver.key = NULL
  BY DEF LeftOver, Run, ActiveStatus, Work
<1>3. \A r \in Runs : run[r] = NoRun \/ run[r] = LeftOver
  BY DEF Init
<1>4. TypeOK
  <2>1. run \in [Runs -> Run \cup {NoRun}]
    BY <1>2 DEF Init
  <2> QED
    BY <1>1, <2>1 DEF Init, TypeOK, Session, Idle
<1>5. \A s \in Callers, pc \in {"planned", "answered"} : ~At(s, pc)
  BY DEF Init, At, Idle
<1>6. LockInv
  BY <1>2, <1>3, <1>5, NullAssumption
  DEF LockInv, InsertIsNeverRefused, PlanHoldsLock, OwnerIsRunOwner, LeftOverHasNoKey,
      OneRunPerKey, AnswerExists, AnswerIsOwn, Exists
<1>7. DocumentInv
  <2>1. \A r \in Runs, p \in Parts : Exists(r) => run[r].work[p] = NoWork
    BY <1>3 DEF LeftOver, Exists
  <2>2. WatermarkIsEarned
    BY DEF Init, WatermarkIsEarned
  <2> QED
    BY <1>5, <2>1, <2>2 DEF DocumentInv, WorkIsEarned, StartIsEarned, Open, NoWork
<1> QED
  BY <1>4, <1>6, <1>7 DEF IInv

-----------------------------------------------------------------------------
(* The steps of a request.                                                 *)

\* A request that goes on to another place without a commit.
Waiting(s) ==
    \/ \E q \in Request, cutoff \in [Parts -> Cursor] : Discover(s, q, cutoff)
    \/ NotFound(s) \/ PlanFails(s) \/ Return(s)

LEMMA WaitingTypes ==
    ASSUME TypeOK, NEW s \in Callers, Waiting(s)
    PROVE  TypeOK'
<1>1. CASE \E q \in Request, cutoff \in [Parts -> Cursor] : Discover(s, q, cutoff)
  BY <1>1 DEF Discover, Goto, TypeOK, Session
<1>2. CASE NotFound(s) \/ PlanFails(s) \/ Return(s)
  BY <1>2 DEF NotFound, PlanFails, Return, Goto, TypeOK, Session, Idle
<1> QED
  BY <1>1, <1>2 DEF Waiting

LEMMA AnswerTypes ==
    ASSUME TypeOK, NEW s \in Callers, NEW r \in Runs, Replay(s, r) \/ JoinActive(s, r)
    PROVE  TypeOK'
<1>1. session[s].request \in Request /\ session[s].request.workspace \in Workspaces
  BY SessionTypes DEF Replay, JoinActive, Request
<1>2. session' \in [Callers -> Session]
  BY <1>1 DEF Replay, JoinActive, Goto, TypeOK, Session, Idle
<1> QED
  BY <1>1, <1>2 DEF Replay, JoinActive, Claim, TypeOK

LEMMA PlanStepTypes ==
    ASSUME TypeOK, NEW s \in Callers, NEW busy \in SUBSET Parts, Plan(s, busy)
    PROVE  TypeOK'
<1>1. session[s].request \in Request /\ session[s].cutoff \in [Parts -> Cursor]
  BY SessionTypes DEF Plan
<1>2. PlanOf(session[s].cutoff, busy) \in [Parts -> Work]
  BY <1>1, PlanTypes
<1>3. session' \in [Callers -> Session]
  BY <1>1, <1>2 DEF Plan, Goto, TypeOK, Session
<1> QED
  BY <1>3 DEF Plan, TypeOK

LEMMA CommitTypes ==
    ASSUME TypeOK, NEW s \in Callers, NEW r \in Runs, PlanCommit(s, r)
    PROVE  TypeOK'
<1> DEFINE q == session[s].request
           work == session[s].work
<1>1. q \in Request /\ q.workspace \in Workspaces /\ q.key \in Keys \cup {NULL}
  BY SessionTypes DEF PlanCommit, Request
<1>2. work \in [Parts -> Work]
  BY SessionTypes DEF PlanCommit
<1>3. [owner |-> q.workspace, key |-> q.key, status |-> StatusOfPlan(work), work |-> work] \in Run
  BY <1>1, <1>2 DEF StatusOfPlan, Run, ActiveStatus
<1>4. run' \in [Runs -> Run \cup {NoRun}]
  BY <1>3 DEF PlanCommit, TypeOK
<1>5. session' \in [Callers -> Session]
  BY <1>1 DEF PlanCommit, Goto, TypeOK, Session, Idle
<1> QED
  BY <1>1, <1>4, <1>5 DEF PlanCommit, Claim, TypeOK

LEMMA OutsideTypes ==
    ASSUME TypeOK,
           \/ \E p \in Parts, n \in Document : Ingest(p, n)
           \/ \E r \in Runs, p \in Parts : WorkBegin(r, p) \/ WorkEnd(r, p)
           \/ \E r \in Runs : RunEnd(r)
    PROVE  TypeOK'
<1>1. ASSUME NEW p \in Parts, NEW n \in Document, Ingest(p, n)
      PROVE  TypeOK'
  BY <1>1 DEF Ingest, TypeOK
<1>2. ASSUME NEW r \in Runs, NEW p \in Parts, WorkBegin(r, p) \/ WorkEnd(r, p)
      PROVE  TypeOK'
  <2>1. run' \in [Runs -> Run \cup {NoRun}]
    BY <1>2, WorkersStep DEF WorkerStep, TypeOK
  <2>2. CASE WorkBegin(r, p)
    BY <2>1, <2>2 DEF WorkBegin, TypeOK
  <2>3. CASE WorkEnd(r, p)
    <3>1. run[r].work[p] \in Work /\ Open(run[r].work[p])
      BY <2>3, RunTypes DEF WorkEnd, Open
    <3>2. run[r].work[p].cutoff \in Cursor /\ Read(p, run[r].work[p]) \subseteq Document
      BY <3>1, WorkTypes DEF Read, TypeOK
    <3> QED
      BY <2>1, <2>3, <3>2 DEF WorkEnd, TypeOK
  <2> QED
    BY <1>2, <2>2, <2>3
<1>3. ASSUME NEW r \in Runs, RunEnd(r)
      PROVE  TypeOK'
  <2>1. run' \in [Runs -> Run \cup {NoRun}]
    BY <1>3, WorkersStep DEF WorkerStep, TypeOK
  <2> QED
    BY <1>3, <2>1 DEF RunEnd, TypeOK
<1> QED
  BY <1>1, <1>2, <1>3

LEMMA TypeStep == TypeOK /\ [Next]_vars => TypeOK'
<1> SUFFICES ASSUME TypeOK, [Next]_vars PROVE TypeOK'
  OBVIOUS
<1>1. CASE UNCHANGED vars
  BY <1>1 DEF vars, TypeOK
<1>2. CASE Next
  BY <1>2, WaitingTypes, AnswerTypes, PlanStepTypes, CommitTypes, OutsideTypes
  DEF Next, Waiting
<1> QED
  BY <1>1, <1>2

-----------------------------------------------------------------------------
(* The lock.                                                               *)

\* A request that leaves, or reads the source, disturbs nothing.
LEMMA WaitingLock ==
    ASSUME TypeOK, LockInv, NEW s \in Callers, Waiting(s)
    PROVE  LockInv'
<1>1. /\ owner' = owner /\ run' = run
      /\ \A t \in Callers \ {s} : session'[t] = session[t]
      /\ ~At(s, "planned")' /\ ~At(s, "answered")'
  BY DEF Waiting, Discover, NotFound, PlanFails, Return, Goto, TypeOK, At, Idle
<1>2. \A t \in Callers, pc \in {"planned", "answered"} :
          At(t, pc)' => At(t, pc) /\ session'[t] = session[t]
  BY <1>1 DEF At
<1>3. InsertIsNeverRefused'
  BY <1>1, <1>2 DEF LockInv, InsertIsNeverRefused, Active
<1>4. PlanHoldsLock'
  BY <1>1, <1>2 DEF LockInv, PlanHoldsLock, Found, NoPrior, Prior, Exists
<1>5. OwnerIsRunOwner' /\ LeftOverHasNoKey' /\ OneRunPerKey'
  BY <1>1 DEF LockInv, OwnerIsRunOwner, LeftOverHasNoKey, OneRunPerKey, Exists
<1>6. AnswerExists' /\ AnswerIsOwn'
  BY <1>1, <1>2 DEF LockInv, AnswerExists, AnswerIsOwn, Exists
<1> QED
  BY <1>3, <1>4, <1>5, <1>6 DEF LockInv

\* The dataset an answer claims is the caller's already or nobody's, and then
\* no run has an owner.
LEMMA ClaimKeepsOwner ==
    ASSUME OwnerIsRunOwner, NEW w \in Workspaces, Found(w), NEW r \in Runs, Exists(r)
    PROVE  run[r].owner # NULL => run[r].owner = w
BY NullAssumption DEF OwnerIsRunOwner, Found

LEMMA AnswerLock ==
    ASSUME TypeOK, LockInv, NEW s \in Callers, NEW r \in Runs, Replay(s, r) \/ JoinActive(s, r)
    PROVE  LockInv'
<1> DEFINE q == session[s].request
<1>1. /\ run' = run /\ Found(q.workspace) /\ q \in Request
      /\ \A t \in Callers \ {s} : session'[t] = session[t]
      /\ \A t \in Callers : ~At(t, "planned")
  BY SessionTypes DEF Replay, JoinActive, Goto, TypeOK, LockFree
<1>2. q.workspace \in Workspaces
  BY <1>1 DEF Request
<1>3. \/ session'[s] = Idle /\ owner' = owner
      \/ /\ session'[s] = [pc |-> "answered", request |-> q, run |-> r]
         /\ owner' = q.workspace
         /\ Exists(r) /\ run[r].owner = q.workspace
  <2>1. CASE Replay(s, r)
    BY <2>1 DEF Replay, Prior, Goto, Claim, TypeOK
  <2>2. CASE JoinActive(s, r)
    <3>1. CASE MayJoin(r)
      <4>1. Exists(r)
        BY <2>2, RunTypes DEF JoinActive
      <4>2. run[r].owner = q.workspace
        BY <1>1, <1>2, <3>1, <4>1, ClaimKeepsOwner DEF MayJoin, LockInv
      <4> QED
        BY <2>2, <3>1, <4>1, <4>2 DEF JoinActive, Goto, Claim, TypeOK
    <3>2. CASE ~MayJoin(r)
      BY <2>2, <3>2 DEF JoinActive, Goto, TypeOK
    <3> QED
      BY <3>1, <3>2
  <2> QED
    BY <2>1, <2>2
<1>4. \A t \in Callers : ~At(t, "planned")'
  BY <1>1, <1>3 DEF At, Idle
<1>5. InsertIsNeverRefused' /\ PlanHoldsLock'
  BY <1>4 DEF InsertIsNeverRefused, PlanHoldsLock
<1>6. OwnerIsRunOwner'
  BY <1>1, <1>2, <1>3, ClaimKeepsOwner DEF LockInv, OwnerIsRunOwner, Exists
<1>7. LeftOverHasNoKey' /\ OneRunPerKey'
  BY <1>1 DEF LockInv, LeftOverHasNoKey, OneRunPerKey, Exists
<1>8. AnswerExists' /\ AnswerIsOwn'
  <2> SUFFICES ASSUME NEW t \in Callers, At(t, "answered")'
               PROVE  /\ Exists(session[t].run)'
                      /\ (run[session[t].run].owner = session[t].request.workspace)'
    BY DEF AnswerExists, AnswerIsOwn
  <2>1. CASE t = s
    BY <1>1, <1>3, <2>1 DEF At, Idle, Exists
  <2>2. CASE t # s
    BY <1>1, <2>2 DEF At, Exists, LockInv, AnswerExists, AnswerIsOwn
  <2> QED
    BY <2>1, <2>2
<1> QED
  BY <1>5, <1>6, <1>7, <1>8 DEF LockInv

LEMMA PlanLock ==
    ASSUME TypeOK, LockInv, NEW s \in Callers, NEW busy \in SUBSET Parts, Plan(s, busy)
    PROVE  LockInv'
<1> DEFINE q == session[s].request
<1>1. /\ owner' = owner /\ run' = run
      /\ Found(q.workspace) /\ NoPrior(q) /\ \A r \in Runs : ~Active(r)
      /\ \A t \in Callers \ {s} : session'[t] = session[t]
      /\ session'[s].pc = "planned" /\ session'[s].request = q
      /\ \A t \in Callers : ~At(t, "planned")
  BY DEF Plan, Goto, TypeOK, LockFree
<1>2. InsertIsNeverRefused'
  BY <1>1 DEF InsertIsNeverRefused, At, Active
<1>3. PlanHoldsLock'
  BY <1>1 DEF PlanHoldsLock, At, Found, NoPrior, Prior, Exists
<1>4. OwnerIsRunOwner' /\ LeftOverHasNoKey' /\ OneRunPerKey'
  BY <1>1 DEF LockInv, OwnerIsRunOwner, LeftOverHasNoKey, OneRunPerKey, Exists
<1>5. AnswerExists' /\ AnswerIsOwn'
  BY <1>1 DEF LockInv, AnswerExists, AnswerIsOwn, Exists, At
<1> QED
  BY <1>2, <1>3, <1>4, <1>5 DEF LockInv

\* The insert: no run was active, so it is not refused, and no run has the key.
LEMMA CommitLock ==
    ASSUME TypeOK, LockInv, NEW s \in Callers, NEW r \in Runs, PlanCommit(s, r)
    PROVE  LockInv'
<1> DEFINE q == session[s].request
<1>1. /\ q \in Request /\ q.workspace \in Workspaces /\ q.workspace # NULL
      /\ At(s, "planned")
  BY SessionTypes, NullAssumption DEF PlanCommit, Request
<1>2. /\ \A x \in Runs : ~Active(x)
      /\ \A t \in Callers : At(t, "planned") => t = s
      /\ Found(q.workspace) /\ NoPrior(q)
  BY <1>1 DEF LockInv, InsertIsNeverRefused, PlanHoldsLock
<1>3. /\ ~Exists(r)
      /\ owner' = q.workspace
      /\ Exists(r)' /\ run'[r].owner = q.workspace /\ run'[r].key = q.key
      /\ \A x \in Runs \ {r} : run'[x] = run[x]
      /\ session'[s] = [pc |-> "answered", request |-> q, run |-> r]
      /\ \A t \in Callers \ {s} : session'[t] = session[t]
  <2>1. run'[r] = [owner |-> q.workspace, key |-> q.key,
                   status |-> StatusOfPlan(session[s].work), work |-> session[s].work]
    BY <1>2 DEF PlanCommit, TypeOK
  <2>2. StatusOfPlan(session[s].work) # "NONE"
    BY DEF StatusOfPlan
  <2>3. Exists(r)'
    BY <2>1, <2>2 DEF Exists, NoRun
  <2> QED
    BY <1>2, <2>1, <2>3 DEF PlanCommit, Claim, Goto, TypeOK, Exists
<1>4. \A t \in Callers : ~At(t, "planned")'
  BY <1>2, <1>3 DEF At
<1>5. InsertIsNeverRefused' /\ PlanHoldsLock'
  BY <1>4 DEF InsertIsNeverRefused, PlanHoldsLock
<1>6. OwnerIsRunOwner'
  <2> SUFFICES ASSUME NEW x \in Runs, Exists(x)', run'[x].owner # NULL
               PROVE  owner' = run'[x].owner
    BY DEF OwnerIsRunOwner
  <2>1. CASE x = r
    BY <1>3, <2>1
  <2>2. CASE x # r
    BY <1>1, <1>2, <1>3, <2>2, ClaimKeepsOwner DEF LockInv, Exists
  <2> QED
    BY <2>1, <2>2
<1>7. LeftOverHasNoKey'
  BY <1>1, <1>3 DEF LockInv, LeftOverHasNoKey, Exists
<1>8. OneRunPerKey'
  <2>1. \A x \in Runs \ {r} : Exists(x) /\ q.key # NULL =>
            ~(run[x].owner = q.workspace /\ run[x].key = q.key)
    BY <1>2 DEF NoPrior, Prior
  <2> QED
    BY <1>3, <2>1 DEF LockInv, OneRunPerKey, Exists
<1>9. AnswerExists' /\ AnswerIsOwn'
  <2> SUFFICES ASSUME NEW t \in Callers, At(t, "answered")'
               PROVE  /\ Exists(session[t].run)'
                      /\ (run[session[t].run].owner = session[t].request.workspace)'
    BY DEF AnswerExists, AnswerIsOwn
  <2>1. CASE t = s
    BY <1>3, <2>1
  <2>2. CASE t # s
    <3>1. /\ At(t, "answered") /\ session'[t] = session[t]
      BY <1>3, <2>2 DEF At
    <3>2. session[t].run \in Runs \ {r}
      BY <1>3, <3>1, SessionTypes DEF LockInv, AnswerExists
    <3> QED
      BY <1>3, <3>1, <3>2 DEF Exists, LockInv, AnswerExists, AnswerIsOwn
  <2> QED
    BY <2>1, <2>2
<1> QED
  BY <1>5, <1>6, <1>7, <1>8, <1>9 DEF LockInv

\* What goes on outside changes neither owner nor key of a run, and makes none
\* active.
LEMMA OutsideLock ==
    ASSUME TypeOK, LockInv,
           \/ \E p \in Parts, n \in Document : Ingest(p, n)
           \/ \E r \in Runs, p \in Parts : WorkBegin(r, p) \/ WorkEnd(r, p)
           \/ \E r \in Runs : RunEnd(r)
    PROVE  LockInv'
<1>1. CASE \E p \in Parts, n \in Document : Ingest(p, n)
  BY <1>1
  DEF Ingest, LockInv, InsertIsNeverRefused, PlanHoldsLock, OwnerIsRunOwner, LeftOverHasNoKey,
      OneRunPerKey, AnswerExists, AnswerIsOwn, At, Active, Exists, Found, NoPrior, Prior
<1>2. CASE \/ \E r \in Runs, p \in Parts : WorkBegin(r, p) \/ WorkEnd(r, p)
           \/ \E r \in Runs : RunEnd(r)
  <2>1. PICK r \in Runs, x \in Run : WorkerStep(r, x)
    BY <1>2, WorkersStep
  <2>2. owner' = owner /\ session' = session
    BY <1>2, WorkersStep
  <2>3. run'[r] = x /\ \A y \in Runs \ {r} : run'[y] = run[y]
    BY <2>1 DEF WorkerStep, TypeOK
  <2>4. Exists(r)'
    <3>1. x.status # "NONE"
      BY DEF Run, ActiveStatus
    <3> QED
      BY <2>3, <3>1 DEF Exists, NoRun
  <2>5. \A y \in Runs : /\ Exists(y)' <=> Exists(y)
                        /\ Exists(y) => run'[y].owner = run[y].owner /\ run'[y].key = run[y].key
                        /\ Active(y)' => Active(y)
    BY <2>1, <2>3, <2>4 DEF WorkerStep, KeepsRun, Exists, Active
  <2>6. InsertIsNeverRefused'
    BY <2>2, <2>5 DEF LockInv, InsertIsNeverRefused, At
  <2>7. PlanHoldsLock'
    BY <2>2, <2>5 DEF LockInv, PlanHoldsLock, At, Found, NoPrior, Prior
  <2>8. OwnerIsRunOwner' /\ LeftOverHasNoKey' /\ OneRunPerKey'
    BY <2>2, <2>5 DEF LockInv, OwnerIsRunOwner, LeftOverHasNoKey, OneRunPerKey
  <2>9. AnswerExists' /\ AnswerIsOwn'
    BY <2>2, <2>5, SessionTypes DEF LockInv, AnswerExists, AnswerIsOwn, At
  <2> QED
    BY <2>6, <2>7, <2>8, <2>9 DEF LockInv
<1> QED
  BY <1>1, <1>2

LEMMA LockStep == TypeOK /\ LockInv /\ [Next]_vars => LockInv'
<1> SUFFICES ASSUME TypeOK, LockInv, [Next]_vars PROVE LockInv'
  OBVIOUS
<1>1. CASE UNCHANGED vars
  BY <1>1
  DEF vars, LockInv, InsertIsNeverRefused, PlanHoldsLock, OwnerIsRunOwner, LeftOverHasNoKey,
      OneRunPerKey, AnswerExists, AnswerIsOwn, At, Active, Exists, Found, NoPrior, Prior
<1>2. CASE Next
  BY <1>2, WaitingLock, AnswerLock, PlanLock, CommitLock, OutsideLock DEF Next, Waiting
<1> QED
  BY <1>1, <1>2

-----------------------------------------------------------------------------
(* The documents.                                                          *)

\* A request writes no watermark; its plan starts at the ones it reads.
LEMMA CallerDocuments ==
    ASSUME IInv, NEW s \in Callers,
           \/ Waiting(s)
           \/ \E busy \in SUBSET Parts : Plan(s, busy)
           \/ \E r \in Runs : Replay(s, r) \/ JoinActive(s, r) \/ PlanCommit(s, r)
    PROVE  DocumentInv'
<1>1. UNCHANGED <<documents, watermark, done, late>>
  BY DEF Waiting, Discover, NotFound, PlanFails, Return, Plan, Replay, JoinActive, PlanCommit
<1>2. WatermarkIsEarned' /\ \A work : StartIsEarned(work)' <=> StartIsEarned(work)
  BY <1>1 DEF IInv, DocumentInv, WatermarkIsEarned, StartIsEarned, EarnedTo
<1>3. CASE Waiting(s) \/ \E r \in Runs : Replay(s, r) \/ JoinActive(s, r)
  <2>1. /\ run' = run
        /\ \A t \in Callers \ {s} : session'[t] = session[t]
        /\ ~At(s, "planned")'
    BY <1>3 DEF Waiting, Discover, NotFound, PlanFails, Return, Replay, JoinActive, Goto,
                IInv, TypeOK, At, Idle
  <2> QED
    BY <1>2, <2>1 DEF IInv, DocumentInv, WorkIsEarned, At, Exists
<1>4. ASSUME NEW busy \in SUBSET Parts, Plan(s, busy)
      PROVE  DocumentInv'
  <2>1. /\ run' = run
        /\ \A t \in Callers \ {s} : session'[t] = session[t]
        /\ session'[s].work = PlanOf(session[s].cutoff, busy)
        /\ session[s].cutoff \in [Parts -> Cursor]
    BY <1>4, SessionTypes DEF Plan, Goto, IInv, TypeOK
  <2>2. StartIsEarned(PlanOf(session[s].cutoff, busy))
    BY <2>1, PlanTypes DEF StartIsEarned, EarnedTo, IInv, DocumentInv, WatermarkIsEarned
  <2> QED
    BY <1>2, <2>1, <2>2 DEF IInv, DocumentInv, WorkIsEarned, At, Exists
<1>5. ASSUME NEW r \in Runs, PlanCommit(s, r)
      PROVE  DocumentInv'
  <2>1. /\ \A x \in Runs \ {r} : run'[x] = run[x]
        /\ run'[r] = run[r] \/ run'[r].work = session[s].work
        /\ \A t \in Callers \ {s} : session'[t] = session[t]
        /\ At(s, "planned") /\ ~At(s, "planned")'
    BY <1>5 DEF PlanCommit, Goto, IInv, TypeOK, At, Idle
  <2>2. StartIsEarned(session[s].work)
    BY <2>1 DEF IInv, DocumentInv, WorkIsEarned
  <2> QED
    BY <1>2, <2>1, <2>2 DEF IInv, DocumentInv, WorkIsEarned, At, Exists
<1> QED
  BY <1>3, <1>4, <1>5

\* A document that becomes visible below a watermark or a start is late.
LEMMA IngestDocuments ==
    ASSUME IInv, NEW p \in Parts, NEW n \in Document, Ingest(p, n)
    PROVE  DocumentInv'
<1>1. ASSUME NEW x \in Parts, NEW cursor, EarnedTo(x, cursor),
             x = p /\ n <= cursor => Overtaken(p, n)
      PROVE  EarnedTo(x, cursor)'
  <2> SUFFICES ASSUME NEW m \in documents'[x] \ late'[x], m <= cursor
               PROVE  m \in done'[x]
    BY DEF EarnedTo
  <2>1. done' = done /\ late[x] \subseteq late'[x]
    BY DEF Ingest, IInv, TypeOK
  <2>2. CASE m \in documents[x]
    BY <1>1, <2>1, <2>2 DEF EarnedTo
  <2>3. CASE m \notin documents[x]
    <3>1. x = p /\ m = n
      BY <2>3 DEF Ingest, IInv, TypeOK
    <3>2. n \in late'[p]
      BY <1>1, <3>1 DEF Ingest, IInv, TypeOK
    <3> QED
      BY <3>1, <3>2
  <2> QED
    BY <2>2, <2>3
<1>2. ASSUME NEW x \in Parts
      PROVE  EarnedTo(x, watermark[x])'
  <2>1. EarnedTo(x, watermark[x]) /\ watermark' = watermark
    BY DEF IInv, DocumentInv, WatermarkIsEarned, EarnedTo, Ingest
  <2>2. x = p /\ n <= watermark[x] => Overtaken(p, n)
    BY DEF Overtaken
  <2> QED
    BY <1>1, <2>1, <2>2 DEF EarnedTo
<1>3. ASSUME NEW work, StartIsEarned(work), \A x \in Parts : work[x] \in WorkOn(x)
      PROVE  StartIsEarned(work)'
  <2> SUFFICES ASSUME NEW x \in Parts, Open(work[x])
               PROVE  EarnedTo(x, work[x].start)'
    BY DEF StartIsEarned, EarnedTo
  <2>1. EarnedTo(x, work[x].start)
    BY <1>3 DEF StartIsEarned
  <2>2. x = p /\ n <= work[x].start => Overtaken(p, n)
    BY <1>3 DEF Overtaken
  <2> QED
    BY <1>1, <2>1, <2>2
<1>4. WorkIsEarned'
  <2>1. UNCHANGED <<run, session>>
    BY DEF Ingest
  <2>2. ASSUME NEW r \in Runs, Exists(r)
        PROVE  StartIsEarned(run[r].work)'
    <3>1. \A x \in Parts : run[r].work[x] \in WorkOn(x)
      BY <2>2 DEF WorkOn
    <3> QED
      BY <1>3, <2>1, <2>2, <3>1 DEF IInv, DocumentInv, WorkIsEarned, StartIsEarned
  <2>3. ASSUME NEW s \in Callers, At(s, "planned")
        PROVE  StartIsEarned(session[s].work)'
    <3>1. \A x \in Parts : session[s].work[x] \in WorkOn(x)
      BY <2>3 DEF WorkOn
    <3> QED
      BY <1>3, <2>1, <2>3, <3>1 DEF IInv, DocumentInv, WorkIsEarned, StartIsEarned
  <2> QED
    BY <2>1, <2>2, <2>3 DEF WorkIsEarned, Exists, At
<1> QED
  BY <1>2, <1>4 DEF DocumentInv, WatermarkIsEarned, EarnedTo

\* The workers take nothing back, and what they add to a watermark they have
\* read: a piece of work starts where all was done and reads on to its cutoff.
LEMMA WorkersDocuments ==
    ASSUME IInv, TypeOK',
           \/ \E r \in Runs, p \in Parts : WorkBegin(r, p) \/ WorkEnd(r, p)
           \/ \E r \in Runs : RunEnd(r)
    PROVE  /\ WatermarkIsEarned'
           /\ \A x \in Parts : \A cursor : EarnedTo(x, cursor) => EarnedTo(x, cursor)'
<1>1. ASSUME UNCHANGED <<documents, late>>, \A x \in Parts : done[x] \subseteq done'[x]
      PROVE  \A x \in Parts : \A cursor : EarnedTo(x, cursor) => EarnedTo(x, cursor)'
  BY <1>1 DEF EarnedTo
<1>2. CASE UNCHANGED <<documents, watermark, done, late>>
  BY <1>1, <1>2 DEF IInv, DocumentInv, WatermarkIsEarned
<1>3. ASSUME NEW r \in Runs, NEW p \in Parts, WorkEnd(r, p),
             ~UNCHANGED <<watermark, done>>
      PROVE  /\ WatermarkIsEarned'
             /\ \A x \in Parts : \A cursor : EarnedTo(x, cursor) => EarnedTo(x, cursor)'
  <2> DEFINE work == run[r].work[p]
  <2>1. /\ UNCHANGED <<documents, late>>
        /\ done' = [done EXCEPT ![p] = @ \cup Read(p, work)]
        /\ watermark' = [watermark EXCEPT ![p] = work.cutoff] \/ watermark' = watermark
    BY <1>3 DEF WorkEnd
  <2>2. \A x \in Parts : done[x] \subseteq done'[x]
    BY <2>1 DEF IInv, TypeOK
  <2>3. \A x \in Parts : EarnedTo(x, watermark[x])'
    <3> SUFFICES ASSUME NEW x \in Parts, NEW n \in documents[x] \ late[x], n <= watermark'[x]
                 PROVE  n \in done'[x]
      BY <2>1 DEF EarnedTo
    <3>1. CASE watermark'[x] = watermark[x]
      BY <2>2, <3>1 DEF IInv, DocumentInv, WatermarkIsEarned
    <3>2. CASE watermark'[x] # watermark[x]
      <4>1. x = p /\ n <= work.cutoff
        BY <2>1, <3>2 DEF IInv, TypeOK
      <4>2. Exists(r) /\ run[r].work \in [Parts -> Work] /\ Open(work)
        BY <1>3, RunTypes DEF WorkEnd, Open, IInv
      <4>3. work.start \in Nat /\ n \in Nat
        BY <4>2, WorkTypes DEF Cursor, Document, IInv, TypeOK
      <4>4. CASE n <= work.start
        BY <2>2, <4>1, <4>2, <4>4 DEF IInv, DocumentInv, WorkIsEarned, StartIsEarned, EarnedTo
      <4>5. CASE ~(n <= work.start)
        <5>1. n \in Read(p, work)
          BY <4>1, <4>3, <4>5 DEF Read
        <5> QED
          BY <2>1, <4>1, <5>1 DEF IInv, TypeOK
      <4> QED
        BY <4>4, <4>5
    <3> QED
      BY <3>1, <3>2
  <2> QED
    BY <1>1, <2>1, <2>2, <2>3 DEF WatermarkIsEarned, EarnedTo
<1> QED
  BY <1>2, <1>3 DEF WorkBegin, WorkEnd, RunEnd

LEMMA OutsideDocuments ==
    ASSUME IInv, TypeOK',
           \/ \E p \in Parts, n \in Document : Ingest(p, n)
           \/ \E r \in Runs, p \in Parts : WorkBegin(r, p) \/ WorkEnd(r, p)
           \/ \E r \in Runs : RunEnd(r)
    PROVE  DocumentInv'
<1>1. CASE \E p \in Parts, n \in Document : Ingest(p, n)
  BY <1>1, IngestDocuments
<1>2. CASE \/ \E r \in Runs, p \in Parts : WorkBegin(r, p) \/ WorkEnd(r, p)
           \/ \E r \in Runs : RunEnd(r)
  <2>1. /\ WatermarkIsEarned'
        /\ \A x \in Parts : \A cursor : EarnedTo(x, cursor) => EarnedTo(x, cursor)'
    BY <1>2, WorkersDocuments
  <2>2. PICK r \in Runs, x \in Run : WorkerStep(r, x)
    BY <1>2, WorkersStep DEF IInv
  <2>3. session' = session
    BY <1>2, WorkersStep DEF IInv
  <2>4. ASSUME NEW work, StartIsEarned(work)
        PROVE  StartIsEarned(work)'
    BY <2>1, <2>4 DEF StartIsEarned, EarnedTo
  <2>5. /\ run'[r] = x
        /\ \A y \in Runs \ {r} : run'[y] = run[y]
    BY <2>2 DEF WorkerStep, IInv, TypeOK
  <2>6. StartIsEarned(x.work)
    <3>1. StartIsEarned(run[r].work)
      BY <2>2 DEF WorkerStep, IInv, DocumentInv, WorkIsEarned
    <3> QED
      BY <2>2, <3>1 DEF WorkerStep, KeepsRun, StartIsEarned
  <2>7. ASSUME NEW y \in Runs, Exists(y)'
        PROVE  StartIsEarned(run[y].work)'
    <3>1. CASE y = r
      BY <2>4, <2>5, <2>6, <3>1 DEF StartIsEarned, EarnedTo
    <3>2. CASE y # r
      <4>1. Exists(y) /\ run'[y] = run[y]
        BY <2>5, <2>7, <3>2 DEF Exists
      <4>2. StartIsEarned(run[y].work)
        BY <4>1 DEF IInv, DocumentInv, WorkIsEarned
      <4> QED
        BY <2>4, <4>1, <4>2 DEF StartIsEarned, EarnedTo
    <3> QED
      BY <3>1, <3>2
  <2>8. ASSUME NEW t \in Callers, At(t, "planned")'
        PROVE  StartIsEarned(session[t].work)'
    <3>1. StartIsEarned(session[t].work)
      BY <2>3, <2>8 DEF At, IInv, DocumentInv, WorkIsEarned
    <3> QED
      BY <2>3, <2>4, <3>1 DEF StartIsEarned, EarnedTo
  <2> QED
    BY <2>1, <2>7, <2>8 DEF DocumentInv, WorkIsEarned
<1> QED
  BY <1>1, <1>2

LEMMA DocumentStep == IInv /\ [Next]_vars => DocumentInv'
<1> SUFFICES ASSUME IInv, [Next]_vars PROVE DocumentInv'
  OBVIOUS
<1>1. CASE UNCHANGED vars
  BY <1>1 DEF vars, IInv, DocumentInv, WatermarkIsEarned, WorkIsEarned, StartIsEarned, EarnedTo,
              At, Exists
<1>2. CASE Next
  <2>1. TypeOK'
    BY TypeStep DEF IInv
  <2> QED
    BY <1>2, <2>1, CallerDocuments, OutsideDocuments DEF Next, Waiting
<1> QED
  BY <1>1, <1>2

-----------------------------------------------------------------------------
LEMMA Invariance == Spec => []IInv
<1>1. Init => IInv
  BY InitHolds
<1>2. IInv /\ [Next]_vars => IInv'
  BY TypeStep, LockStep, DocumentStep DEF IInv
<1> QED
  BY <1>1, <1>2, PTL DEF Spec

\* The variables of a dataset's planning keep their types (TypeOK).
THEOREM TypeCorrect == Spec => []TypeOK
<1>1. IInv => TypeOK
  BY DEF IInv
<1> QED
  BY <1>1, Invariance, PTL

\* create_manual_run plans one run of a dataset at a time: the insert of a run
\* is never refused by the unique index of active runs, whoever else asks.
THEOREM InsertNeverRefused == Spec => []InsertIsNeverRefused
<1>1. IInv => InsertIsNeverRefused
  BY DEF IInv, LockInv
<1> QED
  BY <1>1, Invariance, PTL

\* An idempotency key of a workspace makes one run, over every retry.
THEOREM KeyMakesOneRun == Spec => []OneRunPerKey
<1>1. IInv => OneRunPerKey
  BY DEF IInv, LockInv
<1> QED
  BY <1>1, Invariance, PTL

\* A caller is answered with a run of its own workspace, and a run without a
\* workspace is never adopted.
THEOREM AnswersAreOwn == Spec => []AnswerIsOwn
<1>1. IInv => AnswerIsOwn
  BY DEF IInv, LockInv
<1> QED
  BY <1>1, Invariance, PTL

\* The plans of create_manual_run pass over no document but those that become
\* visible where a plan or a worker has already been: everything else up to a
\* watermark was standardized, however plans, failures and workers of failed
\* runs overlap, and in whatever order the documents arrive.
THEOREM WatermarksAreEarned == Spec => []WatermarkIsEarned
<1>1. IInv => WatermarkIsEarned
  BY DEF IInv, DocumentInv
<1> QED
  BY <1>1, Invariance, PTL
=============================================================================
