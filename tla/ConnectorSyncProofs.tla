------------------------- MODULE ConnectorSyncProofs -------------------------
(***************************************************************************)
(* For any number of datasets, mappings, callers, handlers, keys and       *)
(* occurrences: the lock of the workspace row keeps overlapping runs from  *)
(* the unique index, occurrences are decided once and agree with the runs, *)
(* and, as long as no two callers change a dataset at a time, runs use     *)
(* mappings that fit.                                                      *)
(***************************************************************************)
EXTENDS ConnectorSync, TLAPS

-----------------------------------------------------------------------------
\* A session with a plan, before or after it has taken the lock.
Plans(s) == session[s].pc \in {"planned", "admitted"}

\* Callers plan for keys of theirs, handlers for occurrences.
PlansAreOwn ==
    \A s \in Sessions : Plans(s) =>
        LET plan == session[s].plan IN
        IF s \in Callers
        THEN plan.key \in Keys
        ELSE plan.key \in Occurrences /\ plan.dataset = DatasetOf[plan.key]

\* A mapping that is being published was stored before.
PublishingExists ==
    \A s \in Sessions : At(s, "publishing") => mapping[session[s].mapping].status # "NONE"

\* The types are not inductive without the two facts above.
TypeInv == TypeOK /\ PlansAreOwn /\ PublishingExists

\* One session holds the workspace row, and while it does the app is the one
\* it has read.
LockIsHeld ==
    \A s \in Sessions : At(s, "admitted") =>
        /\ \A t \in Sessions : At(t, "admitted") => t = s
        /\ session[s].app = app

\* OccurrenceDecisionIsFinal needs that an occurrence somebody works on is
\* undecided, and that nobody else works on it.
WorkedOnIsUndecided ==
    \A h \in Handlers : Plans(h) =>
        /\ occurrence[session[h].plan.key] = "NONE"
        /\ \A g \in Handlers : Plans(g) /\ session[g].plan.key = session[h].plan.key => g = h

IInv ==
    /\ TypeInv
    /\ LockIsHeld
    /\ OverlapIsFoundEarly
    /\ WorkedOnIsUndecided
    /\ OccurrenceMatchesRun
    /\ AnswerIsWhatWasAsked
    /\ RunsShareTheApp

-----------------------------------------------------------------------------
\* m is published, for dataset d and an entity e.
Fits(m, d, e) ==
    mapping[m].status = "PUBLISHED" /\ mapping[m].dataset = d /\ mapping[m].entity = e

\* Caller c is between reading dataset d and writing it.
Changes(c, d) ==
    \/ At(c, "editing") /\ session[c].dataset = d
    \/ At(c, "publishing") /\ mapping[session[c].mapping].dataset = d

\* What a lock of the dataset's row would give, and the code does not take: no
\* two callers change a dataset at a time.  Without it the mapping properties
\* are false, one publishes a mapping while the other changes the entity.
ChangesApart ==
    \A b, c \in Callers : \A d \in Datasets : Changes(b, d) /\ Changes(c, d) => b = c

\* Then, between the read and the commit of caller c, what it has read is still
\* there.
SeesCurrent(c) ==
    LET s == session[c] IN
    /\ At(c, "publishing") =>
        /\ dataset[mapping[s.mapping].dataset] = s.seen
        /\ mapping[s.mapping].entity = s.seen.entity
    /\ At(c, "editing") =>
        /\ dataset[s.dataset] = s.seen
        /\ \/ s.new.mapping = NULL
           \/ s.new.mapping = s.seen.mapping /\ s.new.entity = s.seen.entity

SeenIsCurrent == \A c \in Callers : SeesCurrent(c)

\* A plan was made with a mapping that is published, and stays so.
PlanMappingIsSupported ==
    \A s \in Sessions : Plans(s) =>
        LET plan == session[s].plan IN
        \E e \in Entities : EntitySupported(e) /\ Fits(plan.mapping, plan.dataset, e)

MappingInv ==
    /\ ActiveMappingFits
    /\ SeenIsCurrent
    /\ PlanMappingIsSupported
    /\ RunMappingIsSupported

-----------------------------------------------------------------------------
(* What the types say.                                                     *)

LEMMA SessionTypes ==
    ASSUME TypeOK, NEW s \in Sessions
    PROVE  /\ session[s] \in SessionState
           /\ At(s, "mapping") => session[s].dataset \in Datasets /\ session[s].entity \in Entities
           /\ At(s, "publishing") => session[s].mapping \in Mappings /\ session[s].seen \in Dataset
           /\ At(s, "editing") => /\ session[s].dataset \in Datasets
                                  /\ session[s].new \in Dataset /\ session[s].seen \in Dataset
           /\ At(s, "queueing") => session[s].key \in Keys /\ session[s].request \in Requests
           /\ Plans(s) => session[s].plan \in Plan
           /\ At(s, "admitted") => session[s].app \in Apps
           /\ At(s, "answered") => /\ session[s].key \in Keys
                                   /\ session[s].asked \in Requests \cup {NULL}
           /\ At(s, "decided") => session[s].occurrence \in Occurrences
BY DEF TypeOK, SessionState, At, Plans

LEMMA OperationTypes ==
    ASSUME TypeOK, NEW k \in AllKeys
    PROVE  /\ op[k].kind \in {"none", "sync", "fast"}
           /\ op[k].kind = "none" => op[k] = [kind |-> "none"]
           /\ op[k].kind = "sync" => op[k] \in Sync
           /\ op[k].kind = "fast" => op[k] \in Fast
BY DEF TypeOK, Operation, Sync, Fast

LEMMA MappingTypes ==
    ASSUME TypeOK, NEW m \in Mappings
    PROVE  /\ mapping[m].status \in {"NONE", "DRAFT", "PUBLISHED"}
           /\ mapping[m].status # "NONE" =>
                /\ mapping[m] \in [status : {"DRAFT", "PUBLISHED"}, dataset : Datasets, entity : Entities]
                /\ mapping[m].dataset \in Datasets /\ mapping[m].entity \in Entities
BY DEF TypeOK, Mapping

LEMMA PlanTypes ==
    ASSUME NEW plan \in Plan
    PROVE  plan.key \in AllKeys /\ plan.dataset \in Datasets /\ plan.mapping \in Mappings
BY DEF Plan

\* The ORM writes the new value of a column or keeps the row's.
LEMMA FlushType ==
    ASSUME NEW row \in Dataset, NEW seen \in Dataset, NEW new \in Dataset
    PROVE  /\ Flush(row, seen, new) \in Dataset
           /\ row = seen => Flush(row, seen, new) = new
<1>1. DOMAIN row = {"entity", "mapping", "status"}
  BY DEF Dataset
<1>2. Flush(row, seen, new) =
        [entity |-> IF new.entity # seen.entity THEN new.entity ELSE row.entity,
         mapping |-> IF new.mapping # seen.mapping THEN new.mapping ELSE row.mapping,
         status |-> IF new.status # seen.status THEN new.status ELSE row.status]
  BY <1>1 DEF Flush
<1>3. new = [entity |-> new.entity, mapping |-> new.mapping, status |-> new.status]
  BY DEF Dataset
<1> QED
  BY <1>2, <1>3 DEF Dataset

LEMMA Disjoint ==
    /\ \A c \in Callers : c \in Sessions /\ c \notin Handlers
    /\ \A h \in Handlers : h \in Sessions /\ h \notin Callers
    /\ \A k \in Keys : k \in AllKeys /\ k \notin Occurrences
    /\ \A o \in Occurrences : o \in AllKeys /\ o \notin Keys
BY NamesAssumption DEF Sessions, AllKeys

-----------------------------------------------------------------------------
LEMMA InitHolds == Init => IInv
<1> SUFFICES ASSUME Init PROVE IInv
  OBVIOUS
<1>1. TypeOK
  BY DEF Init, TypeOK, ConnectionStatus, Dataset, DatasetStatus, Mapping, Operation, SessionState, Idle
<1>2. \A s \in Sessions :
          ~Plans(s) /\ ~At(s, "admitted") /\ ~At(s, "answered") /\ ~At(s, "publishing")
  BY DEF Init, Plans, At, Idle
<1>3. \A k \in AllKeys : op[k].kind = "none"
  BY DEF Init
<1>4. PlansAreOwn /\ PublishingExists /\ LockIsHeld /\ OverlapIsFoundEarly /\ WorkedOnIsUndecided /\ AnswerIsWhatWasAsked
  BY <1>2, Disjoint
  DEF PlansAreOwn, PublishingExists, LockIsHeld, OverlapIsFoundEarly, WorkedOnIsUndecided, AnswerIsWhatWasAsked
<1>5. OccurrenceMatchesRun /\ RunsShareTheApp
  BY <1>3, Disjoint DEF Init, OccurrenceMatchesRun, RunsShareTheApp
<1> QED
  BY <1>1, <1>4, <1>5 DEF IInv, TypeInv

-----------------------------------------------------------------------------
(* The types.                                                              *)

\* The changes a caller makes to a dataset and its mappings.
Prepare(c) ==
    \/ \E d \in Datasets : EditDataset(c, d) \/ CreateMapping(c, d)
    \/ EditCommit(c)
    \/ \E m \in Mappings : StoreMapping(c, m) \/ PublishMapping(c, m)
    \/ ActivateMapping(c)

LEMMA PrepareTypes ==
    ASSUME TypeInv, NEW c \in Callers, Prepare(c)
    PROVE  TypeOK'
<1>0. TypeOK /\ c \in Sessions /\ session[c] \in SessionState
  BY Disjoint, SessionTypes DEF TypeInv
<1>1. ASSUME NEW d \in Datasets, EditDataset(c, d)
      PROVE  TypeOK'
  <2>1. dataset[d] \in Dataset
    BY <1>0 DEF TypeOK
  <2>2. ASSUME NEW e \in Entities, NEW st \in DatasetStatus \cup {NULL}
        PROVE  LET new == Retarget(dataset[d], e)
               IN (IF st = NULL THEN new ELSE [new EXCEPT !.status = st]) \in Dataset
    <3>1. Retarget(dataset[d], e) \in Dataset
      BY <2>1 DEF Retarget, Dataset, DatasetStatus
    <3>2. st # NULL => st \in DatasetStatus
      OBVIOUS
    <3> QED
      BY <3>1, <3>2 DEF Dataset
  <2>3. session' \in [Sessions -> SessionState]
    BY <1>0, <1>1, <2>1, <2>2 DEF EditDataset, Goto, TypeOK, SessionState
  <2> QED
    BY <1>0, <1>1, <2>3 DEF EditDataset, OnlySession, TypeOK
<1>2. CASE \E d \in Datasets : CreateMapping(c, d)
  BY <1>0, <1>2 DEF CreateMapping, Goto, OnlySession, TypeOK, SessionState, Dataset
<1>3. CASE EditCommit(c)
  <2>1. /\ session[c].dataset \in Datasets
        /\ Flush(dataset[session[c].dataset], session[c].seen, session[c].new) \in Dataset
    BY <1>0, <1>3, SessionTypes, FlushType DEF EditCommit, TypeOK
  <2>2. dataset' \in [Datasets -> Dataset]
    BY <1>0, <1>3, <2>1 DEF EditCommit, TypeOK
  <2> QED
    BY <1>0, <1>3, <2>2 DEF EditCommit, Goto, TypeOK, SessionState, Idle
<1>4. ASSUME NEW m \in Mappings, StoreMapping(c, m)
      PROVE  TypeOK'
  <2>1. session[c].dataset \in Datasets /\ session[c].entity \in Entities
    BY <1>0, <1>4, SessionTypes DEF StoreMapping
  <2>2. mapping' \in [Mappings -> Mapping]
    BY <1>0, <1>4, <2>1 DEF StoreMapping, TypeOK, Mapping
  <2> QED
    BY <1>0, <1>4, <2>2 DEF StoreMapping, Goto, TypeOK, SessionState, Idle
<1>5. ASSUME NEW m \in Mappings, PublishMapping(c, m)
      PROVE  TypeOK'
  <2>1. dataset[mapping[m].dataset] \in Dataset
    BY <1>0, <1>5, MappingTypes DEF PublishMapping, TypeOK
  <2> QED
    BY <1>0, <1>5, <2>1 DEF PublishMapping, Goto, OnlySession, TypeOK, SessionState
<1>6. CASE ActivateMapping(c)
  <2> DEFINE m == session[c].mapping
             seen == session[c].seen
             new == [seen EXCEPT !.mapping = m, !.status = "MAPPED"]
             d == mapping[m].dataset
  <2>1. m \in Mappings /\ seen \in Dataset
    BY <1>0, <1>6, SessionTypes DEF ActivateMapping
  <2>2. new \in Dataset
    BY <2>1 DEF Dataset, DatasetStatus
  <2>3. mapping' \in [Mappings -> Mapping]
    <3>1. mapping[m].status # "NONE"
      BY <1>0, <1>6 DEF ActivateMapping, TypeInv, PublishingExists
    <3> QED
      BY <1>0, <1>6, <2>1, <3>1, MappingTypes DEF ActivateMapping, TypeOK, Mapping
  <2> HIDE DEF new, m
  <2>4. dataset' \in [Datasets -> Dataset]
    <3>1. dataset' = [dataset EXCEPT ![d] = Flush(@, seen, new)]
      BY <1>6 DEF ActivateMapping, new, m
    <3>2. d \in Datasets => Flush(dataset[d], seen, new) \in Dataset
      BY <1>0, <2>1, <2>2, FlushType DEF TypeOK
    <3> QED
      BY <1>0, <3>1, <3>2 DEF TypeOK
  <2>5. session' \in [Sessions -> SessionState]
    BY <1>0, <1>6 DEF ActivateMapping, Goto, TypeOK, SessionState, Idle
  <2> QED
    BY <1>0, <1>6, <2>3, <2>4, <2>5 DEF ActivateMapping, TypeOK
<1> QED
  BY <1>1, <1>2, <1>3, <1>4, <1>5, <1>6 DEF Prepare
\* queue_operation, and the answers of callers.
Queue(c) ==
    \/ \E k \in Keys, r \in Requests : QueueOperation(c, k, r) \/ QueueReplay(c, k, r)
    \/ QueueCommit(c)
    \/ Respond(c)

LEMMA QueueTypes ==
    ASSUME TypeInv, NEW c \in Callers, Queue(c)
    PROVE  TypeOK'
<1>0. TypeOK /\ c \in Sessions
  BY Disjoint DEF TypeInv
<1>1. CASE \E k \in Keys, r \in Requests : QueueOperation(c, k, r) \/ QueueReplay(c, k, r)
  BY <1>0, <1>1 DEF QueueOperation, QueueReplay, Goto, OnlySession, TypeOK, SessionState
<1>2. CASE QueueCommit(c)
  <2>1. session[c].key \in AllKeys /\ session[c].key \in Keys /\ session[c].request \in Requests
    BY <1>0, <1>2, SessionTypes, Disjoint DEF QueueCommit
  <2>2. op' \in [AllKeys -> Operation]
    BY <1>0, <1>2, <2>1 DEF QueueCommit, TypeOK, Operation, Fast
  <2>3. session' \in [Sessions -> SessionState]
    BY <1>0, <1>2, <2>1 DEF QueueCommit, Goto, TypeOK, SessionState, Idle
  <2> QED
    BY <1>0, <1>2, <2>2, <2>3 DEF QueueCommit, TypeOK
<1>3. CASE Respond(c)
  BY <1>0, <1>3 DEF Respond, Goto, OnlySession, TypeOK, SessionState, Idle
<1> QED
  BY <1>1, <1>2, <1>3 DEF Queue

\* A request for a run, or the message of an occurrence, becomes a plan.
BeginPlan(s) ==
    \/ s \in Callers /\ \E k \in Keys, d \in Datasets : RunNow(s, k, d)
    \/ s \in Handlers /\ \E o \in Occurrences : ReceiveOccurrence(s, o)

LEMMA BeginPlanTypes ==
    ASSUME TypeInv, NEW s \in Sessions, BeginPlan(s)
    PROVE  TypeOK'
<1>1. ASSUME NEW k \in AllKeys, NEW d \in Datasets, CanPlan(d)
      PROVE  PlanFor(k, d) \in SessionState
  <2>1. dataset[d].mapping \in Mappings
    BY <1>1 DEF CanPlan, TypeInv, TypeOK, Dataset
  <2> QED
    BY <2>1 DEF PlanFor, Plan, SessionState
<1>2. session' \in [Sessions -> SessionState]
  <2>1. CASE s \in Callers /\ \E k \in Keys, d \in Datasets : RunNow(s, k, d)
    BY <1>1, <2>1, Disjoint DEF RunNow, Goto, TypeInv, TypeOK
  <2>2. CASE s \in Handlers /\ \E o \in Occurrences : ReceiveOccurrence(s, o)
    BY <1>1, <2>2, Disjoint, DatasetOfAssumption DEF ReceiveOccurrence, Goto, TypeInv, TypeOK
  <2> QED
    BY <2>1, <2>2 DEF BeginPlan
<1> QED
  BY <1>2 DEF BeginPlan, RunNow, ReceiveOccurrence, OnlySession, TypeInv, TypeOK

\* What an answer changes.
LEMMA SucceedTypes ==
    ASSUME TypeInv, NEW s \in Sessions, Plans(s), Succeed(s, session[s].plan.key)
    PROVE  /\ session' \in [Sessions -> SessionState]
           /\ occurrence' \in [Occurrences -> {"NONE", "QUEUED", "SKIPPED_ACTIVE_RUN"}]
<1> DEFINE k == session[s].plan.key
<1>1. CASE s \in Callers
  <2>1. k \in Keys
    BY <1>1 DEF TypeInv, PlansAreOwn
  <2> QED
    BY <1>1, <2>1 DEF Succeed, Goto, TypeInv, TypeOK, SessionState
<1>2. CASE s \notin Callers
  <2>1. k \in Occurrences
    BY <1>2 DEF TypeInv, PlansAreOwn
  <2> QED
    BY <1>2, <2>1 DEF Succeed, Goto, TypeInv, TypeOK, SessionState
<1> QED
  BY <1>1, <1>2

LEMMA FailTypes ==
    ASSUME TypeInv, NEW s \in Sessions, Fail(s)
    PROVE  /\ session' \in [Sessions -> SessionState]
           /\ occurrence' \in [Occurrences -> {"NONE", "QUEUED", "SKIPPED_ACTIVE_RUN"}]
BY DEF Fail, Goto, TypeInv, TypeOK, SessionState, Idle

LEMMA MaterializeTypes ==
    ASSUME TypeInv, NEW s \in Sessions, MaterializeSyncRun(s)
    PROVE  TypeOK'
<1>0. Plans(s) /\ session[s].plan \in Plan
  BY SessionTypes
  DEF MaterializeSyncRun, Refuse, Replay, Overlap, Admit, InsertRun, Lock, Plans, At, TypeInv
<1>1. CASE Refuse(s)
  BY <1>1, FailTypes DEF Refuse, TypeInv, TypeOK
<1>2. CASE Replay(s)
  BY <1>0, <1>2, FailTypes, SucceedTypes DEF Replay, TypeInv, TypeOK
<1>3. CASE Overlap(s)
  <2>1. CASE s \in Callers
    BY <1>3, <2>1, FailTypes DEF Overlap, TypeInv, TypeOK
  <2>2. CASE s \notin Callers
    <3>1. session[s].plan.key \in Occurrences
      BY <1>0, <2>2 DEF TypeInv, PlansAreOwn
    <3> QED
      BY <1>3, <2>2, <3>1 DEF Overlap, SkipOccurrence, Goto, TypeInv, TypeOK, SessionState
  <2> QED
    BY <2>1, <2>2
<1>4. CASE Admit(s)
  <2>1. app \in Apps
    BY <1>4 DEF Admit, Ready, TypeInv, TypeOK
  <2> QED
    BY <1>0, <1>4, <2>1 DEF Admit, Goto, OnlySession, TypeInv, TypeOK, SessionState
<1>5. CASE InsertRun(s)
  <2>1. session[s].app \in Apps /\ session[s].plan.key \in AllKeys
    BY <1>0, <1>5, SessionTypes, PlanTypes DEF InsertRun, TypeInv
  <2>2. NewRun(s) \in Operation
    BY <1>0, <2>1, PlanTypes DEF NewRun, Operation, Sync
  <2>3. op' \in [AllKeys -> Operation]
    BY <1>5, <2>1, <2>2 DEF InsertRun, TypeInv, TypeOK
  <2>4. /\ session' \in [Sessions -> SessionState]
        /\ occurrence' \in [Occurrences -> {"NONE", "QUEUED", "SKIPPED_ACTIVE_RUN"}]
    BY <1>0, <1>5, FailTypes, SucceedTypes DEF InsertRun
  <2> QED
    BY <1>5, <2>3, <2>4 DEF InsertRun, TypeInv, TypeOK
<1> QED
  BY <1>1, <1>2, <1>3, <1>4, <1>5 DEF MaterializeSyncRun

\* The other end of the messages, rollbacks, and what goes on outside.
Settle ==
    \/ \E h \in Handlers : DeleteOccurrenceMessage(h) \/ \E o \in Occurrences : KnownOccurrence(h, o)
    \/ \E s \in Sessions : Abort(s)

Outside ==
    \/ \E a \in Apps : UpdateWorkspaceApp(a)
    \/ ChangeConnection
    \/ \E k \in AllKeys : EndRun(k)
    \/ \E o \in Occurrences : FireOccurrence(o)

LEMMA SettleTypes ==
    ASSUME TypeInv, Settle
    PROVE  TypeOK'
<1>1. CASE \E h \in Handlers, o \in Occurrences : KnownOccurrence(h, o)
  BY <1>1, Disjoint DEF KnownOccurrence, Goto, OnlySession, TypeInv, TypeOK, SessionState
<1>2. CASE \E h \in Handlers : DeleteOccurrenceMessage(h)
  BY <1>2, Disjoint DEF DeleteOccurrenceMessage, Goto, TypeInv, TypeOK, SessionState, Idle
<1>3. CASE \E s \in Sessions : Abort(s)
  BY <1>3 DEF Abort, Goto, OnlySession, TypeInv, TypeOK, SessionState, Idle
<1> QED
  BY <1>1, <1>2, <1>3 DEF Settle

\* A run that ends stays the run it is.
LEMMA EndRunEffect ==
    ASSUME TypeOK, NEW k \in AllKeys, EndRun(k)
    PROVE  /\ op' \in [AllKeys -> Operation]
           /\ \A j \in AllKeys : j # k => op'[j] = op[j]
           /\ op'[k].kind = "sync" /\ op'[k].active = FALSE
           /\ op'[k].dataset = op[k].dataset /\ op'[k].mapping = op[k].mapping
           /\ op'[k].app = op[k].app
<1>1. op[k] \in Sync
  BY OperationTypes DEF EndRun
<1>2. op'[k] = [op[k] EXCEPT !.active = FALSE]
  BY DEF EndRun, TypeOK
<1>3. /\ op'[k] \in Sync
      /\ op'[k].kind = "sync" /\ op'[k].active = FALSE
      /\ op'[k].dataset = op[k].dataset /\ op'[k].mapping = op[k].mapping
      /\ op'[k].app = op[k].app
  BY <1>1, <1>2 DEF Sync
<1>4. op' \in [AllKeys -> Operation] /\ \A j \in AllKeys : j # k => op'[j] = op[j]
  BY <1>2, <1>3 DEF EndRun, TypeOK, Operation
<1> QED
  BY <1>3, <1>4

LEMMA OutsideTypes ==
    ASSUME TypeInv, Outside
    PROVE  TypeOK'
<1>1. CASE \E k \in AllKeys : EndRun(k)
  <2>1. op' \in [AllKeys -> Operation]
    BY <1>1, EndRunEffect DEF TypeInv
  <2> QED
    BY <1>1, <2>1 DEF EndRun, TypeInv, TypeOK
<1>2. CASE \/ \E a \in Apps : UpdateWorkspaceApp(a)
           \/ ChangeConnection
           \/ \E o \in Occurrences : FireOccurrence(o)
  BY <1>2 DEF UpdateWorkspaceApp, ChangeConnection, FireOccurrence, TypeInv, TypeOK
<1> QED
  BY <1>1, <1>2 DEF Outside

\* Every step is one of these.
LEMMA Steps ==
    Next => \/ \E c \in Callers : Prepare(c) \/ Queue(c)
            \/ \E s \in Sessions : BeginPlan(s) \/ MaterializeSyncRun(s)
            \/ Settle \/ Outside
BY Disjoint DEF Next, Caller, OccurrenceWorker, Prepare, Queue, BeginPlan, Settle, Outside
-----------------------------------------------------------------------------
(* The mappings that are being published.                                  *)

LEMMA MappingsChange ==
    ASSUME Next,
           ~\E c \in Callers, n \in Mappings : StoreMapping(c, n),
           ~\E c \in Callers : ActivateMapping(c)
    PROVE  mapping' = mapping
<1>1. CASE \E c \in Callers : Prepare(c) \/ Queue(c)
  BY <1>1
  DEF Prepare, EditDataset, CreateMapping, EditCommit, PublishMapping, OnlySession,
      Queue, QueueOperation, QueueReplay, QueueCommit, Respond
<1>2. CASE \E s \in Sessions : BeginPlan(s) \/ MaterializeSyncRun(s)
  BY <1>2 DEF BeginPlan, RunNow, ReceiveOccurrence, OnlySession,
              MaterializeSyncRun, Refuse, Replay, Overlap, Admit, InsertRun
<1>3. CASE Settle \/ Outside
  BY <1>3 DEF Settle, KnownOccurrence, DeleteOccurrenceMessage, Abort, OnlySession, Outside,
              UpdateWorkspaceApp, ChangeConnection, EndRun, FireOccurrence
<1> QED
  BY <1>1, <1>2, <1>3, Steps

\* No step takes a stored mapping away.
LEMMA MappingsStay ==
    ASSUME TypeInv, Next, NEW m \in Mappings, mapping[m].status # "NONE"
    PROVE  mapping'[m].status # "NONE"
<1>1. CASE \E c \in Callers, n \in Mappings : StoreMapping(c, n)
  BY <1>1 DEF StoreMapping, TypeInv, TypeOK
<1>2. CASE \E c \in Callers : ActivateMapping(c)
  <2>1. PICK c \in Callers : ActivateMapping(c)
    BY <1>2
  <2> DEFINE n == session[c].mapping
  <2>2. mapping' = [mapping EXCEPT ![n].status = "PUBLISHED"]
    BY <2>1 DEF ActivateMapping
  <2>3. mapping[m] \in [status : {"DRAFT", "PUBLISHED"}, dataset : Datasets, entity : Entities]
    BY MappingTypes DEF TypeInv
  <2> QED
    BY <2>2, <2>3 DEF TypeInv, TypeOK
<1>3. CASE mapping' = mapping
  BY <1>3
<1> QED
  BY <1>1, <1>2, <1>3, MappingsChange

\* A session that is publishing goes on with its mapping, or has just read it.
LEMMA PublishingBegins ==
    ASSUME TypeInv, Next, NEW s \in Sessions, At(s, "publishing")'
    PROVE  \/ At(s, "publishing") /\ session'[s] = session[s]
           \/ \E m \in Mappings : PublishMapping(s, m) /\ session'[s].mapping = m
<1>1. ASSUME NEW c \in Callers, Prepare(c)
      PROVE  \/ session'[s] = session[s]
             \/ \E m \in Mappings : PublishMapping(s, m) /\ session'[s].mapping = m
  BY <1>1, Disjoint
  DEF Prepare, EditDataset, CreateMapping, EditCommit, StoreMapping, PublishMapping,
      ActivateMapping, Goto, TypeInv, TypeOK, At, Idle
<1>2. ASSUME NEW c \in Callers, Queue(c)
      PROVE  session'[s] = session[s]
  BY <1>2, Disjoint
  DEF Queue, QueueOperation, QueueReplay, QueueCommit, Respond, Goto, TypeInv, TypeOK, At, Idle
<1>3. ASSUME NEW t \in Sessions, BeginPlan(t) \/ MaterializeSyncRun(t)
      PROVE  session'[s] = session[s]
  <2>1. CASE BeginPlan(t)
    BY <2>1 DEF BeginPlan, RunNow, ReceiveOccurrence, PlanFor, Goto, TypeInv, TypeOK, At
  <2>2. CASE MaterializeSyncRun(t)
    BY <2>2 DEF MaterializeSyncRun, Refuse, Replay, Overlap, Admit, InsertRun, Succeed, Fail,
                SkipOccurrence, Goto, TypeInv, TypeOK, At, Idle
  <2> QED
    BY <1>3, <2>1, <2>2
<1>4. CASE Settle \/ Outside
  BY <1>4, Disjoint
  DEF Settle, KnownOccurrence, DeleteOccurrenceMessage, Abort, Outside, UpdateWorkspaceApp,
      ChangeConnection, EndRun, FireOccurrence, Goto, TypeInv, TypeOK, At, Idle
<1> QED
  BY <1>1, <1>2, <1>3, <1>4, Steps DEF At

LEMMA PublishingStep ==
    ASSUME TypeInv, Next
    PROVE  PublishingExists'
<1> SUFFICES ASSUME NEW s \in Sessions, At(s, "publishing")'
             PROVE  mapping'[session'[s].mapping].status # "NONE"
  BY DEF PublishingExists
<1>1. CASE At(s, "publishing") /\ session'[s] = session[s]
  BY <1>1, MappingsStay, SessionTypes DEF TypeInv, PublishingExists
<1>2. CASE \E m \in Mappings : PublishMapping(s, m) /\ session'[s].mapping = m
  BY <1>2 DEF PublishMapping, OnlySession
<1> QED
  BY <1>1, <1>2, PublishingBegins

-----------------------------------------------------------------------------
(* The lock, the occurrences and the answers.                              *)

\* What IInv says beyond the types.
RunInv ==
    /\ PlansAreOwn
    /\ LockIsHeld
    /\ OverlapIsFoundEarly
    /\ WorkedOnIsUndecided
    /\ OccurrenceMatchesRun
    /\ AnswerIsWhatWasAsked
    /\ RunsShareTheApp

\* A step that writes nothing the runs depend on; a session that moves is
\* then in no place RunInv speaks of.
Quiet ==
    /\ op' = op /\ app' = app /\ occurrence' = occurrence
    /\ \A s \in Sessions :
        \/ session'[s] = session[s]
        \/ session'[s].pc \notin {"planned", "admitted", "answered"}

LEMMA QuietStep ==
    ASSUME IInv, Quiet
    PROVE  RunInv'
<1>1. \A s \in Sessions :
        /\ Plans(s)' => Plans(s) /\ session'[s] = session[s]
        /\ At(s, "admitted")' => At(s, "admitted") /\ session'[s] = session[s]
        /\ At(s, "answered")' => At(s, "answered") /\ session'[s] = session[s]
  BY DEF Quiet, Plans, At
<1>2. PlansAreOwn'
  BY <1>1 DEF IInv, TypeInv, PlansAreOwn
<1>3. LockIsHeld' /\ OverlapIsFoundEarly'
  BY <1>1 DEF Quiet, IInv, LockIsHeld, OverlapIsFoundEarly, ActiveRun
<1>4. WorkedOnIsUndecided'
  BY <1>1, Disjoint DEF Quiet, IInv, WorkedOnIsUndecided
<1>5. OccurrenceMatchesRun' /\ RunsShareTheApp'
  BY DEF Quiet, IInv, OccurrenceMatchesRun, RunsShareTheApp
<1>6. AnswerIsWhatWasAsked'
  BY <1>1, Disjoint DEF Quiet, IInv, AnswerIsWhatWasAsked
<1> QED
  BY <1>2, <1>3, <1>4, <1>5, <1>6 DEF RunInv

LEMMA PrepareQuiet ==
    ASSUME IInv, NEW c \in Callers, Prepare(c)
    PROVE  Quiet
BY Disjoint
DEF Prepare, EditDataset, CreateMapping, EditCommit, StoreMapping, PublishMapping, ActivateMapping,
    Goto, OnlySession, IInv, TypeInv, TypeOK, Idle, Quiet

LEMMA SettleQuiet ==
    ASSUME IInv, Settle
    PROVE  Quiet
BY Disjoint
DEF Settle, KnownOccurrence, DeleteOccurrenceMessage, Abort, Goto, OnlySession, IInv, TypeInv,
    TypeOK, Idle, Quiet

LEMMA RefuseQuiet ==
    ASSUME IInv, NEW s \in Sessions, Refuse(s)
    PROVE  Quiet
BY DEF Refuse, Fail, Goto, IInv, TypeInv, TypeOK, Idle, Quiet

\* A new operation without a run has a key of a caller, and a replay answers
\* with the operation that was asked for.
LEMMA QueueInv ==
    ASSUME IInv, NEW c \in Callers, Queue(c)
    PROVE  RunInv'
<1>0. TypeOK /\ c \in Sessions
  BY Disjoint DEF IInv, TypeInv
<1>1. CASE Respond(c) \/ \E k \in Keys, r \in Requests : QueueOperation(c, k, r)
  BY <1>0, <1>1, QuietStep DEF Respond, QueueOperation, Goto, OnlySession, TypeOK, Idle, Quiet
<1>2. ASSUME NEW k \in Keys, NEW r \in Requests, op' = op \/ op[k].kind = "none",
             op'[k] = [kind |-> "fast", request |-> r],
             \A j \in AllKeys : j # k => op'[j] = op[j],
             session' = [session EXCEPT ![c] = [pc |-> "answered", key |-> k, asked |-> r]],
             app' = app /\ occurrence' = occurrence
      PROVE  RunInv'
  <2>1. k \in AllKeys /\ k \notin Occurrences /\ r # NULL
    BY Disjoint, NullAssumption
  <2>2. /\ session'[c] = [pc |-> "answered", key |-> k, asked |-> r]
        /\ \A t \in Sessions \ {c} : session'[t] = session[t]
        /\ ~Plans(c)' /\ ~At(c, "admitted")'
    BY <1>0, <1>2 DEF TypeOK, Plans, At
  <2>3. \A t \in Sessions :
          /\ Plans(t)' => Plans(t) /\ session'[t] = session[t]
          /\ At(t, "admitted")' => At(t, "admitted") /\ session'[t] = session[t]
    BY <2>2 DEF Plans, At
  <2>4. \A j \in AllKeys : op'[j].kind = "sync" => op[j].kind = "sync" /\ op'[j] = op[j]
    BY <1>2
  <2>5. PlansAreOwn'
    BY <2>3 DEF IInv, TypeInv, PlansAreOwn
  <2>6. LockIsHeld' /\ OverlapIsFoundEarly'
    BY <1>2, <2>3, <2>4 DEF IInv, LockIsHeld, OverlapIsFoundEarly, ActiveRun
  <2>7. WorkedOnIsUndecided'
    BY <1>2, <2>3, Disjoint DEF IInv, WorkedOnIsUndecided
  <2>8. OccurrenceMatchesRun'
    BY <1>2, <2>1, Disjoint DEF IInv, OccurrenceMatchesRun
  <2>9. RunsShareTheApp'
    BY <1>2, <2>4 DEF IInv, RunsShareTheApp
  <2>10. AnswerIsWhatWasAsked'
    <3> SUFFICES ASSUME NEW t \in Callers, At(t, "answered")'
                 PROVE  IF session'[t].asked = NULL
                        THEN op'[session'[t].key].kind = "sync"
                        ELSE op'[session'[t].key] = [kind |-> "fast", request |-> session'[t].asked]
      BY DEF AnswerIsWhatWasAsked
    <3>1. CASE t = c
      BY <1>2, <2>1, <2>2, <3>1
    <3>2. CASE t # c
      <4>1. /\ t \in Sessions /\ session'[t] = session[t] /\ At(t, "answered")
        BY <2>2, <3>2, Disjoint DEF At
      <4>2. session[t].key \in AllKeys
        BY <1>0, <4>1, SessionTypes, Disjoint
      <4>3. IF session[t].asked = NULL
            THEN op[session[t].key].kind = "sync"
            ELSE op[session[t].key] = [kind |-> "fast", request |-> session[t].asked]
        BY <4>1 DEF IInv, AnswerIsWhatWasAsked
      <4>4. op[session[t].key].kind # "none"
        BY <4>3
      <4>5. op'[session[t].key] = op[session[t].key]
        BY <1>2, <4>2, <4>4
      <4> QED
        BY <4>1, <4>3, <4>5
    <3> QED
      BY <3>1, <3>2
  <2> QED
    BY <2>5, <2>6, <2>7, <2>8, <2>9, <2>10 DEF RunInv
<1>3. ASSUME NEW k \in Keys, NEW r \in Requests, QueueReplay(c, k, r)
      PROVE  RunInv'
  <2>1. op' = op /\ op[k] = [kind |-> "fast", request |-> r]
    BY <1>3 DEF QueueReplay, SameOperation, OnlySession
  <2> QED
    BY <1>2, <1>3, <2>1 DEF QueueReplay, Goto, OnlySession
<1>4. CASE QueueCommit(c)
  <2> DEFINE k == session[c].key
             r == session[c].request
  <2>1. k \in Keys /\ k \in AllKeys /\ r \in Requests
    BY <1>0, <1>4, SessionTypes, Disjoint DEF QueueCommit
  <2>2. CASE op[k].kind = "none"
    <3>1. /\ op'[k] = [kind |-> "fast", request |-> r]
          /\ \A j \in AllKeys : j # k => op'[j] = op[j]
      BY <1>0, <1>4, <2>1, <2>2 DEF QueueCommit, TypeOK
    <3> QED
      BY <1>2, <1>4, <2>1, <2>2, <3>1 DEF QueueCommit, Goto
  <2>3. CASE op[k].kind # "none"
    BY <1>0, <1>4, <2>3, QuietStep DEF QueueCommit, Goto, TypeOK, Idle, Quiet
  <2> QED
    BY <2>2, <2>3
<1> QED
  BY <1>1, <1>3, <1>4 DEF Queue
\* A handler begins with an occurrence that is undecided and that no other
\* handler is at work on.
LEMMA BeginPlanInv ==
    ASSUME IInv, NEW s \in Sessions, BeginPlan(s)
    PROVE  RunInv'
<1>1. PICK k \in AllKeys, d \in Datasets :
        /\ session' = [session EXCEPT ![s] = PlanFor(k, d)]
        /\ \/ s \in Callers /\ k \in Keys
           \/ /\ s \in Handlers /\ k \in Occurrences /\ d = DatasetOf[k]
              /\ Undecided(k)
  <2>1. CASE s \in Callers /\ \E k \in Keys, d \in Datasets : RunNow(s, k, d)
    BY <2>1, Disjoint DEF RunNow, Goto
  <2>2. CASE s \in Handlers /\ \E o \in Occurrences : ReceiveOccurrence(s, o)
    BY <2>2, Disjoint, DatasetOfAssumption DEF ReceiveOccurrence, Goto
  <2> QED
    BY <2>1, <2>2 DEF BeginPlan
<1>2. op' = op /\ app' = app /\ occurrence' = occurrence
  BY DEF BeginPlan, RunNow, ReceiveOccurrence, OnlySession
<1>3. /\ session'[s] = PlanFor(k, d)
      /\ session'[s].pc = "planned" /\ session'[s].plan.key = k /\ session'[s].plan.dataset = d
      /\ \A t \in Sessions \ {s} : session'[t] = session[t]
  BY <1>1 DEF PlanFor, IInv, TypeInv, TypeOK
<1>4. \A t \in Sessions : /\ t # s /\ Plans(t)' => Plans(t) /\ session'[t] = session[t]
                          /\ At(t, "admitted")' => At(t, "admitted") /\ session'[t] = session[t]
                          /\ At(t, "answered")' => At(t, "answered") /\ session'[t] = session[t]
  BY <1>3 DEF Plans, At
<1>5. PlansAreOwn'
  BY <1>1, <1>3, <1>4, Disjoint DEF IInv, TypeInv, PlansAreOwn
<1>6. LockIsHeld' /\ OverlapIsFoundEarly'
  BY <1>2, <1>4 DEF IInv, LockIsHeld, OverlapIsFoundEarly, ActiveRun
<1>7. WorkedOnIsUndecided'
  <2>1. CASE s \in Callers
    BY <1>2, <1>4, <2>1, Disjoint DEF IInv, WorkedOnIsUndecided
  <2>2. CASE s \in Handlers
    <3>1. /\ occurrence[k] = "NONE"
          /\ \A h \in Handlers : ~(Plans(h) /\ session[h].plan.key = k)
      BY <1>1, <2>2, Disjoint DEF Undecided, InFlight, Plans
    <3>2. ASSUME NEW h \in Handlers, Plans(h)'
          PROVE  /\ occurrence'[session'[h].plan.key] = "NONE"
                 /\ \A g \in Handlers :
                      Plans(g)' /\ session'[g].plan.key = session'[h].plan.key => g = h
      BY <1>2, <1>3, <1>4, <3>1, <3>2, Disjoint DEF IInv, WorkedOnIsUndecided
    <3> QED
      BY <3>2 DEF WorkedOnIsUndecided
  <2> QED
    BY <2>1, <2>2 DEF Sessions
<1>8. OccurrenceMatchesRun' /\ RunsShareTheApp'
  BY <1>2 DEF IInv, OccurrenceMatchesRun, RunsShareTheApp
<1>9. AnswerIsWhatWasAsked'
  BY <1>2, <1>4, Disjoint DEF IInv, AnswerIsWhatWasAsked
<1> QED
  BY <1>5, <1>6, <1>7, <1>8, <1>9 DEF RunInv

LEMMA AdmitInv ==
    ASSUME IInv, NEW s \in Sessions, Admit(s)
    PROVE  RunInv'
<1> DEFINE plan == session[s].plan
<1>1. /\ At(s, "planned") /\ ~WorkspaceLocked /\ ~ActiveRun(plan.dataset)
      /\ op' = op /\ app' = app /\ occurrence' = occurrence
      /\ session'[s] = [pc |-> "admitted", plan |-> plan, app |-> app]
      /\ \A t \in Sessions \ {s} : session'[t] = session[t]
  BY DEF Admit, Lock, Goto, OnlySession, IInv, TypeInv, TypeOK
<1>2. \A t \in Sessions : /\ Plans(t)' => Plans(t) /\ session'[t].plan = session[t].plan
                          /\ At(t, "admitted")' => t = s
                          /\ At(t, "answered")' => At(t, "answered") /\ session'[t] = session[t]
  BY <1>1 DEF Plans, At, WorkspaceLocked
<1>3. PlansAreOwn'
  BY <1>2 DEF IInv, TypeInv, PlansAreOwn
<1>4. LockIsHeld' /\ OverlapIsFoundEarly'
  BY <1>1, <1>2 DEF LockIsHeld, OverlapIsFoundEarly, ActiveRun
<1>5. WorkedOnIsUndecided'
  BY <1>1, <1>2, Disjoint DEF IInv, WorkedOnIsUndecided
<1>6. OccurrenceMatchesRun' /\ RunsShareTheApp'
  BY <1>1 DEF IInv, OccurrenceMatchesRun, RunsShareTheApp
<1>7. AnswerIsWhatWasAsked'
  BY <1>1, <1>2, Disjoint DEF IInv, AnswerIsWhatWasAsked
<1> QED
  BY <1>3, <1>4, <1>5, <1>6, <1>7 DEF RunInv

\* The end of a call: a caller is answered with a run, or an occurrence is
\* decided, by its run or by a skip.
Decides(s) ==
    LET k == session[s].plan.key IN
    /\ Plans(s)
    /\ app' = app
    /\ \A j \in AllKeys : j # k => op'[j] = op[j]
    /\ \/ op'[k] = op[k]
       \/ op[k].kind = "none" /\ At(s, "admitted") /\ op'[k] = NewRun(s)
    /\ \A t \in Sessions \ {s} : session'[t] = session[t]
    /\ \/ /\ s \in Callers
          /\ op'[k].kind = "sync"
          /\ session'[s] = [pc |-> "answered", key |-> k, asked |-> NULL]
          /\ occurrence' = occurrence
       \/ /\ s \in Handlers
          /\ session'[s] = [pc |-> "decided", occurrence |-> k]
          /\ \/ op'[k].kind = "sync" /\ occurrence' = [occurrence EXCEPT ![k] = "QUEUED"]
             \/ op'[k].kind = "none" /\ occurrence' = [occurrence EXCEPT ![k] = "SKIPPED_ACTIVE_RUN"]

LEMMA DecidesInv ==
    ASSUME IInv, NEW s \in Sessions, Decides(s)
    PROVE  RunInv'
<1> DEFINE k == session[s].plan.key
<1>0. /\ TypeOK /\ Plans(s) /\ k \in AllKeys
      /\ session[s].plan \in Plan
  BY SessionTypes, PlanTypes DEF IInv, TypeInv, Decides
<1>1. \A t \in Sessions : /\ Plans(t)' => t # s /\ Plans(t) /\ session'[t] = session[t]
                          /\ At(t, "admitted")' => t # s /\ At(t, "admitted") /\ session'[t] = session[t]
  BY DEF Decides, Plans, At
<1>2. /\ NewRun(s).kind = "sync" /\ NewRun(s).dataset = session[s].plan.dataset
      /\ NewRun(s).app = session[s].app
  BY DEF NewRun
<1>3. PlansAreOwn'
  BY <1>1 DEF IInv, TypeInv, PlansAreOwn
<1>4. LockIsHeld'
  BY <1>1 DEF Decides, IInv, LockIsHeld
<1>5. OverlapIsFoundEarly'
  \* Another session in the lock means that this one was not, and that no run
  \* was inserted.
  <2> SUFFICES ASSUME NEW t \in Sessions, At(t, "admitted")'
               PROVE  ~ActiveRun(session[t].plan.dataset)'
    BY DEF OverlapIsFoundEarly
  <2>1. t # s /\ At(t, "admitted") /\ session'[t] = session[t]
    BY <1>1
  <2>2. ~At(s, "admitted")
    BY <2>1 DEF IInv, LockIsHeld
  <2>3. \A j \in AllKeys : op'[j] = op[j]
    BY <2>2 DEF Decides
  <2> QED
    BY <2>1, <2>3 DEF ActiveRun, IInv, OverlapIsFoundEarly
<1>6. WorkedOnIsUndecided'
  <2>1. CASE s \in Callers
    BY <1>1, <2>1, Disjoint DEF Decides, IInv, WorkedOnIsUndecided
  <2>2. CASE s \in Handlers
    <3> SUFFICES ASSUME NEW h \in Handlers, Plans(h)'
                 PROVE  /\ occurrence'[session'[h].plan.key] = "NONE"
                        /\ \A g \in Handlers :
                             Plans(g)' /\ session'[g].plan.key = session'[h].plan.key => g = h
      BY DEF WorkedOnIsUndecided
    <3>1. h # s /\ Plans(h) /\ session'[h] = session[h]
      BY <1>1, Disjoint
    <3>2. session[h].plan.key \in Occurrences /\ session[h].plan.key # k
      BY <1>0, <2>2, <3>1, Disjoint DEF IInv, TypeInv, PlansAreOwn, WorkedOnIsUndecided
    <3>3. occurrence'[session[h].plan.key] = occurrence[session[h].plan.key]
      BY <1>0, <2>2, <3>2, Disjoint DEF Decides, TypeOK
    <3> QED
      BY <1>1, <3>1, <3>3, Disjoint DEF IInv, WorkedOnIsUndecided
  <2> QED
    BY <2>1, <2>2 DEF Sessions
<1>7. OccurrenceMatchesRun'
  <2> SUFFICES ASSUME NEW o \in Occurrences
               PROVE  IF occurrence'[o] = "QUEUED"
                      THEN op'[o].kind = "sync" /\ op'[o].dataset = DatasetOf[o]
                      ELSE op'[o].kind = "none"
    BY DEF OccurrenceMatchesRun
  <2>1. CASE o # k
    BY <1>0, <2>1, Disjoint DEF Decides, IInv, OccurrenceMatchesRun, TypeOK
  <2>2. CASE o = k
    <3>1. s \in Handlers /\ session[s].plan.dataset = DatasetOf[o]
      BY <1>0, <2>2, Disjoint DEF IInv, TypeInv, PlansAreOwn, Sessions
    <3>2. op'[o].kind = "sync" => op'[o].dataset = DatasetOf[o]
      BY <1>0, <1>2, <2>2, <3>1, Disjoint
      DEF Decides, IInv, OccurrenceMatchesRun
    <3> QED
      BY <1>0, <2>2, <3>1, <3>2, Disjoint DEF Decides, TypeOK
  <2> QED
    BY <2>1, <2>2
<1>8. AnswerIsWhatWasAsked'
  <2> SUFFICES ASSUME NEW t \in Callers, At(t, "answered")'
               PROVE  IF session'[t].asked = NULL
                      THEN op'[session'[t].key].kind = "sync"
                      ELSE op'[session'[t].key] = [kind |-> "fast", request |-> session'[t].asked]
    BY DEF AnswerIsWhatWasAsked
  <2>1. CASE t = s
    BY <2>1, Disjoint DEF Decides
  <2>2. CASE t # s
    <3>1. t \in Sessions /\ session'[t] = session[t] /\ At(t, "answered")
      BY <2>2, Disjoint DEF Decides, At
    <3>2. session[t].key \in AllKeys
      BY <1>0, <3>1, SessionTypes, Disjoint
    <3>3. IF session[t].asked = NULL
          THEN op[session[t].key].kind = "sync"
          ELSE op[session[t].key] = [kind |-> "fast", request |-> session[t].asked]
      BY <3>1 DEF IInv, AnswerIsWhatWasAsked
    <3>4. op'[session[t].key] = op[session[t].key]
      BY <3>2, <3>3 DEF Decides
    <3> QED
      BY <3>1, <3>3, <3>4
  <2> QED
    BY <2>1, <2>2
<1>9. RunsShareTheApp'
  <2>1. At(s, "admitted") => session[s].app = app
    BY DEF IInv, LockIsHeld
  <2> QED
    BY <1>0, <1>2, <2>1 DEF Decides, IInv, RunsShareTheApp
<1> QED
  BY <1>3, <1>4, <1>5, <1>6, <1>7, <1>8, <1>9 DEF RunInv

LEMMA MaterializeInv ==
    ASSUME IInv, NEW s \in Sessions, MaterializeSyncRun(s)
    PROVE  RunInv'
<1> DEFINE k == session[s].plan.key
<1>1. TypeOK /\ Plans(s) /\ k \in AllKeys
  BY SessionTypes, PlanTypes
  DEF MaterializeSyncRun, Refuse, Replay, Overlap, Admit, InsertRun, Lock, Plans, At, IInv, TypeInv
<1>2. s \notin Callers => s \in Handlers
  BY DEF Sessions
<1>3. CASE Refuse(s)
  BY <1>3, RefuseQuiet, QuietStep
<1>4. CASE Replay(s)
  <2>1. CASE Replayable(k)
    <3>1. Decides(s)
      BY <1>1, <1>2, <1>4, <2>1 DEF Replay, Replayable, Succeed, Goto, Decides, TypeOK
    <3> QED
      BY <3>1, DecidesInv
  <2>2. CASE ~Replayable(k)
    BY <1>1, <1>4, <2>2, QuietStep DEF Replay, Fail, Goto, TypeOK, Idle, Quiet
  <2> QED
    BY <2>1, <2>2
<1>5. CASE Overlap(s)
  <2>1. CASE s \in Callers
    BY <1>1, <1>5, <2>1, QuietStep DEF Overlap, Fail, Goto, TypeOK, Idle, Quiet
  <2>2. CASE s \notin Callers
    <3>1. Decides(s)
      BY <1>1, <1>2, <1>5, <2>2 DEF Overlap, SkipOccurrence, Goto, Decides, TypeOK
    <3> QED
      BY <3>1, DecidesInv
  <2> QED
    BY <2>1, <2>2
<1>6. CASE Admit(s)
  BY <1>6, AdmitInv
<1>7. CASE InsertRun(s)
  <2>1. CASE op[k].kind = "none" /\ ~ActiveRun(session[s].plan.dataset)
    <3>1. /\ op'[k] = NewRun(s) /\ \A j \in AllKeys : j # k => op'[j] = op[j]
          /\ op'[k].kind = "sync"
      BY <1>1, <1>7, <2>1 DEF InsertRun, NewRun, TypeOK
    <3>2. Decides(s)
      BY <1>1, <1>2, <1>7, <2>1, <3>1 DEF InsertRun, Succeed, Goto, Decides, TypeOK
    <3> QED
      BY <3>2, DecidesInv
  <2>2. CASE ~(op[k].kind = "none" /\ ~ActiveRun(session[s].plan.dataset))
    BY <1>1, <1>7, <2>2, QuietStep DEF InsertRun, Fail, Goto, TypeOK, Idle, Quiet
  <2> QED
    BY <2>1, <2>2
<1> QED
  BY <1>3, <1>4, <1>5, <1>6, <1>7 DEF MaterializeSyncRun

\* The app of a workspace is bound before there is a run, and not while a
\* session holds the workspace row.
LEMMA OutsideInv ==
    ASSUME IInv, Outside
    PROVE  RunInv'
<1>1. CASE ChangeConnection \/ \E o \in Occurrences : FireOccurrence(o)
  BY <1>1, QuietStep DEF ChangeConnection, FireOccurrence, Quiet
<1>2. CASE \E a \in Apps : UpdateWorkspaceApp(a)
  BY <1>2
  DEF UpdateWorkspaceApp, MayBind, WorkspaceLocked, IInv, TypeInv, RunInv, PlansAreOwn, LockIsHeld,
      OverlapIsFoundEarly, WorkedOnIsUndecided, OccurrenceMatchesRun, AnswerIsWhatWasAsked,
      RunsShareTheApp, Plans, At, ActiveRun
<1>3. ASSUME NEW k \in AllKeys, EndRun(k)
      PROVE  RunInv'
  <2>1. /\ \A j \in AllKeys : j # k => op'[j] = op[j]
        /\ op'[k].kind = "sync" /\ op'[k].active = FALSE /\ op[k].kind = "sync"
        /\ op'[k].dataset = op[k].dataset /\ op'[k].app = op[k].app
        /\ app' = app /\ occurrence' = occurrence /\ session' = session
    BY <1>3, EndRunEffect DEF EndRun, IInv, TypeInv
  <2>2. PlansAreOwn' /\ LockIsHeld' /\ WorkedOnIsUndecided'
    BY <2>1 DEF IInv, TypeInv, PlansAreOwn, LockIsHeld, WorkedOnIsUndecided, Plans, At
  <2>3. OverlapIsFoundEarly'
    BY <2>1 DEF IInv, OverlapIsFoundEarly, ActiveRun, At
  <2>4. OccurrenceMatchesRun' /\ RunsShareTheApp'
    BY <2>1, Disjoint DEF IInv, OccurrenceMatchesRun, RunsShareTheApp
  <2>5. AnswerIsWhatWasAsked'
    <3> SUFFICES ASSUME NEW t \in Callers, At(t, "answered")
                 PROVE  IF session[t].asked = NULL
                        THEN op'[session[t].key].kind = "sync"
                        ELSE op'[session[t].key] = [kind |-> "fast", request |-> session[t].asked]
      BY <2>1 DEF AnswerIsWhatWasAsked, At
    <3>1. session[t].key \in AllKeys
      BY SessionTypes, Disjoint DEF IInv, TypeInv
    <3>2. IF session[t].asked = NULL
          THEN op[session[t].key].kind = "sync"
          ELSE op[session[t].key] = [kind |-> "fast", request |-> session[t].asked]
      BY DEF IInv, AnswerIsWhatWasAsked
    <3> QED
      BY <2>1, <3>1, <3>2
  <2> QED
    BY <2>2, <2>3, <2>4, <2>5 DEF RunInv
<1> QED
  BY <1>1, <1>2, <1>3 DEF Outside

LEMMA InductiveStep == IInv /\ [Next]_vars => IInv'
<1> SUFFICES ASSUME IInv, [Next]_vars PROVE IInv'
  OBVIOUS
<1>1. CASE UNCHANGED vars
  <2>1. RunInv'
    BY <1>1, QuietStep DEF vars, Quiet
  <2>2. TypeInv'
    BY <1>1 DEF vars, IInv, TypeInv, TypeOK, PlansAreOwn, PublishingExists, Plans, At
  <2> QED
    BY <2>1, <2>2 DEF RunInv, IInv
<1>2. CASE Next
  <2>1. TypeOK'
    BY <1>2, Steps, PrepareTypes, QueueTypes, BeginPlanTypes, MaterializeTypes, SettleTypes,
       OutsideTypes DEF IInv
  <2>2. PublishingExists'
    BY <1>2, PublishingStep DEF IInv
  <2>3. RunInv'
    BY <1>2, Steps, PrepareQuiet, SettleQuiet, QuietStep, QueueInv, BeginPlanInv, MaterializeInv,
       OutsideInv
  <2> QED
    BY <2>1, <2>2, <2>3 DEF RunInv, IInv, TypeInv
<1> QED
  BY <1>1, <1>2

LEMMA Invariance == Spec => []IInv
BY InitHolds, InductiveStep, PTL DEF Spec
-----------------------------------------------------------------------------
(* The mappings, with datasets changed by one caller at a time.            *)

\* A published mapping stays what it is.
FitsAfter(m, d, e) ==
    mapping'[m].status = "PUBLISHED" /\ mapping'[m].dataset = d /\ mapping'[m].entity = e

LEMMA FitsStay ==
    ASSUME TypeInv, Next, NEW m \in Mappings, NEW d, NEW e, Fits(m, d, e)
    PROVE  FitsAfter(m, d, e)
<1>1. mapping[m] \in [status : {"DRAFT", "PUBLISHED"}, dataset : Datasets, entity : Entities]
  BY MappingTypes DEF Fits, TypeInv
<1>2. CASE \E c \in Callers, n \in Mappings : StoreMapping(c, n)
  BY <1>2 DEF StoreMapping, Fits, FitsAfter, TypeInv, TypeOK
<1>3. CASE \E c \in Callers : ActivateMapping(c)
  <2>1. PICK n : mapping' = [mapping EXCEPT ![n].status = "PUBLISHED"]
    BY <1>3 DEF ActivateMapping
  <2> QED
    BY <1>1, <2>1 DEF Fits, FitsAfter, TypeInv, TypeOK
<1>4. ASSUME ~\E c \in Callers, n \in Mappings : StoreMapping(c, n),
             ~\E c \in Callers : ActivateMapping(c)
      PROVE  FitsAfter(m, d, e)
  <2>1. mapping' = mapping
    BY <1>4, MappingsChange
  <2> QED
    BY <2>1 DEF Fits, FitsAfter
<1> QED
  BY <1>2, <1>3, <1>4

\* Only Prepare writes datasets or mappings or gets a caller to write them.
LEMMA OthersPrepareNothing ==
    ASSUME TypeInv, Next, ~\E c \in Callers : Prepare(c)
    PROVE  /\ dataset' = dataset /\ mapping' = mapping
           /\ \A s \in Sessions :
                \/ session'[s] = session[s]
                \/ session'[s].pc \notin {"publishing", "editing"}
<1>1. ASSUME NEW c \in Callers, Queue(c)
      PROVE  /\ dataset' = dataset /\ mapping' = mapping
             /\ \A s \in Sessions :
                  \/ session'[s] = session[s]
                  \/ session'[s].pc \notin {"publishing", "editing"}
  BY <1>1, Disjoint
  DEF Queue, QueueOperation, QueueReplay, QueueCommit, Respond, OnlySession, Goto, TypeInv,
      TypeOK, Idle
<1>2. ASSUME NEW t \in Sessions, BeginPlan(t) \/ MaterializeSyncRun(t)
      PROVE  /\ dataset' = dataset /\ mapping' = mapping
             /\ \A s \in Sessions :
                  \/ session'[s] = session[s]
                  \/ session'[s].pc \notin {"publishing", "editing"}
  <2>1. CASE BeginPlan(t)
    BY <2>1 DEF BeginPlan, RunNow, ReceiveOccurrence, PlanFor, OnlySession, Goto, TypeInv, TypeOK
  <2>2. CASE MaterializeSyncRun(t)
    BY <2>2 DEF MaterializeSyncRun, Refuse, Replay, Overlap, Admit, InsertRun, Succeed, Fail,
                SkipOccurrence, OnlySession, Goto, TypeInv, TypeOK, Idle
  <2> QED
    BY <1>2, <2>1, <2>2
<1>3. CASE Settle \/ Outside
  BY <1>3, Disjoint
  DEF Settle, KnownOccurrence, DeleteOccurrenceMessage, Abort, Outside, UpdateWorkspaceApp,
      ChangeConnection, EndRun, FireOccurrence, OnlySession, Goto, TypeInv, TypeOK, Idle
<1> QED
  BY <1>1, <1>2, <1>3, Steps

\* The mapping of a dataset fits it, and still does after any step if the
\* dataset keeps both mapping and entity.
LEMMA ActiveFits ==
    ASSUME TypeInv, ActiveMappingFits, Next, NEW d \in Datasets, dataset[d].mapping # NULL
    PROVE  /\ dataset[d].mapping \in Mappings
           /\ mapping[dataset[d].mapping].status = "PUBLISHED"
           /\ mapping[dataset[d].mapping].dataset = d
           /\ mapping'[dataset[d].mapping].status = "PUBLISHED"
           /\ mapping'[dataset[d].mapping].dataset = d
           /\ mapping'[dataset[d].mapping].entity = dataset[d].entity
<1> DEFINE n == dataset[d].mapping
           e == dataset[d].entity
<1>1. n \in Mappings
  BY DEF TypeInv, TypeOK, Dataset
<1>2. Fits(n, d, e)
  BY DEF ActiveMappingFits, Fits
<1> HIDE DEF n, e
<1>3. FitsAfter(n, d, e)
  BY <1>1, <1>2, FitsStay
<1> QED
  BY <1>1, <1>2, <1>3 DEF Fits, FitsAfter, n, e

\* A mapping keeps dataset and entity for ever.
LEMMA StoredStays ==
    ASSUME TypeInv, Next, NEW m \in Mappings, mapping[m].status # "NONE"
    PROVE  mapping'[m].dataset = mapping[m].dataset /\ mapping'[m].entity = mapping[m].entity
<1>1. mapping[m] \in [status : {"DRAFT", "PUBLISHED"}, dataset : Datasets, entity : Entities]
  BY MappingTypes DEF TypeInv
<1>2. CASE \E c \in Callers, n \in Mappings : StoreMapping(c, n)
  BY <1>2 DEF StoreMapping, TypeInv, TypeOK
<1>3. CASE \E c \in Callers : ActivateMapping(c)
  <2>1. PICK n : mapping' = [mapping EXCEPT ![n].status = "PUBLISHED"]
    BY <1>3 DEF ActivateMapping
  <2> QED
    BY <1>1, <2>1 DEF TypeInv, TypeOK
<1>4. CASE mapping' = mapping
  BY <1>4
<1> QED
  BY <1>2, <1>3, <1>4, MappingsChange

\* What a caller has read is there as long as nobody writes its dataset.
LEMMA SeenStays ==
    ASSUME TypeInv, Next, NEW b \in Callers, SeesCurrent(b), session'[b] = session[b],
           \A d \in Datasets : Changes(b, d) => dataset'[d] = dataset[d]
    PROVE  SeesCurrent(b)'
<1>1. b \in Sessions
  BY Disjoint
<1>2. CASE At(b, "publishing")
  <2> DEFINE m == session[b].mapping
             d == mapping[m].dataset
  <2>1. m \in Mappings /\ mapping[m].status # "NONE" /\ d \in Datasets
    BY <1>1, <1>2, SessionTypes, MappingTypes DEF TypeInv, PublishingExists
  <2>2. mapping'[m].dataset = d /\ mapping'[m].entity = mapping[m].entity
    BY <2>1, StoredStays
  <2>3. dataset'[d] = dataset[d]
    BY <1>2, <2>1 DEF Changes
  <2> QED
    BY <1>2, <2>2, <2>3 DEF SeesCurrent, At
<1>3. CASE At(b, "editing")
  <2>1. session[b].dataset \in Datasets
    BY <1>1, <1>3, SessionTypes DEF TypeInv
  <2>2. dataset'[session[b].dataset] = dataset[session[b].dataset]
    BY <1>3, <2>1 DEF Changes
  <2> QED
    BY <1>3, <2>2 DEF SeesCurrent, At
<1>4. CASE ~At(b, "publishing") /\ ~At(b, "editing")
  BY <1>4 DEF SeesCurrent, At
<1> QED
  BY <1>2, <1>3, <1>4

\* A caller writes the dataset it changes, and no other.
LEMMA WritesOwn ==
    ASSUME TypeInv, NEW c \in Callers, Prepare(c)
    PROVE  /\ \A b \in Callers \ {c} : session'[b] = session[b]
           /\ \A d \in Datasets : dataset'[d] # dataset[d] => Changes(c, d)
<1>1. \E state : Goto(c, state)
  BY DEF Prepare, EditDataset, CreateMapping, EditCommit, StoreMapping, PublishMapping,
         ActivateMapping
<1>2. \A b \in Callers \ {c} : session'[b] = session[b]
  BY <1>1, Disjoint DEF Goto, TypeInv, TypeOK
<1>3. CASE EditCommit(c)
  BY <1>2, <1>3 DEF EditCommit, Changes, TypeInv, TypeOK
<1>4. CASE ActivateMapping(c)
  BY <1>2, <1>4 DEF ActivateMapping, Changes, TypeInv, TypeOK
<1>5. CASE dataset' = dataset
  BY <1>2, <1>5
<1> QED
  BY <1>3, <1>4, <1>5
  DEF Prepare, EditDataset, CreateMapping, StoreMapping, PublishMapping, OnlySession

LEMMA PrepareFits ==
    ASSUME ChangesApart, IInv, MappingInv, Next, NEW c \in Callers, Prepare(c)
    PROVE  ActiveMappingFits' /\ SeenIsCurrent'
<1>1. /\ TypeInv /\ TypeOK /\ ActiveMappingFits /\ c \in Sessions
  BY Disjoint DEF IInv, TypeInv, MappingInv
<1>2. \A d \in Datasets : dataset[d] \in Dataset
  BY <1>1 DEF TypeOK
<1>3. ASSUME dataset' = dataset
      PROVE  ActiveMappingFits'
  BY <1>1, <1>3, ActiveFits DEF ActiveMappingFits
<1>4. ASSUME NEW b \in Callers \ {c}
      PROVE  SeesCurrent(b)'
  <2>1. \A d \in Datasets : Changes(b, d) => dataset'[d] = dataset[d]
    BY <1>1, WritesOwn DEF ChangesApart
  <2> QED
    BY <1>1, <2>1, WritesOwn, SeenStays DEF MappingInv, SeenIsCurrent
<1> SUFFICES ActiveMappingFits' /\ SeesCurrent(c)'
  BY <1>4 DEF SeenIsCurrent
<1>5. ASSUME NEW d \in Datasets, EditDataset(c, d)
      PROVE  ActiveMappingFits' /\ SeesCurrent(c)'
  <2>1. dataset' = dataset /\ mapping' = mapping
    BY <1>5 DEF EditDataset, OnlySession
  <2>2. PICK e \in Entities, st \in DatasetStatus \cup {NULL} :
          LET new == Retarget(dataset[d], e)
          IN session'[c] = [pc |-> "editing", dataset |-> d, seen |-> dataset[d],
                            new |-> IF st = NULL THEN new ELSE [new EXCEPT !.status = st]]
    BY <1>1, <1>5 DEF EditDataset, Goto, TypeOK
  <2> DEFINE new == Retarget(dataset[d], e)
             to == IF st = NULL THEN new ELSE [new EXCEPT !.status = st]
  <2>3. \/ to.mapping = NULL
        \/ to.mapping = dataset[d].mapping /\ to.entity = dataset[d].entity
    BY <1>2 DEF Retarget, Dataset
  <2>4. /\ session'[c].pc = "editing" /\ session'[c].dataset = d
        /\ session'[c].seen = dataset[d] /\ session'[c].new = to
    BY <2>2
  <2> HIDE DEF to, new
  <2>5. SeesCurrent(c)'
    BY <1>1, <2>1, <2>3, <2>4 DEF SeesCurrent, At
  <2> QED
    BY <1>3, <2>1, <2>5
<1>6. CASE \E d \in Datasets : CreateMapping(c, d)
  <2>1. dataset' = dataset /\ session'[c].pc = "mapping"
    BY <1>1, <1>6 DEF CreateMapping, OnlySession, Goto, TypeOK
  <2>2. SeesCurrent(c)'
    BY <1>1, <2>1 DEF SeesCurrent, At
  <2> QED
    BY <1>3, <2>1, <2>2
<1>7. CASE EditCommit(c)
  <2> DEFINE s == session[c]
             d == s.dataset
  <2>1. d \in Datasets /\ s.seen \in Dataset /\ s.new \in Dataset /\ dataset[d] = s.seen
    BY <1>1, <1>7, SessionTypes DEF EditCommit, MappingInv, SeenIsCurrent, SeesCurrent
  <2>2. \/ s.new.mapping = NULL
        \/ s.new.mapping = dataset[d].mapping /\ s.new.entity = dataset[d].entity
    BY <1>7, <2>1 DEF EditCommit, MappingInv, SeenIsCurrent, SeesCurrent
  <2>3. dataset' = [dataset EXCEPT ![d] = s.new]
    BY <1>7, <2>1, FlushType DEF EditCommit
  <2>4. session'[c] = Idle
    BY <1>1, <1>7 DEF EditCommit, Goto, TypeOK
  <2>5. ActiveMappingFits'
    <3> SUFFICES ASSUME NEW x \in Datasets, dataset'[x].mapping # NULL
                 PROVE  /\ mapping'[dataset'[x].mapping].status = "PUBLISHED"
                        /\ mapping'[dataset'[x].mapping].dataset = x
                        /\ mapping'[dataset'[x].mapping].entity = dataset'[x].entity
      BY DEF ActiveMappingFits
    <3>1. dataset'[x].mapping = dataset[x].mapping /\ dataset'[x].entity = dataset[x].entity
      BY <1>1, <2>1, <2>2, <2>3 DEF TypeOK
    <3> QED
      BY <1>1, <3>1, ActiveFits
  <2>6. SeesCurrent(c)'
    BY <2>4 DEF SeesCurrent, At, Idle
  <2> QED
    BY <2>5, <2>6
<1>8. CASE \E m \in Mappings : StoreMapping(c, m)
  <2>1. dataset' = dataset /\ session'[c] = Idle
    BY <1>1, <1>8 DEF StoreMapping, Goto, TypeOK
  <2>2. SeesCurrent(c)'
    BY <2>1 DEF SeesCurrent, At, Idle
  <2> QED
    BY <1>3, <2>1, <2>2
<1>9. ASSUME NEW m \in Mappings, PublishMapping(c, m)
      PROVE  ActiveMappingFits' /\ SeesCurrent(c)'
  <2>1. /\ dataset' = dataset /\ mapping' = mapping
        /\ mapping[m].entity = dataset[mapping[m].dataset].entity
        /\ session'[c] = [pc |-> "publishing", mapping |-> m, seen |-> dataset[mapping[m].dataset]]
    BY <1>1, <1>9 DEF PublishMapping, OnlySession, Goto, TypeOK
  <2>2. SeesCurrent(c)'
    BY <1>1, <2>1 DEF SeesCurrent, At
  <2> QED
    BY <1>3, <2>1, <2>2
<1>10. CASE ActivateMapping(c)
  <2> DEFINE m == session[c].mapping
             seen == session[c].seen
             new == [seen EXCEPT !.mapping = m, !.status = "MAPPED"]
             d == mapping[m].dataset
  <2>1. /\ m \in Mappings /\ seen \in Dataset
        /\ mapping[m].status # "NONE"
        /\ dataset[d] = seen /\ mapping[m].entity = seen.entity
    BY <1>1, <1>10, SessionTypes
    DEF ActivateMapping, TypeInv, PublishingExists, MappingInv, SeenIsCurrent, SeesCurrent
  <2>2. /\ d \in Datasets
        /\ mapping[m] \in [status : {"DRAFT", "PUBLISHED"}, dataset : Datasets, entity : Entities]
    BY <1>1, <2>1, MappingTypes
  <2>3. new \in Dataset /\ new.mapping = m /\ new.entity = seen.entity
    BY <2>1 DEF Dataset, DatasetStatus
  <2>4. dataset' = [dataset EXCEPT ![d] = Flush(@, seen, new)]
    BY <1>10 DEF ActivateMapping
  <2>5. mapping' = [mapping EXCEPT ![m].status = "PUBLISHED"]
    BY <1>10 DEF ActivateMapping
  <2>6. session'[c] = Idle
    BY <1>1, <1>10 DEF ActivateMapping, Goto, TypeOK
  <2>7. /\ mapping'[m].status = "PUBLISHED" /\ mapping'[m].dataset = d
        /\ mapping'[m].entity = seen.entity
    BY <1>1, <2>1, <2>2, <2>5 DEF TypeOK
  <2> HIDE DEF new, m
  <2>8. dataset'[d] = new /\ \A x \in Datasets \ {d} : dataset'[x] = dataset[x]
    BY <1>1, <2>1, <2>2, <2>3, <2>4, FlushType DEF TypeOK
  <2>9. ActiveMappingFits'
    <3> SUFFICES ASSUME NEW x \in Datasets, dataset'[x].mapping # NULL
                 PROVE  /\ mapping'[dataset'[x].mapping].status = "PUBLISHED"
                        /\ mapping'[dataset'[x].mapping].dataset = x
                        /\ mapping'[dataset'[x].mapping].entity = dataset'[x].entity
      BY DEF ActiveMappingFits
    <3>1. CASE x = d
      BY <2>3, <2>7, <2>8, <3>1
    <3>2. CASE x # d
      BY <1>1, <2>8, <3>2, ActiveFits
    <3> QED
      BY <3>1, <3>2
  <2>10. SeesCurrent(c)'
    BY <2>6 DEF SeesCurrent, At, Idle
  <2> QED
    BY <2>9, <2>10
<1> QED
  BY <1>5, <1>6, <1>7, <1>8, <1>9, <1>10 DEF Prepare

LEMMA ActiveStep ==
    ASSUME ChangesApart, IInv, MappingInv, Next
    PROVE  ActiveMappingFits' /\ SeenIsCurrent'
<1>1. CASE \E c \in Callers : Prepare(c)
  BY <1>1, PrepareFits
<1>2. CASE ~\E c \in Callers : Prepare(c)
  <2>1. /\ dataset' = dataset /\ mapping' = mapping
        /\ \A c \in Callers :
             \/ session'[c] = session[c]
             \/ session'[c].pc \notin {"publishing", "editing"}
    BY <1>2, OthersPrepareNothing, Disjoint DEF IInv
  <2>2. ActiveMappingFits'
    BY <2>1 DEF MappingInv, ActiveMappingFits
  <2>3. SeenIsCurrent'
    BY <2>1 DEF MappingInv, SeenIsCurrent, SeesCurrent, At
  <2> QED
    BY <2>2, <2>3
<1> QED
  BY <1>1, <1>2

\* A session with a plan has just made it, from the mapping of its dataset, or
\* goes on with it.
LEMMA PlanComes ==
    ASSUME TypeInv, Next, NEW s \in Sessions, Plans(s)'
    PROVE  \/ Plans(s) /\ session'[s].plan = session[s].plan
           \/ \E k \in AllKeys, d \in Datasets : CanPlan(d) /\ session'[s] = PlanFor(k, d)
<1>1. ASSUME NEW c \in Callers, Prepare(c) \/ Queue(c)
      PROVE  Plans(s) /\ session'[s] = session[s]
  BY <1>1, Disjoint
  DEF Prepare, EditDataset, CreateMapping, EditCommit, StoreMapping, PublishMapping,
      ActivateMapping, Queue, QueueOperation, QueueReplay, QueueCommit, Respond, Goto, TypeInv,
      TypeOK, Plans, Idle
<1>2. ASSUME NEW t \in Sessions, BeginPlan(t)
      PROVE  \/ Plans(s) /\ session'[s] = session[s]
             \/ \E k \in AllKeys, d \in Datasets : CanPlan(d) /\ session'[s] = PlanFor(k, d)
  BY <1>2, Disjoint, DatasetOfAssumption
  DEF BeginPlan, RunNow, ReceiveOccurrence, Goto, TypeInv, TypeOK, Plans
<1>3. ASSUME NEW t \in Sessions, MaterializeSyncRun(t)
      PROVE  Plans(s) /\ session'[s].plan = session[s].plan
  BY <1>3 DEF MaterializeSyncRun, Refuse, Replay, Overlap, Admit, InsertRun, Lock, Succeed, Fail,
              SkipOccurrence, OnlySession, Goto, TypeInv, TypeOK, Plans, At, Idle
<1>4. CASE Settle \/ Outside
  BY <1>4, Disjoint
  DEF Settle, KnownOccurrence, DeleteOccurrenceMessage, Abort, Outside, UpdateWorkspaceApp,
      ChangeConnection, EndRun, FireOccurrence, Goto, TypeInv, TypeOK, Plans, Idle
<1> QED
  BY <1>1, <1>2, <1>3, <1>4, Steps

LEMMA PlanMappingStep ==
    ASSUME IInv, MappingInv, Next
    PROVE  PlanMappingIsSupported'
<1> SUFFICES ASSUME NEW s \in Sessions, Plans(s)'
             PROVE  \E e \in Entities :
                      /\ EntitySupported(e)
                      /\ mapping'[session'[s].plan.mapping].status = "PUBLISHED"
                      /\ mapping'[session'[s].plan.mapping].dataset = session'[s].plan.dataset
                      /\ mapping'[session'[s].plan.mapping].entity = e
  BY DEF PlanMappingIsSupported, Fits, EntitySupported
<1>1. CASE Plans(s) /\ session'[s].plan = session[s].plan
  <2> DEFINE m == session[s].plan.mapping
             d == session[s].plan.dataset
  <2>1. m \in Mappings
    BY <1>1, SessionTypes, PlanTypes DEF IInv, TypeInv
  <2>2. PICK e \in Entities : EntitySupported(e) /\ Fits(m, d, e)
    BY <1>1 DEF MappingInv, PlanMappingIsSupported
  <2> HIDE DEF m, d
  <2>3. FitsAfter(m, d, e)
    BY <2>1, <2>2, FitsStay DEF IInv
  <2> QED
    BY <1>1, <2>2, <2>3 DEF FitsAfter, m, d
<1>2. ASSUME NEW k \in AllKeys, NEW d \in Datasets, CanPlan(d), session'[s] = PlanFor(k, d)
      PROVE  \E e \in Entities :
               /\ EntitySupported(e)
               /\ mapping'[session'[s].plan.mapping].status = "PUBLISHED"
               /\ mapping'[session'[s].plan.mapping].dataset = session'[s].plan.dataset
               /\ mapping'[session'[s].plan.mapping].entity = e
  <2>1. dataset[d].entity \in Entities /\ EntitySupported(dataset[d].entity)
    BY <1>2 DEF CanPlan, IInv, TypeInv, TypeOK, Dataset
  <2>2. session'[s].plan.mapping = dataset[d].mapping /\ session'[s].plan.dataset = d
    BY <1>2 DEF PlanFor
  <2> QED
    BY <1>2, <2>1, <2>2, ActiveFits DEF CanPlan, IInv, MappingInv
<1> QED
  BY <1>1, <1>2, PlanComes DEF IInv

\* A run is inserted with the mapping of the plan, and keeps it.
LEMMA RunComes ==
    ASSUME TypeInv, Next, NEW k \in AllKeys, op'[k].kind = "sync"
    PROVE  \/ /\ op[k].kind = "sync"
              /\ op'[k].mapping = op[k].mapping /\ op'[k].dataset = op[k].dataset
           \/ \E s \in Sessions : Plans(s) /\ op'[k] = NewRun(s)
<1>1. ASSUME NEW c \in Callers, Prepare(c)
      PROVE  op' = op
  BY <1>1 DEF Prepare, EditDataset, CreateMapping, EditCommit, StoreMapping, PublishMapping,
              ActivateMapping, OnlySession
<1>2. ASSUME NEW c \in Callers, Queue(c)
      PROVE  op'[k] = op[k]
  <2>1. CASE op' = op
    BY <2>1
  <2>2. CASE op' = [op EXCEPT ![session[c].key] = [kind |-> "fast", request |-> session[c].request]]
    BY <2>2 DEF TypeInv, TypeOK
  <2> QED
    BY <1>2, <2>1, <2>2
    DEF Queue, QueueOperation, QueueReplay, QueueCommit, Respond, OnlySession
<1>3. ASSUME NEW s \in Sessions, BeginPlan(s)
      PROVE  op' = op
  BY <1>3 DEF BeginPlan, RunNow, ReceiveOccurrence, OnlySession
<1>4. ASSUME NEW s \in Sessions, MaterializeSyncRun(s)
      PROVE  op'[k] = op[k] \/ (Plans(s) /\ op'[k] = NewRun(s))
  <2>1. CASE op' = op
    BY <2>1
  <2>2. CASE At(s, "admitted") /\ op' = [op EXCEPT ![session[s].plan.key] = NewRun(s)]
    BY <2>2 DEF TypeInv, TypeOK, Plans, At
  <2> QED
    BY <1>4, <2>1, <2>2
    DEF MaterializeSyncRun, Refuse, Replay, Overlap, Admit, InsertRun, OnlySession
<1>5. CASE Settle
  BY <1>5 DEF Settle, KnownOccurrence, DeleteOccurrenceMessage, Abort, OnlySession
<1>6. CASE Outside
  <2>1. ASSUME NEW j \in AllKeys, EndRun(j)
        PROVE  /\ op[k].kind = "sync"
               /\ op'[k].mapping = op[k].mapping /\ op'[k].dataset = op[k].dataset
    BY <2>1, EndRunEffect DEF EndRun, TypeInv
  <2> QED
    BY <1>6, <2>1 DEF Outside, UpdateWorkspaceApp, ChangeConnection, FireOccurrence
<1> QED
  BY <1>1, <1>2, <1>3, <1>4, <1>5, <1>6, Steps

LEMMA RunMappingStep ==
    ASSUME IInv, MappingInv, Next
    PROVE  RunMappingIsSupported'
<1> SUFFICES ASSUME NEW k \in AllKeys, op'[k].kind = "sync"
             PROVE  /\ mapping'[op'[k].mapping].status = "PUBLISHED"
                    /\ mapping'[op'[k].mapping].dataset = op'[k].dataset
                    /\ EntitySupported(mapping'[op'[k].mapping].entity)
  BY DEF RunMappingIsSupported, EntitySupported
<1>1. ASSUME NEW m \in Mappings, NEW d \in Datasets, NEW e \in Entities, EntitySupported(e),
             Fits(m, d, e), op'[k].mapping = m, op'[k].dataset = d
      PROVE  /\ mapping'[op'[k].mapping].status = "PUBLISHED"
             /\ mapping'[op'[k].mapping].dataset = op'[k].dataset
             /\ EntitySupported(mapping'[op'[k].mapping].entity)
  <2>1. FitsAfter(m, d, e)
    BY <1>1, FitsStay DEF IInv
  <2> QED
    BY <1>1, <2>1 DEF FitsAfter
<1>2. CASE /\ op[k].kind = "sync"
           /\ op'[k].mapping = op[k].mapping /\ op'[k].dataset = op[k].dataset
  <2>1. op[k].mapping \in Mappings /\ op[k].dataset \in Datasets
    BY <1>2, OperationTypes DEF IInv, TypeInv, Sync
  <2>2. mapping[op[k].mapping].entity \in Entities /\ EntitySupported(mapping[op[k].mapping].entity)
    BY <1>2, <2>1, MappingTypes DEF IInv, TypeInv, MappingInv, RunMappingIsSupported
  <2>3. Fits(op[k].mapping, op[k].dataset, mapping[op[k].mapping].entity)
    BY <1>2 DEF MappingInv, RunMappingIsSupported, Fits
  <2> QED
    BY <1>1, <1>2, <2>1, <2>2, <2>3
<1>3. ASSUME NEW s \in Sessions, Plans(s), op'[k] = NewRun(s)
      PROVE  /\ mapping'[op'[k].mapping].status = "PUBLISHED"
             /\ mapping'[op'[k].mapping].dataset = op'[k].dataset
             /\ EntitySupported(mapping'[op'[k].mapping].entity)
  <2>1. session[s].plan.mapping \in Mappings /\ session[s].plan.dataset \in Datasets
    BY <1>3, SessionTypes, PlanTypes DEF IInv, TypeInv
  <2>2. \E e \in Entities : EntitySupported(e) /\ Fits(session[s].plan.mapping, session[s].plan.dataset, e)
    BY <1>3 DEF MappingInv, PlanMappingIsSupported
  <2>3. op'[k].mapping = session[s].plan.mapping /\ op'[k].dataset = session[s].plan.dataset
    BY <1>3 DEF NewRun
  <2> QED
    BY <1>1, <2>1, <2>2, <2>3
<1> QED
  BY <1>2, <1>3, RunComes DEF IInv

LEMMA MappingStep ==
    ASSUME ChangesApart, IInv, MappingInv, [Next]_vars
    PROVE  MappingInv'
<1>1. CASE UNCHANGED vars
  BY <1>1 DEF vars, MappingInv, ActiveMappingFits, SeenIsCurrent, SeesCurrent, PlanMappingIsSupported,
              RunMappingIsSupported, Plans, Fits, At, EntitySupported
<1>2. CASE Next
  BY <1>2, ActiveStep, PlanMappingStep, RunMappingStep DEF MappingInv
<1> QED
  BY <1>1, <1>2

LEMMA MappingInit == Init => MappingInv
BY Disjoint
DEF Init, MappingInv, ActiveMappingFits, SeenIsCurrent, SeesCurrent, PlanMappingIsSupported,
    RunMappingIsSupported, Plans, At, Idle

LEMMA MappingInvariance == Spec /\ []ChangesApart => []MappingInv
<1>1. Init => MappingInv
  BY MappingInit
<1>2. IInv /\ ChangesApart /\ MappingInv /\ [Next]_vars => MappingInv'
  BY MappingStep
<1> QED
  BY <1>1, <1>2, Invariance, PTL DEF Spec
-----------------------------------------------------------------------------
(* Occurrences are decided once.                                           *)

DecisionsStay == \A o \in Occurrences : occurrence[o] # "NONE" => occurrence'[o] = occurrence[o]

\* A handler decides the occurrence of its plan, which was undecided.
LEMMA DecisionStep ==
    ASSUME IInv, [Next]_vars
    PROVE  DecisionsStay
<1>1. CASE occurrence' = occurrence
  BY <1>1 DEF DecisionsStay
<1>2. ASSUME NEW s \in Sessions, MaterializeSyncRun(s)
      PROVE  DecisionsStay
  <2> DEFINE k == session[s].plan.key
  <2>1. Plans(s)
    BY <1>2 DEF MaterializeSyncRun, Refuse, Replay, Overlap, Admit, InsertRun, Lock, Plans, At
  <2>2. CASE s \in Callers
    <3>1. occurrence' = occurrence
      BY <1>2, <2>2 DEF MaterializeSyncRun, Refuse, Replay, Overlap, Admit, InsertRun, Succeed, Fail,
                        OnlySession
    <3> QED
      BY <1>1, <3>1
  <2>3. CASE s \in Handlers
    <3>1. occurrence[k] = "NONE"
      BY <2>1, <2>3 DEF IInv, WorkedOnIsUndecided
    <3>2. PICK status : occurrence' = occurrence \/ occurrence' = [occurrence EXCEPT ![k] = status]
      BY <1>2 DEF MaterializeSyncRun, Refuse, Replay, Overlap, Admit, InsertRun, Succeed, Fail,
                  SkipOccurrence, OnlySession
    <3> QED
      BY <3>1, <3>2 DEF DecisionsStay, IInv, TypeInv, TypeOK
  <2> QED
    BY <2>2, <2>3 DEF Sessions
<1>3. CASE \E c \in Callers : Prepare(c) \/ Queue(c)
  BY <1>1, <1>3
  DEF Prepare, EditDataset, CreateMapping, EditCommit, StoreMapping, PublishMapping, ActivateMapping,
      Queue, QueueOperation, QueueReplay, QueueCommit, Respond, OnlySession
<1>4. CASE \E s \in Sessions : BeginPlan(s)
  BY <1>1, <1>4 DEF BeginPlan, RunNow, ReceiveOccurrence, OnlySession
<1>5. CASE Settle \/ Outside
  BY <1>1, <1>5
  DEF Settle, KnownOccurrence, DeleteOccurrenceMessage, Abort, OnlySession, Outside,
      UpdateWorkspaceApp, ChangeConnection, EndRun, FireOccurrence
<1>6. CASE UNCHANGED vars
  BY <1>1, <1>6 DEF vars
<1> QED
  BY <1>2, <1>3, <1>4, <1>5, <1>6, Steps

-----------------------------------------------------------------------------
(* The results.                                                            *)

\* Rows, queue and sessions keep their types (TypeOK).
THEOREM TypeCorrect == Spec => []TypeOK
<1>1. IInv => TypeOK
  BY DEF IInv, TypeInv
<1> QED
  BY <1>1, Invariance, PTL

\* materialize_sync_run finds an overlapping run while it holds the workspace
\* row: the partial unique index never refuses an insert.
THEOREM OverlapsAreFoundEarly == Spec => []OverlapIsFoundEarly
<1>1. IInv => OverlapIsFoundEarly
  BY DEF IInv
<1> QED
  BY <1>1, Invariance, PTL

\* The row of an occurrence and the run of its key agree, over rollbacks,
\* redeliveries and any number of replicas of the occurrence worker.
THEOREM OccurrencesMatchRuns == Spec => []OccurrenceMatchesRun
<1>1. IInv => OccurrenceMatchesRun
  BY DEF IInv
<1> QED
  BY <1>1, Invariance, PTL

\* An idempotency key is answered with a run or with the very operation that
\* was asked for.
THEOREM AnswersMatch == Spec => []AnswerIsWhatWasAsked
<1>1. IInv => AnswerIsWhatWasAsked
  BY DEF IInv
<1> QED
  BY <1>1, Invariance, PTL

\* Every run carries the app the workspace has now.
THEOREM AppsAgree == Spec => []RunsShareTheApp
<1>1. IInv => RunsShareTheApp
  BY DEF IInv
<1> QED
  BY <1>1, Invariance, PTL

\* No step changes an occurrence that is decided.
THEOREM DecisionsAreFinal == Spec => OccurrenceDecisionIsFinal
<1>1. IInv /\ [Next]_vars =>
        [\A o \in Occurrences : occurrence[o] # "NONE" => occurrence'[o] = occurrence[o]]_vars
  BY DecisionStep DEF DecisionsStay
<1> QED
  BY <1>1, Invariance, PTL DEF Spec, OccurrenceDecisionIsFinal

\* As long as no two callers change a dataset at a time, the mapping it syncs
\* with is a published one of its own, for its entity.
THEOREM MappingsFit == Spec /\ []ChangesApart => []ActiveMappingFits
<1>1. MappingInv => ActiveMappingFits
  BY DEF MappingInv
<1> QED
  BY <1>1, MappingInvariance, PTL

\* As long as no two callers change a dataset at a time, and with any number of
\* occurrence workers, a run uses a published mapping of its dataset, for an
\* entity the worker can sync, although dataset and mapping were read before
\* the lock.
THEOREM RunMappingsAreSupported == Spec /\ []ChangesApart => []RunMappingIsSupported
<1>1. MappingInv => RunMappingIsSupported
  BY DEF MappingInv
<1> QED
  BY <1>1, MappingInvariance, PTL

\* One caller changes nothing at the same time as another: the hypothesis of
\* the two theorems holds on its own.
THEOREM OneCallerIsApart ==
    ASSUME \A b, c \in Callers : b = c
    PROVE  Spec => []ActiveMappingFits /\ []RunMappingIsSupported
<1>1. ChangesApart
  BY DEF ChangesApart
<1> QED
  BY <1>1, MappingsFit, RunMappingsAreSupported, PTL
=============================================================================
