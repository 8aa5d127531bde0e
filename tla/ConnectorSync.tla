--------------------------- MODULE ConnectorSync ----------------------------
(***************************************************************************)
(* How sync runs of one workspace with one database connection come into   *)
(* being: the calls of app/modules/connectors/service.py that prepare a    *)
(* dataset (update_dataset, create_mapping, publish_mapping), the calls    *)
(* that create operations (queue_operation, materialize_sync_run), and the *)
(* occurrence worker of app/workers/connectors.py, which calls the last    *)
(* one for every message of the schedule queue.                            *)
(*                                                                         *)
(* A session is one request of an API process or one message of a worker.  *)
(* It reads in its first step and writes in a later one, its commit; only  *)
(* materialize_sync_run locks anything, the workspace row, and it does so  *)
(* after it has read the dataset.  An operation is named by its            *)
(* idempotency key, which is unique in the workspace; its row stands also  *)
(* for what the same commit inserts: the sync run, the landing, ingestion  *)
(* and stitching rows and the outbox event.                                *)
(***************************************************************************)
EXTENDS Naturals

CONSTANTS
    Datasets, Mappings, Apps,
    Entities,        \* values of target_entity
    Customer,        \* the one the connector worker can sync
    GenericEntities, \* connector_generic_entities_enabled
    Keys,            \* idempotency keys of API callers
    Requests,        \* type, dataset and body of an operation without a run
    Callers,         \* API processes
    Occurrences,     \* occurrence keys of schedules
    DatasetOf,       \* the dataset of each of them
    Handlers,        \* replicas of the occurrence worker
    NULL

ASSUME CustomerAssumption == Customer \in Entities
ASSUME GenericAssumption == GenericEntities \in BOOLEAN
ASSUME DatasetOfAssumption == DatasetOf \in [Occurrences -> Datasets]
ASSUME NullAssumption == NULL \notin Mappings \cup Apps \cup Entities \cup Requests
\* An occurrence's key begins with "schedule:" (workers/connectors.py:329).
\* That no caller chooses such a key is assumed of callers: nothing checks it.
ASSUME NamesAssumption == Keys \cap Occurrences = {} /\ Callers \cap Handlers = {}

VARIABLES
    app,         \* app_id of the workspace
    connection,  \* status of the connection
    dataset,     \* rows of connector.dataset
    mapping,     \* rows of connector.mapping_version
    op,          \* rows of connector.operation, with their sync runs
    occurrence,  \* status of the rows of connector.schedule_occurrence
    occurrenceQ, \* messages in the occurrence queue
    session      \* where each caller and handler is

vars == <<app, connection, dataset, mapping, op, occurrence, occurrenceQ, session>>

-----------------------------------------------------------------------------
ConnectionStatus == {"DRAFT", "READY", "DISABLED"}
DatasetStatus == {"DISCOVERED", "MAPPED", "ACTIVE"}
Dataset == [entity : Entities, mapping : Mappings \cup {NULL}, status : DatasetStatus]

Mapping == [status : {"NONE"}]
             \cup [status : {"DRAFT", "PUBLISHED"}, dataset : Datasets, entity : Entities]

\* The key of an occurrence's operation is "schedule:<schedule>:<occurrence>".
AllKeys == Keys \cup Occurrences

Sync == [kind : {"sync"}, dataset : Datasets, mapping : Mappings, app : Apps,
         active : BOOLEAN]
Fast == [kind : {"fast"}, request : Requests]
Operation == [kind : {"none"}] \cup Sync \cup Fast

Sessions == Callers \cup Handlers
Plan == [key : AllKeys, dataset : Datasets, mapping : Mappings]

SessionState ==
    [pc : {"idle"}]
      \cup [pc : {"mapping"}, dataset : Datasets, entity : Entities]
      \cup [pc : {"publishing"}, mapping : Mappings, seen : Dataset]
      \cup [pc : {"editing"}, dataset : Datasets, new : Dataset, seen : Dataset]
      \cup [pc : {"queueing"}, key : Keys, request : Requests]
      \cup [pc : {"planned"}, plan : Plan]
      \cup [pc : {"admitted"}, plan : Plan, app : Apps]
      \cup [pc : {"answered"}, key : Keys, asked : Requests \cup {NULL}]
      \cup [pc : {"decided"}, occurrence : Occurrences]

Idle == [pc |-> "idle"]

TypeOK ==
    /\ app \in Apps \cup {NULL}
    /\ connection \in ConnectionStatus
    /\ dataset \in [Datasets -> Dataset]
    /\ mapping \in [Mappings -> Mapping]
    /\ op \in [AllKeys -> Operation]
    /\ occurrence \in [Occurrences -> {"NONE", "QUEUED", "SKIPPED_ACTIVE_RUN"}]
    /\ occurrenceQ \subseteq Occurrences
    /\ session \in [Sessions -> SessionState]

-----------------------------------------------------------------------------
At(s, pc) == session[s].pc = pc
Goto(s, state) == session' = [session EXCEPT ![s] = state]

\* Slip: the workspace read without FOR UPDATE.
WorkspaceUnlocked == FALSE

\* FOR UPDATE of the workspace row, held to the end of the transaction.
WorkspaceLocked == \E s \in Sessions : At(s, "admitted")

\* The runs of a dataset the partial unique index counts.
ActiveRun(d) ==
    \E k \in AllKeys : op[k].kind = "sync" /\ op[k].dataset = d /\ op[k].active

\* The ORM updates the columns whose new value differs from the value read.
Flush(row, seen, new) ==
    [f \in DOMAIN row |-> IF new[f] # seen[f] THEN new[f] ELSE row[f]]

\* Slip: the entity changes and the mapping stays.
RetargetKeepsMapping(row, e) ==
    IF e = row.entity THEN row
    ELSE [entity |-> e, mapping |-> row.mapping, status |-> "DISCOVERED"]

\* Another target_entity drops the mapping of the old one.
Retarget(row, e) ==
    IF e = row.entity THEN row
    ELSE [entity |-> e, mapping |-> NULL, status |-> "DISCOVERED"]

EntitySupported(e) == e = Customer \/ GenericEntities

Init ==
    /\ app = NULL
    /\ connection = "DRAFT"
    /\ dataset \in [Datasets -> [entity : Entities, mapping : {NULL}, status : {"DISCOVERED"}]]
    /\ mapping = [m \in Mappings |-> [status |-> "NONE"]]
    /\ op = [k \in AllKeys |-> [kind |-> "none"]]
    /\ occurrence = [o \in Occurrences |-> "NONE"]
    /\ occurrenceQ = {}
    /\ session = [s \in Sessions |-> Idle]

-----------------------------------------------------------------------------
(* Workspace, connection and dataset.                                      *)

\* Slip: the app of a workspace may be replaced.
MayBindReplace(a) == TRUE

\* Once bound, and once a run exists, the app stays.
MayBind(a) == app = NULL /\ \A k \in AllKeys : op[k].kind # "sync"

UpdateWorkspaceApp(a) ==
    /\ ~WorkspaceLocked
    /\ MayBind(a)
    /\ app' = a
    /\ UNCHANGED <<connection, dataset, mapping, op, occurrence, occurrenceQ, session>>

\* update_credentials and update_connection, and the connection test of the
\* worker: for this module the status may change at any time.
ChangeConnection ==
    /\ connection' \in ConnectionStatus
    /\ UNCHANGED <<app, dataset, mapping, op, occurrence, occurrenceQ, session>>

OnlySession == UNCHANGED <<app, connection, dataset, mapping, op, occurrence, occurrenceQ>>

\* update_dataset reads the row; the status of the request, if it has one,
\* wins over the one a new entity brings.
EditDataset(c, d) ==
    /\ At(c, "idle")
    /\ \E e \in Entities, st \in DatasetStatus \cup {NULL} :
        LET row == dataset[d]
            new == Retarget(row, e)
        IN /\ e # row.entity => row.status # "ACTIVE"
           /\ Goto(c, [pc |-> "editing", dataset |-> d, seen |-> row,
                       new |-> IF st = NULL THEN new ELSE [new EXCEPT !.status = st]])
    /\ OnlySession

EditCommit(c) ==
    /\ At(c, "editing")
    /\ LET s == session[c] IN
        dataset' = [dataset EXCEPT ![s.dataset] = Flush(@, s.seen, s.new)]
    /\ Goto(c, Idle)
    /\ UNCHANGED <<app, connection, mapping, op, occurrence, occurrenceQ>>

\* create_mapping takes the entity of the mapping from the dataset it reads.
CreateMapping(c, d) ==
    /\ At(c, "idle")
    /\ Goto(c, [pc |-> "mapping", dataset |-> d, entity |-> dataset[d].entity])
    /\ OnlySession

StoreMapping(c, m) ==
    /\ At(c, "mapping")
    /\ mapping[m].status = "NONE"
    /\ mapping' = [mapping EXCEPT ![m] =
            [status |-> "DRAFT", dataset |-> session[c].dataset, entity |-> session[c].entity]]
    /\ Goto(c, Idle)
    /\ UNCHANGED <<app, connection, dataset, op, occurrence, occurrenceQ>>

\* publish_mapping reads the mapping and its dataset; a published mapping is
\* returned as it is.
PublishMapping(c, m) ==
    /\ At(c, "idle")
    /\ mapping[m].status = "DRAFT"
    /\ LET row == dataset[mapping[m].dataset] IN
        /\ mapping[m].entity = row.entity
        /\ Goto(c, [pc |-> "publishing", mapping |-> m, seen |-> row])
    /\ OnlySession

ActivateMapping(c) ==
    /\ At(c, "publishing")
    /\ LET m == session[c].mapping
           seen == session[c].seen
           new == [seen EXCEPT !.mapping = m, !.status = "MAPPED"]
       IN /\ mapping' = [mapping EXCEPT ![m].status = "PUBLISHED"]
          /\ dataset' = [dataset EXCEPT ![mapping[m].dataset] = Flush(@, seen, new)]
    /\ Goto(c, Idle)
    /\ UNCHANGED <<app, connection, op, occurrence, occurrenceQ>>

-----------------------------------------------------------------------------
(* queue_operation.                                                        *)

SameOperation(k, r) == op[k] = [kind |-> "fast", request |-> r]

QueueOperation(c, k, r) ==
    /\ At(c, "idle")
    /\ connection # "DISABLED"
    /\ op[k].kind = "none"
    /\ Goto(c, [pc |-> "queueing", key |-> k, request |-> r])
    /\ OnlySession

QueueReplay(c, k, r) ==
    /\ At(c, "idle")
    /\ connection # "DISABLED"
    /\ op[k].kind # "none"
    /\ SameOperation(k, r)
    /\ Goto(c, [pc |-> "answered", key |-> k, asked |-> r])
    /\ OnlySession

\* The unique key refuses a second operation; the request fails.
QueueCommit(c) ==
    /\ At(c, "queueing")
    /\ LET k == session[c].key
           r == session[c].request
       IN IF op[k].kind = "none"
          THEN /\ op' = [op EXCEPT ![k] = [kind |-> "fast", request |-> r]]
               /\ Goto(c, [pc |-> "answered", key |-> k, asked |-> r])
          ELSE Goto(c, Idle) /\ UNCHANGED op
    /\ UNCHANGED <<app, connection, dataset, mapping, occurrence, occurrenceQ>>

-----------------------------------------------------------------------------
(* materialize_sync_run.                                                   *)

CanPlan(d) == dataset[d].mapping # NULL /\ EntitySupported(dataset[d].entity)

\* The dataset and its mapping are read before the workspace is locked.
PlanFor(k, d) ==
    [pc |-> "planned", plan |-> [key |-> k, dataset |-> d, mapping |-> dataset[d].mapping]]

RunNow(c, k, d) ==
    /\ At(c, "idle")
    /\ CanPlan(d)
    /\ Goto(c, PlanFor(k, d))
    /\ OnlySession

\* A caller gets an answer; a worker commits the row of its occurrence.
Succeed(s, k) ==
    IF s \in Callers
    THEN /\ Goto(s, [pc |-> "answered", key |-> k, asked |-> NULL])
         /\ UNCHANGED occurrence
    ELSE /\ Goto(s, [pc |-> "decided", occurrence |-> k])
         /\ occurrence' = [occurrence EXCEPT ![k] = "QUEUED"]

\* An error of the call: the transaction is rolled back.
Fail(s) == Goto(s, Idle) /\ UNCHANGED occurrence

\* Slip: a workspace without an app may sync.
ReadyWithoutApp == connection = "READY"

Ready == app # NULL /\ connection = "READY"

Lock(s) == At(s, "planned") /\ ~WorkspaceLocked

\* Slip: the message is deleted although its handler failed.
RefuseAcknowledged(s) ==
    /\ Lock(s)
    /\ ~Ready
    /\ Fail(s)
    /\ occurrenceQ' = occurrenceQ \ {session[s].plan.key}
    /\ UNCHANGED <<app, connection, dataset, mapping, op>>

Refuse(s) ==
    /\ Lock(s)
    /\ ~Ready
    /\ Fail(s)
    /\ UNCHANGED <<app, connection, dataset, mapping, op, occurrenceQ>>

\* Slip: an operation without a run is returned too.
ReplayableAny(k) == op[k].kind # "none"

Replayable(k) == op[k].kind = "sync"

\* The key is known: its run is the answer, or the call fails.
Replay(s) ==
    /\ Lock(s)
    /\ Ready
    /\ LET k == session[s].plan.key IN
        /\ op[k].kind # "none"
        /\ IF Replayable(k) THEN Succeed(s, k) ELSE Fail(s)
    /\ UNCHANGED <<app, connection, dataset, mapping, op, occurrenceQ>>

\* Slip: the ORM session commits the occurrence as queued.
SkipAsQueued(s, o) ==
    /\ Goto(s, [pc |-> "decided", occurrence |-> o])
    /\ occurrence' = [occurrence EXCEPT ![o] = "QUEUED"]

SkipOccurrence(s, o) ==
    /\ Goto(s, [pc |-> "decided", occurrence |-> o])
    /\ occurrence' = [occurrence EXCEPT ![o] = "SKIPPED_ACTIVE_RUN"]

\* ActiveSyncRunError fails a caller's request; a worker records the skip.
Overlap(s) ==
    /\ Lock(s)
    /\ Ready
    /\ LET plan == session[s].plan IN
        /\ op[plan.key].kind = "none"
        /\ ActiveRun(plan.dataset)
        /\ IF s \in Callers THEN Fail(s) ELSE SkipOccurrence(s, plan.key)
    /\ UNCHANGED <<app, connection, dataset, mapping, op, occurrenceQ>>

Admit(s) ==
    /\ Lock(s)
    /\ Ready
    /\ LET plan == session[s].plan IN
        /\ op[plan.key].kind = "none"
        /\ ~ActiveRun(plan.dataset)
        /\ Goto(s, [pc |-> "admitted", plan |-> plan, app |-> app])
    /\ OnlySession

NewRun(s) ==
    LET plan == session[s].plan IN
    [kind |-> "sync", dataset |-> plan.dataset, mapping |-> plan.mapping,
     app |-> session[s].app, active |-> TRUE]

\* The unique key and the partial unique index have the last word.
InsertRun(s) ==
    /\ At(s, "admitted")
    /\ LET k == session[s].plan.key IN
        IF op[k].kind = "none" /\ ~ActiveRun(session[s].plan.dataset)
        THEN op' = [op EXCEPT ![k] = NewRun(s)] /\ Succeed(s, k)
        ELSE UNCHANGED op /\ Fail(s)
    /\ UNCHANGED <<app, connection, dataset, mapping, occurrenceQ>>

\* The worker's progress and process_result_message: the run ends.
EndRun(k) ==
    /\ op[k].kind = "sync"
    /\ op[k].active
    /\ op' = [op EXCEPT ![k].active = FALSE]
    /\ UNCHANGED <<app, connection, dataset, mapping, occurrence, occurrenceQ, session>>

Respond(c) == At(c, "answered") /\ Goto(c, Idle) /\ OnlySession

-----------------------------------------------------------------------------
(* The occurrence worker.                                                  *)

\* EventBridge puts a message for every execution, and may repeat it.
FireOccurrence(o) ==
    /\ occurrenceQ' = occurrenceQ \cup {o}
    /\ UNCHANGED <<app, connection, dataset, mapping, op, occurrence, session>>

InFlight(o) ==
    \E h \in Handlers : session[h].pc \in {"planned", "admitted"} /\ session[h].plan.key = o

\* Slip: the message is worked on whatever is known of its occurrence.
UndecidedAlways(o) == TRUE

Undecided(o) == occurrence[o] = "NONE" /\ ~InFlight(o)

\* The row of the occurrence is inserted first: an insert of the same key by
\* another handler waits until this transaction ends.
ReceiveOccurrence(h, o) ==
    /\ At(h, "idle")
    /\ o \in occurrenceQ
    /\ Undecided(o)
    /\ CanPlan(DatasetOf[o])
    /\ Goto(h, PlanFor(o, DatasetOf[o]))
    /\ OnlySession

KnownOccurrence(h, o) ==
    /\ At(h, "idle")
    /\ o \in occurrenceQ
    /\ occurrence[o] # "NONE"
    /\ Goto(h, [pc |-> "decided", occurrence |-> o])
    /\ OnlySession

DeleteOccurrenceMessage(h) ==
    /\ At(h, "decided")
    /\ occurrenceQ' = occurrenceQ \ {session[h].occurrence}
    /\ Goto(h, Idle)
    /\ UNCHANGED <<app, connection, dataset, mapping, op, occurrence>>

-----------------------------------------------------------------------------
\* A crash, a lost connection or a failed validation: rollback, and the
\* message of a worker stays in the queue.
Abort(s) == ~At(s, "idle") /\ Goto(s, Idle) /\ OnlySession

MaterializeSyncRun(s) ==
    Refuse(s) \/ Replay(s) \/ Overlap(s) \/ Admit(s) \/ InsertRun(s)

Caller(c) ==
    \/ \E d \in Datasets : EditDataset(c, d) \/ CreateMapping(c, d)
    \/ EditCommit(c)
    \/ \E m \in Mappings : StoreMapping(c, m) \/ PublishMapping(c, m)
    \/ ActivateMapping(c)
    \/ \E k \in Keys, r \in Requests : QueueOperation(c, k, r) \/ QueueReplay(c, k, r)
    \/ QueueCommit(c)
    \/ \E k \in Keys, d \in Datasets : RunNow(c, k, d)
    \/ Respond(c)

OccurrenceWorker(h) ==
    \/ \E o \in Occurrences : ReceiveOccurrence(h, o) \/ KnownOccurrence(h, o)
    \/ DeleteOccurrenceMessage(h)

Next ==
    \/ \E a \in Apps : UpdateWorkspaceApp(a)
    \/ ChangeConnection
    \/ \E c \in Callers : Caller(c)
    \/ \E h \in Handlers : OccurrenceWorker(h)
    \/ \E s \in Sessions : MaterializeSyncRun(s) \/ Abort(s)
    \/ \E k \in AllKeys : EndRun(k)
    \/ \E o \in Occurrences : FireOccurrence(o)

Spec == Init /\ [][Next]_vars

-----------------------------------------------------------------------------
(* Properties.                                                             *)

\* The mapping a dataset syncs with is a published one of its own, built for
\* the dataset's target entity (service.py:494, 660): it survives no change
\* of the entity, whoever changes it.
ActiveMappingFits ==
    \A d \in Datasets :
        dataset[d].mapping # NULL =>
            LET m == mapping[dataset[d].mapping] IN
            m.status = "PUBLISHED" /\ m.dataset = d /\ m.entity = dataset[d].entity

\* A run uses a published mapping of its own dataset, and one of an entity
\* the worker can sync (service.py:796), although dataset and mapping are
\* read before the workspace is locked and may change afterwards.
RunMappingIsSupported ==
    \A k \in AllKeys :
        op[k].kind = "sync" =>
            LET m == mapping[op[k].mapping] IN
            m.status = "PUBLISHED" /\ m.dataset = op[k].dataset /\ EntitySupported(m.entity)

\* The lock of the workspace row is enough: a call that has passed the check
\* for an active run is never refused by the partial unique index, so an
\* overlap is always a clean conflict or a skipped occurrence
\* (service.py:825-832, uq_sync_run_active_dataset).
OverlapIsFoundEarly ==
    \A s \in Sessions : At(s, "admitted") => ~ActiveRun(session[s].plan.dataset)

\* The row of an occurrence and the run of its key tell the same story, across
\* rollbacks, redeliveries and replicas: QUEUED if and only if there is a run,
\* of the dataset of the schedule (workers/connectors.py:307-336).
OccurrenceMatchesRun ==
    \A o \in Occurrences :
        IF occurrence[o] = "QUEUED"
        THEN op[o].kind = "sync" /\ op[o].dataset = DatasetOf[o]
        ELSE op[o].kind = "none"

\* What a caller is told about its idempotency key is what it asked for: a
\* run, or the very operation (service.py:437-446, 817-823).
AnswerIsWhatWasAsked ==
    \A c \in Callers :
        At(c, "answered") =>
            LET row == op[session[c].key] IN
            IF session[c].asked = NULL
            THEN row.kind = "sync"
            ELSE row = [kind |-> "fast", request |-> session[c].asked]

\* The batches of all runs of the workspace carry the app it has now
\* (service.py:958-973, update_workspace_app).
RunsShareTheApp ==
    \A k \in AllKeys : op[k].kind = "sync" => op[k].app = app

\* An occurrence is decided once: a redelivered message does not start the
\* run of a skipped occurrence later (workers/connectors.py:307-314).
OccurrenceDecisionIsFinal ==
    [][\A o \in Occurrences : occurrence[o] # "NONE" => occurrence'[o] = occurrence[o]]_vars

-----------------------------------------------------------------------------
(* Liveness of the occurrence worker.                                      *)

CanSync(d) == Ready /\ CanPlan(d)

\* The worker's loop goes on after every error, SQS delivers a message again
\* until it is deleted, PostgreSQL grants the row lock in turn, and whoever
\* holds it commits or rolls back.
Fairness ==
    /\ \A h \in Handlers :
        /\ SF_vars(Refuse(h) \/ Replay(h) \/ Overlap(h) \/ Admit(h))
        /\ WF_vars(InsertRun(h))
        /\ WF_vars(DeleteOccurrenceMessage(h))
    /\ \A o \in Occurrences : SF_vars(\E h \in Handlers : ReceiveOccurrence(h, o))
    /\ \A c \in Callers : WF_vars(At(c, "admitted") /\ (InsertRun(c) \/ Abort(c)))

\* Handlers do not crash for ever: from some time on, one that waits for the
\* lock of a workspace it can sync is not aborted.
CrashesEnd ==
    <>[][\A h \in Handlers :
            session[h].pc \in {"planned", "admitted"} /\ CanSync(session[h].plan.dataset) =>
                session'[h] # Idle]_vars

LiveSpec == Spec /\ Fairness /\ CrashesEnd

\* Every occurrence that fires is decided in the end, if its dataset can be
\* synced from some time on: by a run, or by a skip because of another one
\* (workers/connectors.py:315-336).
OccurrenceIsDecided ==
    \A o \in Occurrences :
        <>[]CanSync(DatasetOf[o]) => [](o \in occurrenceQ => <>(occurrence[o] # "NONE"))
=============================================================================
