---------------------------- MODULE ScheduleSync ----------------------------
(***************************************************************************)
(* The schedule of one dataset and its copy in EventBridge: the requests   *)
(* that change it (upsert_schedule and control_schedule of                 *)
(* app/modules/connectors/service.py), the outbox events they leave, and   *)
(* the outbox worker that applies the events (process_outbox_once and      *)
(* _sync_aws_schedule of app/workers/connectors.py).                       *)
(*                                                                         *)
(* A request reads the row in its first step and commits in a later one.   *)
(* The worker reads the row, calls EventBridge once or twice and commits,  *)
(* and others may act in between.                                          *)
(***************************************************************************)
EXTENDS Naturals, Sequences

CONSTANTS
    Timings,     \* timing, timezone and dates of a schedule
    Callers,     \* API processes
    Workers,     \* replicas of the outbox worker
    MaxRevision, \* bound on the number of requests
    NULL

ASSUME MaxRevisionAssumption == MaxRevision \in Nat \ {0}
ASSUME NullAssumption == NULL \notin Timings

VARIABLES
    row,     \* the row of connector.schedule
    event,   \* rows of connector.outbox_event, by deduplication key
    log,     \* the keys of these rows in the order of created_at
    aws,     \* the schedule in EventBridge
    session, \* where each caller is
    worker   \* where each worker is

vars == <<row, event, log, aws, session, worker>>

-----------------------------------------------------------------------------
Revisions == 1 .. MaxRevision

\* A row that was never inserted has the status NONE and the revision 0.
Row == [status : {"NONE", "PENDING_SYNC", "ACTIVE", "PAUSED"},
        timing : Timings \cup {NULL},
        revision : 0 .. MaxRevision]

Schedule == [enabled : BOOLEAN, timing : Timings \cup {NULL}]
Absent == [enabled |-> FALSE, timing |-> NULL]

\* deduplication_key: event type and revision of the one schedule.
Key == [type : {"upsert", "pause", "resume"}, revision : Revisions]

\* attempt 2 stands for every number above 1; enable is the state asked for.
Event == [status : {"NONE", "PENDING", "PROCESSING", "FAILED", "PROCESSED"},
          attempt : 0 .. 2, enable : BOOLEAN]
NoEvent == [status |-> "NONE", attempt |-> 0, enable |-> FALSE]

\* Slip: the event of a worker that stopped is not taken over.
NoTakeOver == {"PENDING", "FAILED"}

Claimable == {"PENDING", "PROCESSING", "FAILED"}

SessionState ==
    [pc : {"idle"}] \cup [pc : {"commit"}, key : Key, enable : BOOLEAN, seen : Row, new : Row]
WorkerState ==
    [pc : {"idle"}]
      \cup [pc : {"claimed"}, key : Key]
      \cup [pc : {"call", "commit"}, key : Key, seen : Row]
      \cup [pc : {"update"}, key : Key, seen : Row, current : Schedule]
Idle == [pc |-> "idle"]

TypeOK ==
    /\ row \in Row
    /\ event \in [Key -> Event]
    /\ log \in Seq(Key)
    /\ aws \in Schedule
    /\ session \in [Callers -> SessionState]
    /\ worker \in [Workers -> WorkerState]

-----------------------------------------------------------------------------
\* The ORM updates the columns whose new value differs from the value read.
Flush(seen, new) ==
    [f \in DOMAIN row |-> IF new[f] # seen[f] THEN new[f] ELSE row[f]]

Init ==
    /\ row = [status |-> "NONE", timing |-> NULL, revision |-> 0]
    /\ event = [k \in Key |-> NoEvent]
    /\ log = <<>>
    /\ aws = Absent
    /\ session = [c \in Callers |-> Idle]
    /\ worker = [w \in Workers |-> Idle]

-----------------------------------------------------------------------------
(* Requests.                                                               *)

Request(c, type, enable, timing) ==
    /\ session[c] = Idle
    /\ row.revision < MaxRevision
    /\ session' = [session EXCEPT ![c] =
            [pc |-> "commit", key |-> [type |-> type, revision |-> row.revision + 1],
             enable |-> enable, seen |-> row,
             new |-> [status |-> "PENDING_SYNC", timing |-> timing,
                      revision |-> row.revision + 1]]]
    /\ UNCHANGED <<row, event, log, aws, worker>>

UpsertSchedule(c) ==
    \E timing \in Timings, activate \in BOOLEAN : Request(c, "upsert", activate, timing)

ControlSchedule(c) ==
    /\ row.status # "NONE"
    /\ Request(c, "pause", FALSE, row.timing) \/ Request(c, "resume", TRUE, row.timing)

\* The unique keys: one schedule per dataset, one event per key.
Refused(s) ==
    \/ event[s.key].status # "NONE"
    \/ s.seen.status = "NONE" /\ row.status # "NONE"

\* Row and event are committed together, or the request fails.  created_at is
\* the time of the API process at the insert of the event, which follows the
\* update of the row in the same flush; the row stays locked from there to the
\* commit, so that commits and times are in one order if clocks agree.
RequestCommit(c) ==
    /\ session[c].pc = "commit"
    /\ LET s == session[c] IN
        IF Refused(s) THEN UNCHANGED <<row, event, log>>
        ELSE /\ row' = Flush(s.seen, s.new)
             /\ event' = [event EXCEPT ![s.key] =
                    [status |-> "PENDING", attempt |-> 0, enable |-> s.enable]]
             /\ log' = Append(log, s.key)
    /\ session' = [session EXCEPT ![c] = Idle]
    /\ UNCHANGED <<aws, worker>>

-----------------------------------------------------------------------------
(* process_outbox_once for the events of schedules.                        *)

\* Slip: no ORDER BY.
Unordered(k) == TRUE

\* A PENDING event is available at once, so an older one goes first; one that
\* failed, or was left by a worker, is available after a while.
FirstOf(k) ==
    event[k].status = "PENDING" =>
        \E i \in 1 .. Len(log) :
            log[i] = k /\ \A j \in 1 .. i - 1 : event[log[j]].status # "PENDING"

Claim(w, k) ==
    /\ worker[w] = Idle
    /\ event[k].status \in Claimable
    /\ FirstOf(k)
    /\ event' = [event EXCEPT ![k].status = "PROCESSING",
                              ![k].attempt = IF @ < 2 THEN @ + 1 ELSE 2]
    /\ worker' = [worker EXCEPT ![w] = [pc |-> "claimed", key |-> k]]
    /\ UNCHANGED <<row, log, aws, session>>

ReadRow(w) ==
    /\ worker[w].pc = "claimed"
    /\ worker' = [worker EXCEPT ![w] = [pc |-> "call", key |-> worker[w].key, seen |-> row]]
    /\ UNCHANGED <<row, event, log, aws, session>>

\* Slip: a schedule that exists already is left alone.
CopyNew(seen, enable) ==
    IF aws = Absent THEN [enabled |-> enable, timing |-> seen.timing] ELSE aws

\* create_schedule, or update_schedule after a ConflictException: the timing
\* is the row's, the state is the event's.
Copy(seen, enable) == [enabled |-> enable, timing |-> seen.timing]

SyncUpsert(w) ==
    /\ worker[w].pc = "call"
    /\ worker[w].key.type = "upsert"
    /\ aws' = Copy(worker[w].seen, event[worker[w].key].enable)
    /\ worker' = [worker EXCEPT ![w].pc = "commit"]
    /\ UNCHANGED <<row, event, log, session>>

\* get_schedule, which fails while there is none ...
SyncGet(w) ==
    /\ worker[w].pc = "call"
    /\ worker[w].key.type # "upsert"
    /\ aws # Absent
    /\ worker' = [worker EXCEPT ![w] =
            [pc |-> "update", key |-> @.key, seen |-> @.seen, current |-> aws]]
    /\ UNCHANGED <<row, event, log, aws, session>>

\* ... and update_schedule with what it returned and the new state.
SyncUpdate(w) ==
    /\ worker[w].pc = "update"
    /\ aws' = [worker[w].current EXCEPT !.enabled = event[worker[w].key].enable]
    /\ worker' = [worker EXCEPT ![w] =
            [pc |-> "commit", key |-> @.key, seen |-> @.seen]]
    /\ UNCHANGED <<row, event, log, session>>

SettledStatus(enable) == IF enable THEN "ACTIVE" ELSE "PAUSED"

SyncCommit(w) ==
    /\ worker[w].pc = "commit"
    /\ LET k == worker[w].key
           seen == worker[w].seen
       IN /\ row' = Flush(seen, [seen EXCEPT !.status = SettledStatus(event[k].enable)])
          /\ event' = [event EXCEPT ![k].status = "PROCESSED"]
    /\ worker' = [worker EXCEPT ![w] = Idle]
    /\ UNCHANGED <<log, aws, session>>

\* Slip: a failed call counts as processed.
AfterFailureProcessed == "PROCESSED"

AfterFailure == "FAILED"

\* A call of EventBridge raised; the row stays as it is.
SyncFails(w) ==
    /\ worker[w].pc \in {"call", "update"}
    /\ event' = [event EXCEPT ![worker[w].key].status = AfterFailure]
    /\ worker' = [worker EXCEPT ![w] = Idle]
    /\ UNCHANGED <<row, log, aws, session>>

WorkerRestart(w) ==
    /\ worker[w] # Idle
    /\ worker' = [worker EXCEPT ![w] = Idle]
    /\ UNCHANGED <<row, event, log, aws, session>>

-----------------------------------------------------------------------------
Caller(c) == UpsertSchedule(c) \/ ControlSchedule(c) \/ RequestCommit(c)

Sync(w) == SyncUpsert(w) \/ SyncGet(w) \/ SyncUpdate(w) \/ SyncCommit(w)

Next ==
    \/ \E c \in Callers : Caller(c)
    \/ \E w \in Workers, k \in Key : Claim(w, k)
    \/ \E w \in Workers : ReadRow(w) \/ Sync(w) \/ SyncFails(w) \/ WorkerRestart(w)

Spec == Init /\ [][Next]_vars

-----------------------------------------------------------------------------
(* Properties.                                                             *)

Outstanding(k) == event[k].status \in Claimable

\* A schedule that says PENDING_SYNC has an event that will settle it, although
\* requests and workers write only the columns they changed and may read each
\* other's rows before and write after (service.py:719, 753;
\* workers/connectors.py:189, 247, 281).
PendingIsBacked == row.status = "PENDING_SYNC" => \E k \in Key : Outstanding(k)

Settled ==
    /\ row.status # "NONE"
    /\ \A k \in Key : ~Outstanding(k)
    /\ \A w \in Workers : worker[w] = Idle

\* Once all events are processed, by one worker, the row tells what EventBridge
\* does: the same timing, ACTIVE if and only if it is enabled, whatever failed,
\* crashed or was retried out of order (workers/connectors.py:156-248).
SettledRowIsTrue ==
    Settled => aws = [enabled |-> row.status = "ACTIVE", timing |-> row.timing]

\* The last request decides, unless an earlier one had to be tried again
\* (ORDER BY created_at, workers/connectors.py:262).
LastRequestWins ==
    Settled /\ (\A i \in 1 .. Len(log) - 1 : event[log[i]].attempt = 1) =>
        aws.enabled = event[log[Len(log)]].enable

\* EventBridge refuses a pause or resume of a schedule that is not there.
RefusedCall(w) == worker[w].pc = "call" /\ worker[w].key.type # "upsert" /\ aws = Absent

\* The loop of the worker goes on; an event whose call is refused is tried
\* again later, after others (available_at), so one that creates the schedule
\* is not passed over for ever; from some time on the worker is left running
\* and EventBridge answers.
Fairness ==
    /\ \A w \in Workers :
        /\ WF_vars(\E k \in Key : Claim(w, k))
        /\ SF_vars(\E k \in Key : k.type = "upsert" /\ Claim(w, k))
        /\ WF_vars(ReadRow(w)) /\ WF_vars(Sync(w) \/ SyncFails(w))
    /\ <>[][\A w \in Workers :
                ~WorkerRestart(w) /\ (SyncFails(w) => RefusedCall(w))]_vars

LiveSpec == Spec /\ Fairness

\* Every change that was asked for reaches EventBridge, a pause that overtook
\* the creation of its schedule too.
EveryRequestIsApplied ==
    \A k \in Key : Outstanding(k) ~> event[k].status = "PROCESSED"
=============================================================================
