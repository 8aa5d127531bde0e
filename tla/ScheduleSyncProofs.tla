------------------------ MODULE ScheduleSyncProofs -------------------------
(***************************************************************************)
(* For any number of callers, workers and requests: ScheduleSync keeps its *)
(* types, and a schedule in PENDING_SYNC has an event that will settle it. *)
(* With one worker at a time, the row is true once it is settled, and the  *)
(* last request wins.                                                      *)
(***************************************************************************)
EXTENDS ScheduleSync, SequenceTheorems, TLAPS

-----------------------------------------------------------------------------
\* Worker w has read the row for the event k and not yet committed.
Reads(w, k) == worker[w].pc \in {"call", "update", "commit"} /\ worker[w].key = k

\* What a worker has claimed was inserted before.
ClaimedExists == \A w \in Workers : worker[w] # Idle => event[worker[w].key].status # "NONE"

\* PendingIsBacked alone is not inductive: the last outstanding event could be
\* in the hands of a worker that read the row before it was PENDING_SYNC and
\* therefore does not write its status. There is always one whose workers all
\* read PENDING_SYNC.
PendingIsSeen ==
    row.status = "PENDING_SYNC" =>
        \E k \in Key : /\ Outstanding(k)
                       /\ \A w \in Workers : Reads(w, k) => worker[w].seen.status = "PENDING_SYNC"

IInv == TypeOK /\ ClaimedExists /\ PendingIsSeen

-----------------------------------------------------------------------------
(* What the types say of a process at each place.                          *)

LEMMA WorkerTypes ==
    ASSUME TypeOK, NEW w \in Workers, worker[w] # Idle
    PROVE  /\ worker[w].pc \in {"claimed", "call", "update", "commit"}
           /\ worker[w].key \in Key
           /\ worker[w].pc # "claimed" => worker[w].seen \in Row
           /\ worker[w].pc = "update" => worker[w].current \in Schedule
BY DEF TypeOK, WorkerState, Idle

LEMMA SessionTypes ==
    ASSUME TypeOK, NEW c \in Callers, session[c].pc = "commit"
    PROVE  /\ session[c].key \in Key /\ session[c].enable \in BOOLEAN
           /\ session[c].seen \in Row /\ session[c].new \in Row
BY DEF TypeOK, SessionState

LEMMA EventTypes ==
    ASSUME TypeOK, NEW k \in Key
    PROVE  event[k] \in Event
BY DEF TypeOK

\* The ORM writes the new value of a column or keeps the row's.
LEMMA FlushType ==
    ASSUME row \in Row, NEW seen \in Row, NEW new \in Row
    PROVE  /\ Flush(seen, new) \in Row
           /\ Flush(seen, new).status =
                IF new.status # seen.status THEN new.status ELSE row.status
           /\ Flush(seen, new).timing =
                IF new.timing # seen.timing THEN new.timing ELSE row.timing
<1>1. DOMAIN row = {"status", "timing", "revision"}
  BY DEF Row
<1>2. Flush(seen, new) =
        [status |-> IF new.status # seen.status THEN new.status ELSE row.status,
         timing |-> IF new.timing # seen.timing THEN new.timing ELSE row.timing,
         revision |-> IF new.revision # seen.revision THEN new.revision ELSE row.revision]
  BY <1>1 DEF Flush
<1> QED
  BY <1>2 DEF Row

-----------------------------------------------------------------------------
LEMMA InitHolds == Init => IInv
<1> SUFFICES ASSUME Init PROVE IInv
  OBVIOUS
<1>1. TypeOK
  BY MaxRevisionAssumption
  DEF Init, TypeOK, Row, Event, NoEvent, Schedule, Absent, SessionState, WorkerState, Idle
<1>2. ClaimedExists /\ PendingIsSeen
  BY DEF Init, ClaimedExists, PendingIsSeen
<1> QED
  BY <1>1, <1>2 DEF IInv

-----------------------------------------------------------------------------
(* The types.                                                              *)

LEMMA CallerTypes ==
    ASSUME TypeOK, NEW c \in Callers, Caller(c)
    PROVE  TypeOK'
<1>1. ASSUME NEW type \in {"upsert", "pause", "resume"}, NEW enable \in BOOLEAN,
             NEW timing \in Timings \cup {NULL}, Request(c, type, enable, timing)
      PROVE  TypeOK'
  <2>1. /\ row.revision \in 0 .. MaxRevision
        /\ row.revision + 1 \in Revisions
    BY <1>1, MaxRevisionAssumption DEF Request, TypeOK, Row, Revisions
  <2>2. /\ [type |-> type, revision |-> row.revision + 1] \in Key
        /\ [status |-> "PENDING_SYNC", timing |-> timing, revision |-> row.revision + 1] \in Row
    BY <2>1 DEF Key, Row, Revisions
  <2>3. session' \in [Callers -> SessionState]
    BY <1>1, <2>2 DEF Request, TypeOK, SessionState
  <2> QED
    BY <1>1, <2>3 DEF Request, TypeOK
<1>2. CASE UpsertSchedule(c)
  BY <1>1, <1>2 DEF UpsertSchedule
<1>3. CASE ControlSchedule(c)
  <2>1. row.timing \in Timings \cup {NULL}
    BY DEF TypeOK, Row
  <2> QED
    BY <1>1, <1>3, <2>1 DEF ControlSchedule
<1>4. CASE RequestCommit(c)
  <2> DEFINE s == session[c]
  <2>1. s.key \in Key /\ s.enable \in BOOLEAN /\ s.seen \in Row /\ s.new \in Row
    BY <1>4, SessionTypes DEF RequestCommit
  <2>2. session' \in [Callers -> SessionState]
    BY <1>4 DEF RequestCommit, TypeOK, SessionState, Idle
  <2>3. CASE Refused(s)
    BY <1>4, <2>2, <2>3 DEF RequestCommit, TypeOK
  <2>4. CASE ~Refused(s)
    <3>1. row' \in Row
      BY <1>4, <2>1, <2>4, FlushType DEF RequestCommit, TypeOK
    <3>2. event' \in [Key -> Event]
      <4>1. [status |-> "PENDING", attempt |-> 0, enable |-> s.enable] \in Event
        BY <2>1 DEF Event
      <4> QED
        BY <1>4, <2>1, <2>4, <4>1 DEF RequestCommit, TypeOK
    <3>3. log' \in Seq(Key)
      BY <1>4, <2>1, <2>4, SMTT(30) DEF RequestCommit, TypeOK
    <3> QED
      BY <1>4, <2>2, <3>1, <3>2, <3>3 DEF RequestCommit, TypeOK
  <2> QED
    BY <2>3, <2>4
<1> QED
  BY <1>2, <1>3, <1>4 DEF Caller

LEMMA ClaimTypes ==
    ASSUME TypeOK, NEW w \in Workers, NEW k \in Key, Claim(w, k)
    PROVE  TypeOK'
<1>1. event[k] \in Event
  BY EventTypes
<1> DEFINE tried == IF event[k].attempt < 2 THEN event[k].attempt + 1 ELSE 2
           claimed == [event[k] EXCEPT !.status = "PROCESSING", !.attempt = tried]
<1>2. tried \in 0 .. 2
  BY <1>1 DEF Event
<1>3. claimed \in Event
  <2> HIDE DEF tried
  <2> QED
    BY <1>1, <1>2 DEF Event
<1>4. event' = [event EXCEPT ![k] = claimed]
  BY DEF Claim, TypeOK
<1>5. event' \in [Key -> Event]
  BY <1>3, <1>4 DEF TypeOK
<1>6. worker' \in [Workers -> WorkerState]
  BY DEF Claim, TypeOK, WorkerState
<1> QED
  BY <1>5, <1>6 DEF Claim, TypeOK

LEMMA WorkerStepTypes ==
    ASSUME TypeOK, NEW w \in Workers,
           ReadRow(w) \/ Sync(w) \/ SyncFails(w) \/ WorkerRestart(w)
    PROVE  TypeOK'
<1>1. CASE ReadRow(w)
  <2>1. worker[w].key \in Key
    BY <1>1, WorkerTypes DEF ReadRow, Idle
  <2> QED
    BY <1>1, <2>1 DEF ReadRow, TypeOK, WorkerState
<1>2. CASE SyncUpsert(w)
  <2>1. worker[w].key \in Key /\ worker[w].seen \in Row
    BY <1>2, WorkerTypes DEF SyncUpsert, Idle
  <2>2. event[worker[w].key].enable \in BOOLEAN
    BY <2>1, EventTypes DEF Event
  <2>3. aws' \in Schedule
    BY <1>2, <2>1, <2>2 DEF SyncUpsert, Copy, Schedule, Row
  <2>4. worker[w] \in [pc : {"call", "commit"}, key : Key, seen : Row]
    BY <1>2 DEF SyncUpsert, TypeOK, WorkerState
  <2>5. worker' \in [Workers -> WorkerState]
    BY <1>2, <2>4 DEF SyncUpsert, TypeOK, WorkerState
  <2> QED
    BY <1>2, <2>3, <2>5 DEF SyncUpsert, TypeOK
<1>3. CASE SyncGet(w)
  <2>1. worker[w].key \in Key /\ worker[w].seen \in Row
    BY <1>3, WorkerTypes DEF SyncGet, Idle
  <2> QED
    BY <1>3, <2>1 DEF SyncGet, TypeOK, WorkerState
<1>4. CASE SyncUpdate(w)
  <2>1. worker[w].key \in Key /\ worker[w].seen \in Row /\ worker[w].current \in Schedule
    BY <1>4, WorkerTypes DEF SyncUpdate, Idle
  <2>2. event[worker[w].key].enable \in BOOLEAN
    BY <2>1, EventTypes DEF Event
  <2>3. aws' \in Schedule
    BY <1>4, <2>1, <2>2 DEF SyncUpdate, Schedule
  <2>4. worker' \in [Workers -> WorkerState]
    BY <1>4, <2>1 DEF SyncUpdate, TypeOK, WorkerState
  <2> QED
    BY <1>4, <2>3, <2>4 DEF SyncUpdate, TypeOK
<1>5. CASE SyncCommit(w)
  <2> DEFINE k == worker[w].key
             seen == worker[w].seen
             new == [seen EXCEPT !.status = SettledStatus(event[k].enable)]
  <2>1. k \in Key /\ seen \in Row
    BY <1>5, WorkerTypes DEF SyncCommit, Idle
  <2>2. event[k] \in Event
    BY <2>1, EventTypes
  <2>3. new \in Row
    BY <2>1 DEF Row, SettledStatus
  <2>4. row' \in Row
    BY <1>5, <2>1, <2>3, FlushType DEF SyncCommit, TypeOK
  <2>5. event' \in [Key -> Event]
    BY <1>5, <2>2 DEF SyncCommit, TypeOK, Event
  <2>6. worker' \in [Workers -> WorkerState]
    BY <1>5 DEF SyncCommit, TypeOK, WorkerState, Idle
  <2> QED
    BY <1>5, <2>4, <2>5, <2>6 DEF SyncCommit, TypeOK
<1>6. CASE SyncFails(w)
  <2>1. worker[w].key \in Key
    BY <1>6, WorkerTypes DEF SyncFails, Idle
  <2>2. event[worker[w].key] \in Event
    BY <2>1, EventTypes
  <2>3. event' \in [Key -> Event]
    BY <1>6, <2>2 DEF SyncFails, TypeOK, Event, AfterFailure
  <2>4. worker' \in [Workers -> WorkerState]
    BY <1>6 DEF SyncFails, TypeOK, WorkerState, Idle
  <2> QED
    BY <1>6, <2>3, <2>4 DEF SyncFails, TypeOK
<1>7. CASE WorkerRestart(w)
  BY <1>7 DEF WorkerRestart, TypeOK, WorkerState, Idle
<1> QED
  BY <1>1, <1>2, <1>3, <1>4, <1>5, <1>6, <1>7 DEF Sync

-----------------------------------------------------------------------------
(* The events in the hands of workers.                                     *)

\* A request leaves the workers alone and replaces no event.
LEMMA CallerInv ==
    ASSUME IInv, NEW c \in Callers, Caller(c)
    PROVE  ClaimedExists' /\ PendingIsSeen'
<1>1. CASE UpsertSchedule(c) \/ ControlSchedule(c)
  BY <1>1 DEF UpsertSchedule, ControlSchedule, Request, IInv, ClaimedExists, PendingIsSeen,
              Outstanding, Reads
<1>2. CASE RequestCommit(c)
  <2> DEFINE s == session[c]
  <2>1. s.key \in Key /\ s.seen \in Row /\ s.new \in Row
    BY <1>2, SessionTypes DEF RequestCommit, IInv
  <2>2. CASE Refused(s)
    BY <1>2, <2>2 DEF RequestCommit, IInv, ClaimedExists, PendingIsSeen, Outstanding, Reads
  <2>3. CASE ~Refused(s)
    <3>1. /\ event[s.key].status = "NONE"
          /\ worker' = worker
          /\ event'[s.key].status = "PENDING"
          /\ \A k \in Key : k # s.key => event'[k] = event[k]
      BY <1>2, <2>1, <2>3 DEF RequestCommit, Refused, IInv, TypeOK
    <3>2. \A w \in Workers : worker[w] # Idle =>
              worker[w].key \in Key /\ event[worker[w].key].status # "NONE"
      BY WorkerTypes DEF IInv, ClaimedExists
    <3>3. ClaimedExists'
      BY <3>1, <3>2 DEF ClaimedExists
    <3>4. \A w \in Workers : ~Reads(w, s.key)
      BY <3>1, <3>2 DEF Reads, Idle
    <3>5. PendingIsSeen'
      BY <2>1, <3>1, <3>4 DEF PendingIsSeen, Outstanding, Claimable, Reads
    <3> QED
      BY <3>3, <3>5
  <2> QED
    BY <2>2, <2>3
<1> QED
  BY <1>1, <1>2 DEF Caller

LEMMA ClaimInv ==
    ASSUME IInv, NEW w \in Workers, NEW k \in Key, Claim(w, k)
    PROVE  ClaimedExists' /\ PendingIsSeen'
<1>1. /\ event'[k].status = "PROCESSING"
      /\ \A j \in Key : j # k => event'[j] = event[j]
  BY DEF Claim, IInv, TypeOK, Event
<1>2. /\ worker'[w] = [pc |-> "claimed", key |-> k]
      /\ \A v \in Workers : v # w => worker'[v] = worker[v]
  BY DEF Claim, IInv, TypeOK
<1>3. \A v \in Workers : worker[v] # Idle => worker[v].key \in Key
  BY WorkerTypes DEF IInv
<1>4. ClaimedExists'
  BY <1>1, <1>2, <1>3 DEF IInv, ClaimedExists
<1>5. \A v \in Workers, j \in Key : Reads(v, j)' => Reads(v, j) /\ worker'[v] = worker[v]
  BY <1>2 DEF Reads
<1>6. \A j \in Key : Outstanding(j) => Outstanding(j)'
  BY <1>1 DEF Outstanding, Claimable
<1>7. row' = row
  BY DEF Claim
<1>8. PendingIsSeen'
  BY <1>5, <1>6, <1>7 DEF IInv, PendingIsSeen
<1> QED
  BY <1>4, <1>8

\* A worker that read PENDING_SYNC writes another status when it commits; one
\* that read another status holds another event than the one that is left.
LEMMA WorkerStepInv ==
    ASSUME IInv, NEW w \in Workers,
           ReadRow(w) \/ Sync(w) \/ SyncFails(w) \/ WorkerRestart(w)
    PROVE  ClaimedExists' /\ PendingIsSeen'
<1> DEFINE k == worker[w].key
<1>1. worker[w] # Idle /\ k \in Key
  <2>1. worker[w] # Idle
    BY DEF ReadRow, Sync, SyncUpsert, SyncGet, SyncUpdate, SyncCommit, SyncFails,
           WorkerRestart, Idle
  <2> QED
    BY <2>1, WorkerTypes DEF IInv
<1>2. \A v \in Workers : v # w => worker'[v] = worker[v]
  BY DEF ReadRow, Sync, SyncUpsert, SyncGet, SyncUpdate, SyncCommit, SyncFails,
         WorkerRestart, IInv, TypeOK
<1>3. \A v \in Workers : worker[v] # Idle => worker[v].key \in Key
  BY WorkerTypes DEF IInv
<1>4. CASE ReadRow(w)
  <2>1. /\ worker'[w] = [pc |-> "call", key |-> k, seen |-> row]
        /\ event' = event /\ row' = row
    BY <1>4 DEF ReadRow, IInv, TypeOK
  <2>2. ClaimedExists'
    BY <1>1, <1>2, <2>1 DEF IInv, ClaimedExists
  <2>3. PendingIsSeen'
    BY <1>2, <2>1 DEF IInv, PendingIsSeen, Outstanding, Reads
  <2> QED
    BY <2>2, <2>3
<1>5. CASE SyncUpsert(w) \/ SyncGet(w) \/ SyncUpdate(w)
  <2>1. /\ worker'[w] # Idle /\ worker'[w].key = k /\ worker'[w].seen = worker[w].seen
        /\ worker[w].pc \in {"call", "update", "commit"}
        /\ event' = event /\ row' = row
    <3>1. CASE SyncUpsert(w)
      <4>1. worker[w] \in [pc : {"call", "commit"}, key : Key, seen : Row]
        BY <3>1 DEF SyncUpsert, IInv, TypeOK, WorkerState
      <4> QED
        BY <3>1, <4>1 DEF SyncUpsert, IInv, TypeOK, Idle
    <3>2. CASE SyncGet(w)
      BY <3>2 DEF SyncGet, IInv, TypeOK, Idle
    <3>3. CASE SyncUpdate(w)
      BY <3>3 DEF SyncUpdate, IInv, TypeOK, Idle
    <3> QED
      BY <1>5, <3>1, <3>2, <3>3
  <2>2. ClaimedExists'
    BY <1>1, <1>2, <2>1 DEF IInv, ClaimedExists
  <2>3. \A v \in Workers, j \in Key :
            Reads(v, j)' => Reads(v, j) /\ worker'[v].seen = worker[v].seen
    BY <1>2, <2>1 DEF Reads
  <2>4. PendingIsSeen'
    BY <2>1, <2>3 DEF IInv, PendingIsSeen, Outstanding
  <2> QED
    BY <2>2, <2>4
<1>6. CASE SyncCommit(w)
  <2> DEFINE seen == worker[w].seen
             new == [seen EXCEPT !.status = SettledStatus(event[k].enable)]
  <2>1. /\ worker[w].pc = "commit" /\ worker'[w] = Idle
        /\ event'[k].status = "PROCESSED"
        /\ \A j \in Key : j # k => event'[j] = event[j]
        /\ row' = Flush(seen, new)
    <3>1. event[k] \in Event
      BY <1>1, EventTypes DEF IInv
    <3> QED
      BY <1>1, <1>6, <3>1 DEF SyncCommit, IInv, TypeOK, Event
  <2>2. seen \in Row
    BY <1>1, <2>1, WorkerTypes DEF IInv
  <2>3. new \in Row /\ new.status \in {"ACTIVE", "PAUSED"}
    BY <2>2 DEF Row, SettledStatus
  <2>4. row'.status = IF new.status # seen.status THEN new.status ELSE row.status
    <3> HIDE DEF new, seen
    <3> QED
      BY <2>1, <2>2, <2>3, FlushType DEF IInv, TypeOK
  <2>5. ClaimedExists'
    BY <1>2, <1>3, <2>1 DEF IInv, ClaimedExists
  <2>6. ASSUME row'.status = "PENDING_SYNC"
        PROVE  row.status = "PENDING_SYNC" /\ seen.status # "PENDING_SYNC"
    BY <2>3, <2>4, <2>6
  <2>7. PendingIsSeen'
    <3> SUFFICES ASSUME row'.status = "PENDING_SYNC"
                 PROVE  PendingIsSeen'
      BY DEF PendingIsSeen
    <3>1. PICK p \in Key :
              /\ Outstanding(p)
              /\ \A v \in Workers : Reads(v, p) => worker[v].seen.status = "PENDING_SYNC"
      BY <2>6 DEF IInv, PendingIsSeen
    <3>2. p # k
      BY <2>1, <2>6, <3>1 DEF Reads
    <3>3. Outstanding(p)'
      BY <2>1, <3>1, <3>2 DEF Outstanding
    <3>4. \A v \in Workers : Reads(v, p)' => worker'[v].seen.status = "PENDING_SYNC"
      BY <1>2, <2>1, <3>1 DEF Reads, Idle
    <3> QED
      BY <3>3, <3>4 DEF PendingIsSeen
  <2> QED
    BY <2>5, <2>7
<1>7. CASE SyncFails(w)
  <2>1. /\ worker'[w] = Idle /\ row' = row
        /\ event'[k].status = "FAILED"
        /\ \A j \in Key : j # k => event'[j] = event[j]
    <3>1. event[k] \in Event
      BY <1>1, EventTypes DEF IInv
    <3> QED
      BY <1>1, <1>7, <3>1 DEF SyncFails, AfterFailure, IInv, TypeOK, Event
  <2>2. ClaimedExists'
    BY <1>2, <1>3, <2>1 DEF IInv, ClaimedExists
  <2>3. \A j \in Key : Outstanding(j) => Outstanding(j)'
    BY <2>1 DEF Outstanding, Claimable
  <2>4. PendingIsSeen'
    BY <1>2, <2>1, <2>3 DEF IInv, PendingIsSeen, Reads, Idle
  <2> QED
    BY <2>2, <2>4
<1>8. CASE WorkerRestart(w)
  <2>1. worker'[w] = Idle /\ row' = row /\ event' = event
    BY <1>8 DEF WorkerRestart, IInv, TypeOK
  <2>2. ClaimedExists'
    BY <1>2, <2>1 DEF IInv, ClaimedExists
  <2>3. PendingIsSeen'
    BY <1>2, <2>1 DEF IInv, PendingIsSeen, Outstanding, Reads, Idle
  <2> QED
    BY <2>2, <2>3
<1> QED
  BY <1>4, <1>5, <1>6, <1>7, <1>8 DEF Sync

-----------------------------------------------------------------------------
LEMMA StepHolds == IInv /\ [Next]_vars => IInv'
<1> SUFFICES ASSUME IInv, [Next]_vars PROVE IInv'
  OBVIOUS
<1>1. ASSUME NEW c \in Callers, Caller(c) PROVE IInv'
  BY <1>1, CallerTypes, CallerInv DEF IInv
<1>2. ASSUME NEW w \in Workers, NEW k \in Key, Claim(w, k) PROVE IInv'
  BY <1>2, ClaimTypes, ClaimInv DEF IInv
<1>3. ASSUME NEW w \in Workers, ReadRow(w) \/ Sync(w) \/ SyncFails(w) \/ WorkerRestart(w)
      PROVE  IInv'
  BY <1>3, WorkerStepTypes, WorkerStepInv DEF IInv
<1>4. CASE UNCHANGED vars
  BY <1>4 DEF vars, IInv, TypeOK, ClaimedExists, PendingIsSeen, Outstanding, Reads
<1> QED
  BY <1>1, <1>2, <1>3, <1>4 DEF Next

LEMMA InvariantHolds == Spec => []IInv
<1> QED
  BY InitHolds, StepHolds, PTL DEF Spec

\* Rows, events, EventBridge and the processes stay what the schema and the code
\* say they are.
THEOREM TypeCorrect == Spec => []TypeOK
<1>1. IInv => TypeOK
  BY DEF IInv
<1> QED
  BY <1>1, InvariantHolds, PTL

\* A schedule in PENDING_SYNC always has an event that will settle it, for any
\* number of callers, workers and requests, however they interleave and fail
\* (service.py:719, 753; workers/connectors.py:189, 247, 281).
THEOREM PendingCorrect == Spec => []PendingIsBacked
<1>1. IInv => PendingIsBacked
  BY DEF IInv, PendingIsSeen, PendingIsBacked
<1> QED
  BY <1>1, InvariantHolds, PTL

-----------------------------------------------------------------------------
(* One worker at a time.                                                   *)

\* No two workers are between their claim and their commit.  Otherwise both
\* properties are false: they write what they read from EventBridge over each
\* other's work.
OneAtATime == \A v, w \in Workers : worker[v] # Idle /\ worker[w] # Idle => v = w

\* Then the event of a worker is its own: nobody else touches it, or what
\* EventBridge returned, or what was written there.
WorkerInv ==
    \A w \in Workers :
        /\ worker[w] # Idle => event[worker[w].key].status = "PROCESSING"
        /\ worker[w].pc = "update" =>
             worker[w].key.type # "upsert" /\ worker[w].current = aws
        /\ worker[w].pc = "commit" => aws.enabled = event[worker[w].key].enable

\* Whatever changed since the worker read the row came with another event, that
\* is still to be processed.
SeenInv ==
    \A w \in Workers : worker[w].pc \in {"call", "update", "commit"} =>
        /\ worker[w].seen.status # row.status =>
             \E k \in Key \ {worker[w].key} : Outstanding(k)
        /\ worker[w].seen.timing # row.timing =>
             \E k \in Key \ {worker[w].key} : k.type = "upsert" /\ Outstanding(k)

\* A request that only switches on or off writes no timing.
SessionInv ==
    \A c \in Callers : session[c].pc = "commit" /\ session[c].key.type # "upsert" =>
        session[c].new.timing = session[c].seen.timing

\* EventBridge has the timing of the row, or an event will copy it there.
CopyIsDue ==
    aws.timing # row.timing =>
        \E k \in Key : /\ k.type = "upsert" /\ Outstanding(k)
                       /\ \A w \in Workers : ~(worker[w].pc = "commit" /\ worker[w].key = k)

\* The log has every event once, and those never claimed are at its end.
LogInv ==
    /\ \A k \in Key : event[k].status # "NONE" <=> \E i \in 1 .. Len(log) : log[i] = k
    /\ \A i, j \in 1 .. Len(log) :
         /\ log[i] = log[j] => i = j
         /\ i < j /\ event[log[i]].status = "PENDING" => event[log[j]].status = "PENDING"
    /\ \A k \in Key : event[k].status \notin {"NONE", "PENDING"} => event[k].attempt # 0
    /\ row.status # "NONE" => log # <<>>

Last == log[Len(log)]

\* Once the last event was claimed, and no other twice, the worker is at no
\* other event and EventBridge has its state.
LastInv ==
    /\ log # <<>>
    /\ event[Last].status # "PENDING"
    /\ \A i \in 1 .. Len(log) - 1 : event[log[i]].attempt = 1
    => /\ \A w \in Workers : worker[w] # Idle => worker[w].key = Last
       /\ event[Last].status = "PROCESSED" => aws.enabled = event[Last].enable

OneInv ==
    /\ WorkerInv /\ SeenInv /\ SessionInv
    /\ CopyIsDue /\ SettledRowIsTrue
    /\ LogInv /\ LastInv

LEMMA OneInit == Init => OneInv
<1> SUFFICES ASSUME Init PROVE OneInv
  OBVIOUS
<1>1. /\ row.status = "NONE" /\ row.timing = NULL /\ log = <<>> /\ aws.timing = NULL
      /\ \A k \in Key : event[k].status = "NONE"
      /\ \A w \in Workers : worker[w] = Idle
      /\ \A c \in Callers : session[c] = Idle
  BY DEF Init, NoEvent, Absent
<1>2. Len(log) = 0
  BY <1>1, EmptySeq
<1> QED
  BY <1>1, <1>2
  DEF OneInv, WorkerInv, SeenInv, SessionInv, CopyIsDue, SettledRowIsTrue, Settled, LogInv, LastInv, Idle

LEMMA OneRequest ==
    ASSUME TypeOK, OneInv, NEW c \in Callers, UpsertSchedule(c) \/ ControlSchedule(c)
    PROVE  OneInv'
<1>1. UNCHANGED <<row, event, log, aws, worker>>
  BY DEF UpsertSchedule, ControlSchedule, Request
<1>2. /\ \A d \in Callers \ {c} : session'[d] = session[d]
      /\ session'[c].key.type # "upsert" => session'[c].new.timing = session'[c].seen.timing
  BY DEF UpsertSchedule, ControlSchedule, Request, TypeOK
<1>3. SessionInv'
  BY <1>2 DEF OneInv, SessionInv
<1>4. WorkerInv' /\ SeenInv' /\ CopyIsDue'
  BY <1>1 DEF OneInv, WorkerInv, SeenInv, CopyIsDue, Outstanding
<1>5. SettledRowIsTrue' /\ LogInv' /\ LastInv'
  BY <1>1 DEF OneInv, SettledRowIsTrue, Settled, Outstanding, LogInv, LastInv, Last
<1> QED
  BY <1>3, <1>4, <1>5 DEF OneInv

\* The event is new: no worker has it, and it is the last of the log.
LEMMA OneRequestCommit ==
    ASSUME TypeOK, OneInv, NEW c \in Callers, RequestCommit(c)
    PROVE  OneInv'
<1> DEFINE s == session[c]
<1>1. s.key \in Key /\ s.seen \in Row /\ s.new \in Row /\ session[c].pc = "commit"
  BY SessionTypes DEF RequestCommit
<1>2. /\ \A d \in Callers \ {c} : session'[d] = session[d]
      /\ session'[c] = Idle /\ aws' = aws /\ worker' = worker
  BY DEF RequestCommit, TypeOK
<1>3. SessionInv'
  BY <1>2 DEF OneInv, SessionInv, Idle
<1>4. CASE Refused(s)
  <2>1. row' = row /\ event' = event /\ log' = log
    BY <1>4 DEF RequestCommit
  <2>2. WorkerInv' /\ SeenInv' /\ CopyIsDue'
    BY <1>2, <2>1 DEF OneInv, WorkerInv, SeenInv, CopyIsDue, Outstanding
  <2>3. SettledRowIsTrue' /\ LogInv' /\ LastInv'
    BY <1>2, <2>1 DEF OneInv, SettledRowIsTrue, Settled, Outstanding, LogInv, LastInv, Last
  <2> QED
    BY <1>3, <2>2, <2>3 DEF OneInv
<1>5. CASE ~Refused(s)
  <2>1. /\ event[s.key].status = "NONE"
        /\ event'[s.key].status = "PENDING"
        /\ \A k \in Key \ {s.key} : event'[k] = event[k]
        /\ log' = Append(log, s.key)
        /\ row' = Flush(s.seen, s.new)
    BY <1>1, <1>5 DEF RequestCommit, Refused, TypeOK
  <2>2. s.key.type # "upsert" => row'.timing = row.timing
    BY <1>1, <2>1, FlushType DEF OneInv, SessionInv, TypeOK
  <2>3. \A k \in Key : Outstanding(k) => Outstanding(k)'
    BY <2>1 DEF Outstanding, Claimable
  <2>4. \A k \in Key : k = s.key => Outstanding(k)'
    BY <2>1 DEF Outstanding, Claimable
  <2>5. \A w \in Workers : worker[w] # Idle => worker[w].key \in Key \ {s.key}
    BY <2>1, WorkerTypes DEF OneInv, WorkerInv
  <2>6. WorkerInv'
    BY <1>2, <2>1, <2>5 DEF OneInv, WorkerInv, Idle
  <2>7. SeenInv'
    BY <1>1, <1>2, <2>2, <2>3, <2>4, <2>5 DEF OneInv, SeenInv, Idle
  <2>8. CopyIsDue'
    BY <1>1, <1>2, <2>2, <2>3, <2>4, <2>5 DEF OneInv, CopyIsDue, Idle
  <2>9. SettledRowIsTrue'
    BY <1>1, <2>4 DEF SettledRowIsTrue, Settled
  <2>10. /\ log \in Seq(Key) /\ Len(log) \in Nat
         /\ Len(log') = Len(log) + 1 /\ log' # <<>>
         /\ \A i \in 1 .. Len(log) : log'[i] = log[i] /\ log[i] \in Key
         /\ log'[Len(log) + 1] = s.key
    BY <1>1, <2>1, AppendProperties DEF TypeOK
  <2>11. \A i \in 1 .. Len(log) : log[i] # s.key
    BY <1>1, <2>1 DEF OneInv, LogInv
  <2>12. LogInv'
    <3>1. ASSUME NEW k \in Key
          PROVE  event'[k].status # "NONE" <=> \E i \in 1 .. Len(log') : log'[i] = k
      <4>1. CASE k = s.key
        BY <2>1, <2>10, <4>1
      <4>2. CASE k # s.key
        <5>1. (\E i \in 1 .. Len(log') : log'[i] = k) <=> (\E i \in 1 .. Len(log) : log[i] = k)
          BY <2>10, <4>2
        <5> QED
          BY <2>1, <4>2, <5>1 DEF OneInv, LogInv
      <4> QED
        BY <4>1, <4>2
    <3>2. ASSUME NEW i \in 1 .. Len(log'), NEW j \in 1 .. Len(log')
          PROVE  /\ log'[i] = log'[j] => i = j
                 /\ i < j /\ event'[log'[i]].status = "PENDING" => event'[log'[j]].status = "PENDING"
      <4>1. CASE j = Len(log) + 1
        BY <2>1, <2>10, <2>11, <4>1
      <4>2. CASE i = Len(log) + 1 /\ j # Len(log) + 1
        BY <2>10, <2>11, <4>2
      <4>3. CASE i \in 1 .. Len(log) /\ j \in 1 .. Len(log)
        BY <2>1, <2>10, <2>11, <4>3 DEF OneInv, LogInv
      <4> QED
        BY <2>10, <4>1, <4>2, <4>3
    <3>3. \A k \in Key : event'[k].status \notin {"NONE", "PENDING"} => event'[k].attempt # 0
      BY <2>1 DEF OneInv, LogInv
    <3> QED
      BY <2>10, <3>1, <3>2, <3>3 DEF LogInv
  <2>13. LastInv'
    BY <2>1, <2>10 DEF LastInv, Last
  <2> QED
    BY <1>3, <2>6, <2>7, <2>8, <2>9, <2>12, <2>13 DEF OneInv
<1> QED
  BY <1>4, <1>5

\* An event that was claimed before gets a second attempt; one that was not is
\* the first such of the log.
LEMMA OneClaim ==
    ASSUME OneAtATime, OneAtATime', TypeOK, OneInv, NEW w \in Workers, NEW k \in Key, Claim(w, k)
    PROVE  OneInv'
<1>1. /\ event'[k].status = "PROCESSING" /\ event'[k].enable = event[k].enable
      /\ event'[k].attempt = IF event[k].attempt < 2 THEN event[k].attempt + 1 ELSE 2
      /\ event[k].attempt \in 0 .. 2
      /\ event[k].status \in Claimable
      /\ \A j \in Key \ {k} : event'[j] = event[j]
  <2>1. event[k] \in Event
    BY EventTypes
  <2> QED
    BY <2>1 DEF Claim, TypeOK, Event
<1>2. /\ worker[w] = Idle /\ worker'[w] = [pc |-> "claimed", key |-> k]
      /\ \A v \in Workers \ {w} : worker[v] = Idle /\ worker'[v] = Idle
      /\ row' = row /\ log' = log /\ aws' = aws /\ session' = session
  BY DEF Claim, TypeOK, OneAtATime, Idle
<1>3. \A j \in Key : Outstanding(j) => Outstanding(j)'
  BY <1>1 DEF Outstanding, Claimable
<1>4. WorkerInv' /\ SeenInv'
  BY <1>1, <1>2 DEF WorkerInv, SeenInv, Idle
<1>5. SessionInv' /\ CopyIsDue'
  BY <1>2, <1>3 DEF OneInv, SessionInv, CopyIsDue
<1>6. SettledRowIsTrue'
  BY <1>2 DEF SettledRowIsTrue, Settled, Idle
<1>7. PICK p \in 1 .. Len(log) : log[p] = k
  BY <1>1 DEF OneInv, LogInv, Claimable
<1>8. event[k].status = "PENDING" => \A i \in 1 .. p - 1 : event[log[i]].status # "PENDING"
  <2> SUFFICES ASSUME event[k].status = "PENDING", NEW i \in 1 .. p - 1
               PROVE  event[log[i]].status # "PENDING"
    OBVIOUS
  <2>1. PICK q \in 1 .. Len(log) :
          log[q] = k /\ \A j \in 1 .. q - 1 : event[log[j]].status # "PENDING"
    BY DEF Claim, FirstOf
  <2>2. q = p
    BY <1>7, <2>1 DEF OneInv, LogInv
  <2> QED
    BY <2>1, <2>2
<1>9. \A i \in 1 .. Len(log) : log[i] \in Key /\ (log[i] = k <=> i = p)
  BY <1>7, ElementOfSeq DEF OneInv, LogInv, TypeOK
<1>10. LogInv'
  <2>1. ASSUME NEW i \in 1 .. Len(log), NEW j \in 1 .. Len(log), i < j, event'[log[i]].status = "PENDING"
        PROVE  event'[log[j]].status = "PENDING"
    <3>1. i # p /\ event[log[i]].status = "PENDING"
      BY <1>1, <1>9, <2>1
    <3>2. event[log[j]].status = "PENDING"
      BY <2>1, <3>1 DEF OneInv, LogInv
    <3>3. j # p
      BY <1>8, <2>1, <3>1, <3>2, <1>7
    <3> QED
      BY <1>1, <1>9, <3>2, <3>3
  <2>2. \A j \in Key : event'[j].status # "NONE" <=> event[j].status # "NONE"
    BY <1>1 DEF Claimable
  <2>3. \A j \in Key : event'[j].status \notin {"NONE", "PENDING"} => event'[j].attempt # 0
    BY <1>1 DEF OneInv, LogInv
  <2> QED
    BY <1>2, <2>1, <2>2, <2>3 DEF OneInv, LogInv
<1>11. LastInv'
  <2> SUFFICES ASSUME log # <<>>, event'[Last].status # "PENDING",
                      \A i \in 1 .. Len(log) - 1 : event'[log[i]].attempt = 1
               PROVE  k = Last
    BY <1>1, <1>2 DEF LastInv, Last
  <2>1. Len(log) \in Nat \ {0}
    BY EmptySeq DEF TypeOK
  <2>2. CASE p = Len(log)
    BY <1>7, <2>2 DEF Last
  <2>3. CASE p # Len(log)
    <3>1. p \in 1 .. Len(log) - 1 /\ p < Len(log)
      BY <2>1, <2>3
    <3>2. event'[k].attempt = 1
      BY <1>7, <3>1
    <3>3. event[k].attempt = 0
      BY <1>1, <3>2
    <3>4. event[k].status = "PENDING"
      BY <1>1, <3>3 DEF OneInv, LogInv, Claimable
    <3>5. event[Last].status = "PENDING"
      BY <1>7, <2>1, <3>1, <3>4 DEF OneInv, LogInv, Last
    <3>6. Last \in Key \ {k}
      BY <1>9, <2>1, <2>3 DEF Last
    <3> QED
      BY <1>1, <3>5, <3>6
  <2> QED
    BY <2>2, <2>3
<1> QED
  BY <1>4, <1>5, <1>6, <1>10, <1>11 DEF OneInv

\* What the worker sees is the row itself.
LEMMA OneRead ==
    ASSUME OneAtATime, TypeOK, OneInv, NEW w \in Workers, ReadRow(w)
    PROVE  OneInv'
<1> DEFINE k == worker[w].key
<1>1. /\ worker[w] # Idle /\ worker'[w] = [pc |-> "call", key |-> k, seen |-> row]
      /\ \A v \in Workers \ {w} : worker[v] = Idle /\ worker'[v] = Idle
      /\ UNCHANGED <<row, event, log, aws, session>>
  BY DEF ReadRow, TypeOK, OneAtATime, Idle
<1>2. WorkerInv' /\ SeenInv' /\ SessionInv' /\ CopyIsDue'
  BY <1>1 DEF OneInv, WorkerInv, SeenInv, SessionInv, CopyIsDue, Outstanding
<1>3. SettledRowIsTrue' /\ LogInv' /\ LastInv'
  BY <1>1 DEF OneInv, SettledRowIsTrue, Settled, LogInv, LastInv, Last, Idle
<1> QED
  BY <1>2, <1>3 DEF OneInv

\* A call brings the timing that was read: that of the row, or an older one
\* while the event that changed it is to come.
LEMMA OneCall ==
    ASSUME OneAtATime, TypeOK, OneInv, NEW w \in Workers,
           SyncUpsert(w) \/ SyncGet(w) \/ SyncUpdate(w)
    PROVE  OneInv'
<1> DEFINE k == worker[w].key
           seen == worker[w].seen
<1>1. worker[w] # Idle /\ k \in Key /\ seen \in Row /\ event[k].status = "PROCESSING"
  <2>1. worker[w] # Idle /\ worker[w].pc # "claimed"
    BY DEF SyncUpsert, SyncGet, SyncUpdate, Idle
  <2> QED
    BY <2>1, WorkerTypes DEF OneInv, WorkerInv
<1>2. /\ \A v \in Workers \ {w} : worker[v] = Idle /\ worker'[v] = Idle
      /\ UNCHANGED <<row, event, log, session>>
  BY <1>1 DEF SyncUpsert, SyncGet, SyncUpdate, OneAtATime, TypeOK
<1>3. /\ worker[w].pc \in {"call", "update"}
      /\ worker'[w].pc \in {"update", "commit"} /\ worker'[w].key = k /\ worker'[w].seen = seen
      /\ worker'[w].pc = "update" =>
           k.type # "upsert" /\ worker'[w].current = aws' /\ aws'.timing = aws.timing
      /\ worker'[w].pc = "commit" =>
           /\ aws'.enabled = event[k].enable
           /\ aws'.timing = IF k.type = "upsert" THEN seen.timing ELSE aws.timing
  <2>1. CASE SyncUpsert(w)
    <3>1. worker[w] \in [pc : {"call", "commit"}, key : Key, seen : Row]
      BY <2>1 DEF SyncUpsert, TypeOK, WorkerState
    <3>2. worker'[w] = [worker[w] EXCEPT !.pc = "commit"]
      BY <2>1 DEF SyncUpsert, TypeOK
    <3> QED
      BY <2>1, <3>1, <3>2 DEF SyncUpsert, Copy
  <2>2. CASE SyncGet(w)
    BY <2>2 DEF SyncGet, TypeOK
  <2>3. CASE SyncUpdate(w)
    <3>1. /\ worker[w].pc = "update" /\ worker[w].current = aws /\ k.type # "upsert"
          /\ aws \in Schedule
      BY <2>3 DEF SyncUpdate, OneInv, WorkerInv, TypeOK
    <3>2. worker'[w] = [pc |-> "commit", key |-> k, seen |-> seen]
      BY <2>3 DEF SyncUpdate, TypeOK
    <3>3. aws' = [aws EXCEPT !.enabled = event[k].enable]
      BY <2>3, <3>1 DEF SyncUpdate
    <3> QED
      BY <3>1, <3>2, <3>3 DEF Schedule
  <2> QED
    BY <2>1, <2>2, <2>3
<1>4. WorkerInv'
  BY <1>1, <1>2, <1>3 DEF WorkerInv, Idle
<1>5. SeenInv' /\ SessionInv'
  BY <1>2, <1>3 DEF OneInv, SeenInv, SessionInv, Outstanding
<1>6. CopyIsDue'
  <2> SUFFICES ASSUME aws'.timing # row.timing
               PROVE  \E j \in Key : /\ j.type = "upsert" /\ Outstanding(j)'
                                     /\ ~(worker'[w].pc = "commit" /\ k = j)
    BY <1>2, <1>3 DEF CopyIsDue, Idle
  <2>1. CASE aws'.timing = aws.timing
    <3>1. PICK j \in Key : j.type = "upsert" /\ Outstanding(j)
      BY <2>1 DEF OneInv, CopyIsDue
    <3>2. CASE worker'[w].pc = "commit" /\ k = j
      <4>1. PICK i \in Key \ {k} : i.type = "upsert" /\ Outstanding(i)
        BY <1>3, <3>1, <3>2 DEF OneInv, SeenInv
      <4> QED
        BY <1>2, <4>1 DEF Outstanding
    <3> QED
      BY <1>2, <3>1, <3>2 DEF Outstanding
  <2>2. CASE aws'.timing # aws.timing
    <3>1. aws'.timing = seen.timing
      BY <1>3, <2>2
    <3>2. PICK i \in Key \ {k} : i.type = "upsert" /\ Outstanding(i)
      BY <1>3, <3>1 DEF OneInv, SeenInv
    <3> QED
      BY <1>2, <3>2 DEF Outstanding
  <2> QED
    BY <2>1, <2>2
<1>7. SettledRowIsTrue' /\ LogInv'
  BY <1>2, <1>3 DEF OneInv, SettledRowIsTrue, Settled, LogInv, Idle
<1>8. LastInv'
  <2> SUFFICES ASSUME log # <<>>, event[Last].status # "PENDING",
                      \A i \in 1 .. Len(log) - 1 : event[log[i]].attempt = 1
               PROVE  k = Last /\ event[Last].status # "PROCESSED"
    BY <1>2, <1>3 DEF LastInv, Last
  <2>1. k = Last
    BY <1>1 DEF OneInv, LastInv
  <2> QED
    BY <1>1, <2>1
<1> QED
  BY <1>4, <1>5, <1>6, <1>7, <1>8 DEF OneInv

\* If this was the last event outstanding, nothing changed since the row was
\* read: it gets the state EventBridge has, or has it already.
LEMMA OneCommit ==
    ASSUME OneAtATime, TypeOK, OneInv, NEW w \in Workers, SyncCommit(w)
    PROVE  OneInv'
<1> DEFINE k == worker[w].key
           seen == worker[w].seen
           status == SettledStatus(event[k].enable)
           new == [seen EXCEPT !.status = status]
<1>1. /\ worker[w].pc = "commit" /\ worker[w] # Idle /\ k \in Key /\ seen \in Row
      /\ event[k].status = "PROCESSING" /\ aws.enabled = event[k].enable
  <2>1. worker[w] # Idle /\ worker[w].pc = "commit"
    BY DEF SyncCommit, Idle
  <2> QED
    BY <2>1, WorkerTypes DEF OneInv, WorkerInv
<1>2. event[k] \in Event /\ event[k].enable \in BOOLEAN /\ aws \in Schedule
  BY <1>1, EventTypes DEF Event, TypeOK
<1>3. /\ \A v \in Workers \ {w} : worker[v] = Idle /\ worker'[v] = Idle
      /\ worker'[w] = Idle /\ log' = log /\ aws' = aws /\ session' = session
      /\ event'[k].status = "PROCESSED"
      /\ event'[k].attempt = event[k].attempt /\ event'[k].enable = event[k].enable
      /\ \A j \in Key \ {k} : event'[j] = event[j]
      /\ row' = Flush(seen, new)
  BY <1>1, <1>2 DEF SyncCommit, TypeOK, Event, OneAtATime
<1>4. /\ new \in Row /\ new.status = status /\ new.timing = seen.timing
      /\ status \in {"ACTIVE", "PAUSED"} /\ status = "ACTIVE" <=> event[k].enable = TRUE
  BY <1>1, <1>2 DEF Row, SettledStatus
<1> HIDE DEF new, seen, status
<1>5. /\ row'.status = IF status # seen.status THEN status ELSE row.status
      /\ row'.timing = row.timing
  BY <1>1, <1>3, <1>4, FlushType DEF TypeOK
<1>6. \A j \in Key \ {k} : Outstanding(j)' <=> Outstanding(j)
  BY <1>3 DEF Outstanding
<1>7. WorkerInv' /\ SeenInv' /\ SessionInv'
  BY <1>3 DEF OneInv, WorkerInv, SeenInv, SessionInv, Idle
<1>8. CopyIsDue'
  BY <1>1, <1>3, <1>5, <1>6 DEF OneInv, CopyIsDue, Idle
<1>9. SettledRowIsTrue'
  <2> SUFFICES ASSUME Settled'
               PROVE  aws' = [enabled |-> row'.status = "ACTIVE", timing |-> row'.timing]
    BY DEF SettledRowIsTrue
  <2>1. \A j \in Key : ~Outstanding(j)'
    BY DEF Settled
  <2>2. seen.status = row.status
    BY <1>1, <1>6, <2>1 DEF OneInv, SeenInv, seen
  <2>3. row'.status = status
    BY <1>5, <2>2
  <2>4. aws.timing = row'.timing
    BY <1>3, <1>8, <2>1 DEF CopyIsDue
  <2>5. aws.enabled = (row'.status = "ACTIVE")
    BY <1>1, <1>2, <1>4, <2>3
  <2>6. aws = [enabled |-> aws.enabled, timing |-> aws.timing]
    BY <1>2 DEF Schedule
  <2> QED
    BY <1>3, <2>4, <2>5, <2>6
<1>10. \A i \in 1 .. Len(log) : log[i] \in Key
  BY ElementOfSeq DEF TypeOK
<1>11. LogInv'
  <2>1. \A j \in Key : /\ event'[j].status \in {"NONE", "PENDING"} <=> event[j].status \in {"NONE", "PENDING"}
                       /\ event'[j].status = "NONE" <=> event[j].status = "NONE"
                       /\ event'[j].status = "PENDING" <=> event[j].status = "PENDING"
                       /\ event'[j].attempt = event[j].attempt
    BY <1>1, <1>3
  <2>2. log # <<>>
    <3>1. \E i \in 1 .. Len(log) : log[i] = k
      BY <1>1 DEF OneInv, LogInv
    <3> QED
      BY <3>1, EmptySeq DEF TypeOK
  <2> QED
    BY <1>3, <1>10, <2>1, <2>2 DEF OneInv, LogInv
<1>12. LastInv'
  <2> SUFFICES ASSUME log # <<>>, event'[Last].status # "PENDING",
                      \A i \in 1 .. Len(log) - 1 : event'[log[i]].attempt = 1
               PROVE  event'[Last].status = "PROCESSED" => aws.enabled = event'[Last].enable
    BY <1>3 DEF LastInv, Last, Idle
  <2>1. Len(log) \in Nat \ {0} /\ Last \in Key
    BY <1>10, EmptySeq DEF TypeOK, Last
  <2>2. event[Last].status # "PENDING" /\ \A i \in 1 .. Len(log) - 1 : event[log[i]].attempt = 1
    BY <1>1, <1>3, <1>10, <2>1
  <2>3. Last = k
    BY <1>1, <2>2 DEF OneInv, LastInv
  <2> QED
    BY <1>1, <1>3, <2>3
<1> QED
  BY <1>7, <1>8, <1>9, <1>11, <1>12 DEF OneInv

\* The event stays to be claimed again.
LEMMA OneGivesUp ==
    ASSUME OneAtATime, TypeOK, OneInv, NEW w \in Workers, SyncFails(w) \/ WorkerRestart(w)
    PROVE  OneInv'
<1> DEFINE k == worker[w].key
<1>1. /\ worker[w] # Idle /\ k \in Key /\ event[k].status = "PROCESSING" /\ event[k] \in Event
  <2>1. worker[w] # Idle
    BY DEF SyncFails, WorkerRestart, Idle
  <2> QED
    BY <2>1, WorkerTypes, EventTypes DEF OneInv, WorkerInv
<1>2. /\ \A v \in Workers \ {w} : worker[v] = Idle /\ worker'[v] = Idle
      /\ worker'[w] = Idle /\ row' = row /\ log' = log /\ aws' = aws /\ session' = session
      /\ event'[k].status \in {"PROCESSING", "FAILED"}
      /\ event'[k].attempt = event[k].attempt /\ event'[k].enable = event[k].enable
      /\ \A j \in Key \ {k} : event'[j] = event[j]
  <2>1. CASE SyncFails(w)
    BY <1>1, <2>1 DEF SyncFails, AfterFailure, TypeOK, Event, OneAtATime
  <2>2. CASE WorkerRestart(w)
    BY <1>1, <2>2 DEF WorkerRestart, TypeOK, OneAtATime
  <2> QED
    BY <2>1, <2>2
<1>3. /\ \A j \in Key : Outstanding(j) => Outstanding(j)'
      /\ \A j \in Key : j = k => Outstanding(j)'
  BY <1>1, <1>2 DEF Outstanding, Claimable
<1>4. WorkerInv' /\ SeenInv' /\ SessionInv'
  BY <1>2 DEF OneInv, WorkerInv, SeenInv, SessionInv, Idle
<1>5. CopyIsDue' /\ SettledRowIsTrue'
  BY <1>1, <1>2, <1>3 DEF OneInv, CopyIsDue, SettledRowIsTrue, Settled, Idle
<1>6. \A i \in 1 .. Len(log) : log[i] \in Key
  BY ElementOfSeq DEF TypeOK
<1>7. \A j \in Key : /\ event'[j].status = "NONE" <=> event[j].status = "NONE"
                     /\ event'[j].status = "PENDING" <=> event[j].status = "PENDING"
                     /\ event'[j].status = "PROCESSED" <=> event[j].status = "PROCESSED"
                     /\ event'[j].attempt = event[j].attempt /\ event'[j].enable = event[j].enable
  BY <1>1, <1>2
<1>8. LogInv'
  BY <1>2, <1>6, <1>7 DEF OneInv, LogInv
<1>9. LastInv'
  <2>1. log # <<>> => Last \in Key /\ Len(log) \in Nat \ {0}
    BY <1>6, EmptySeq DEF TypeOK, Last
  <2>2. log # <<>> => \A i \in 1 .. Len(log) - 1 : event'[log[i]].attempt = event[log[i]].attempt
    BY <1>6, <1>7, <2>1
  <2> QED
    BY <1>2, <1>7, <2>1, <2>2 DEF OneInv, LastInv, Last, Idle
<1> QED
  BY <1>4, <1>5, <1>8, <1>9 DEF OneInv

LEMMA OneStep == OneAtATime /\ OneAtATime' /\ TypeOK /\ OneInv /\ [Next]_vars => OneInv'
<1> SUFFICES ASSUME OneAtATime, OneAtATime', TypeOK, OneInv, [Next]_vars PROVE OneInv'
  OBVIOUS
<1>1. ASSUME NEW c \in Callers, Caller(c) PROVE OneInv'
  BY <1>1, OneRequest, OneRequestCommit DEF Caller
<1>2. ASSUME NEW w \in Workers, NEW k \in Key, Claim(w, k) PROVE OneInv'
  BY <1>2, OneClaim
<1>3. ASSUME NEW w \in Workers, ReadRow(w) \/ Sync(w) \/ SyncFails(w) \/ WorkerRestart(w)
      PROVE  OneInv'
  BY <1>3, OneRead, OneCall, OneCommit, OneGivesUp DEF Sync
<1>4. CASE UNCHANGED vars
  BY <1>4 DEF vars, OneInv, WorkerInv, SeenInv, SessionInv, CopyIsDue, SettledRowIsTrue, Settled,
              LogInv, LastInv, Last, Outstanding
<1> QED
  BY <1>1, <1>2, <1>3, <1>4 DEF Next

LEMMA OneHolds == Spec /\ []OneAtATime => []OneInv
<1>1. OneAtATime /\ OneAtATime' /\ TypeOK /\ OneInv /\ [Next]_vars => OneInv'
  BY OneStep
<1> QED
  BY <1>1, OneInit, TypeCorrect, PTL DEF Spec

\* A schedule whose events are all processed tells what EventBridge does, for
\* any number of callers and requests, whatever failed, crashed or was tried
\* again out of order, as long as one worker at a time is at its events.
THEOREM SettledCorrect == Spec /\ []OneAtATime => []SettledRowIsTrue
<1>1. OneInv => SettledRowIsTrue
  BY DEF OneInv
<1> QED
  BY <1>1, OneHolds, PTL

\* One worker at a time, the last of any number of requests decides, unless an
\* earlier one had to be tried again.
THEOREM LastRequestCorrect == Spec /\ []OneAtATime => []LastRequestWins
<1>1. ASSUME TypeOK, OneInv PROVE LastRequestWins
  <2> SUFFICES ASSUME Settled, \A i \in 1 .. Len(log) - 1 : event[log[i]].attempt = 1
               PROVE  aws.enabled = event[log[Len(log)]].enable
    BY DEF LastRequestWins
  <2>1. log # <<>>
    BY <1>1 DEF OneInv, LogInv, Settled
  <2>2. Len(log) \in 1 .. Len(log) /\ Last \in Key
    BY <1>1, <2>1, EmptySeq, ElementOfSeq DEF TypeOK, Last
  <2>3. event[Last].status = "PROCESSED"
    <3>1. event[Last].status # "NONE"
      BY <1>1, <2>2 DEF OneInv, LogInv, Last
    <3>2. event[Last].status \notin Claimable
      BY <2>2 DEF Settled, Outstanding
    <3>3. event[Last] \in Event
      BY <1>1, <2>2, EventTypes
    <3> QED
      BY <3>1, <3>2, <3>3 DEF Event, Claimable
  <2> QED
    BY <1>1, <2>1, <2>3 DEF OneInv, LastInv, Last
<1> QED
  BY <1>1, OneHolds, TypeCorrect, PTL

\* With one replica of the outbox worker, as the repository tells to start, the
\* hypothesis of the two theorems holds on its own.
THEOREM OneReplicaIsEnough ==
    ASSUME \A v, w \in Workers : v = w
    PROVE  Spec => []SettledRowIsTrue /\ []LastRequestWins
<1>1. OneAtATime
  BY DEF OneAtATime
<1> QED
  BY <1>1, SettledCorrect, LastRequestCorrect, PTL
=============================================================================
