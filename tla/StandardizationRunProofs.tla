---------------------- MODULE StandardizationRunProofs ----------------------
(***************************************************************************)
(* What holds of StandardizationRun for every number of runs, parts,       *)
(* outbox controllers, result handlers and attempts.                       *)
(***************************************************************************)
EXTENDS StandardizationRun, TLAPS

-----------------------------------------------------------------------------
(* The inductive invariant.                                                *)

\* A row lock has one holder.
LocksExclusive ==
    \A c, d \in Controllers, r \in Runs, p \in Parts :
        Holds(c, r, p) /\ Holds(d, r, p) => c = d

\* While a controller repairs a row, the lock keeps others from moving it.
RepairHolds ==
    \A c \in Controllers : ctl[c].pc \in {"repair", "settle"} =>
        ckpt[ctl[c].run][ctl[c].part].status \in {"FAILED", "RUNNING"}

\* A repair never ends a run as succeeded: the repaired row itself is in the way.
SettleFails ==
    \A c \in Controllers : ctl[c].pc = "settle" => ctl[c].verdict \in {"RUNNING", "FAILED"}

\* Rows, tasks and results belong to runs that exist.
Known ==
    /\ \A r \in Runs, p \in Parts : ckpt[r][p].status # "NONE" => run[r] # "NONE"
    /\ \A t \in tasks : run[t.run] # "NONE"
    /\ \A m \in resultQ : run[m.run] # "NONE"
    /\ \A h \in Handlers : handler[h].pc = "locked" => run[handler[h].msg.run] # "NONE"

\* The event for attempt k exists only once attempt k - 1 is over, and from
\* then on the row waits for attempt k, is complete, or has been claimed again.
EventOrder ==
    \A r \in Runs, p \in Parts, k \in Keys : event[r][p][k] # "NONE" =>
        \/ ckpt[r][p].status # "NONE" /\ ckpt[r][p].attempt >= k
        \/ ckpt[r][p].attempt = k - 1 /\ ckpt[r][p].status \in {"PENDING", "COMPLETE"}

\* What a controller publishes is an event; what it marks has been published,
\* so the message is there unless a worker has dealt with it.
Published ==
    \A c \in Controllers :
        /\ ctl[c].pc \in {"publish", "mark"} =>
             event[ctl[c].run][ctl[c].part][ctl[c].key] # "NONE"
        /\ ctl[c].pc = "mark" =>
             \/ [run |-> ctl[c].run, part |-> ctl[c].part] \in dispatchQ
             \/ ckpt[ctl[c].run][ctl[c].part].attempt >= ctl[c].key
             \/ ckpt[ctl[c].run][ctl[c].part].status = "COMPLETE"

\* NoLostDispatch names some event; it is the one for the next attempt.
NextAttemptCarried ==
    \A r \in Runs, p \in Parts : ckpt[r][p].status = "PENDING" =>
        \/ event[r][p][ckpt[r][p].attempt + 1] \in Dispatchable
        \/ [run |-> r, part |-> p] \in dispatchQ

IInv ==
    /\ TypeOK
    /\ LocksExclusive /\ RepairHolds /\ SettleFails
    /\ Known /\ EventOrder /\ Published
    /\ AttemptBudget /\ NextAttemptCarried
    /\ SuccessIsComplete /\ WarningsAreBacked

-----------------------------------------------------------------------------
(* Types.                                                                  *)

USE DEF Active, Succeeded, Keys, Dispatchable

\* The helpers stay within the types of the rows they are given.
LEMMA RetryOrFailType ==
    ASSUME NEW row \in Checkpoint
    PROVE  /\ RetryOrFail(row) \in Checkpoint
           /\ RetryOrFail(row).attempt = row.attempt
           /\ RetryOrFail(row).warned = row.warned
           /\ RetryOrFail(row).status =
                IF row.attempt < MaxAttempts THEN "PENDING" ELSE "FAILED"
BY DEF RetryOrFail, Checkpoint

\* A settled row is a row.
LEMMA SettledType ==
    ASSUME NEW row \in Checkpoint, NEW m \in Result
    PROVE  Settled(row, m) \in Checkpoint
BY RetryOrFailType DEF Settled, Checkpoint, Result

\* A verdict is a run status, whatever the rows.
LEMMA VerdictType ==
    ASSUME NEW rows
    PROVE  Verdict(rows) \in RunStatus
BY DEF Verdict, RunStatus

\* One event, or one checkpoint row, is changed and the rest stay.
LEMMA EventUpdate ==
    ASSUME NEW f \in [Runs -> [Parts -> [Keys -> EventStatus]]], NEW v \in EventStatus,
           NEW r \in Runs, NEW p \in Parts, NEW k \in Keys,
           NEW g, g = [f EXCEPT ![r][p][k] = v]
    PROVE  /\ g \in [Runs -> [Parts -> [Keys -> EventStatus]]]
           /\ \A s \in Runs, q \in Parts, j \in Keys :
                g[s][q][j] = IF s = r /\ q = p /\ j = k THEN v ELSE f[s][q][j]
<1> DEFINE h == [f[r] EXCEPT ![p][k] = v]
<1>1. h \in [Parts -> [Keys -> EventStatus]]
  OBVIOUS
<1>2. g = [f EXCEPT ![r] = h]
  OBVIOUS
<1>3. \A q \in Parts, j \in Keys : h[q][j] = IF q = p /\ j = k THEN v ELSE f[r][q][j]
  OBVIOUS
<1> HIDE DEF h
<1> QED BY <1>1, <1>2, <1>3

\* As EventUpdate, for a checkpoint row.
LEMMA RowUpdate ==
    ASSUME NEW f \in [Runs -> [Parts -> Checkpoint]], NEW row \in Checkpoint,
           NEW r \in Runs, NEW p \in Parts,
           NEW g, g = [f EXCEPT ![r][p] = row]
    PROVE  /\ g \in [Runs -> [Parts -> Checkpoint]]
           /\ \A s \in Runs, q \in Parts :
                g[s][q] = IF s = r /\ q = p THEN row ELSE f[s][q]
OBVIOUS

\* A retry event has a key within the budget.
LEMMA RetryEventType ==
    ASSUME TypeOK, NEW r \in Runs, NEW p \in Parts
    PROVE  RetryEvent(r, p) \in [Runs -> [Parts -> [Keys -> EventStatus]]]
<1>1. CASE ckpt[r][p].attempt < MaxAttempts
  <2>1. ckpt[r][p].attempt + 1 \in Keys
    BY <1>1, MaxAttemptsAssumption DEF TypeOK, Checkpoint
  <2> QED BY <1>1, <2>1, EventUpdate DEF TypeOK, RetryEvent, Enqueue, EventStatus
<1>2. CASE ~(ckpt[r][p].attempt < MaxAttempts)
  BY <1>2 DEF TypeOK, RetryEvent
<1> QED BY <1>1, <1>2

\* Ending a run writes a run status.
LEMMA FinalizeType ==
    ASSUME TypeOK, NEW r \in Runs, NEW v \in RunStatus, Finalize(r, v)
    PROVE  run' \in [Runs -> RunStatus]
BY DEF TypeOK, Finalize

\* What a process keeps in its state names rows of the tables.
LEMMA ProcessFields ==
    ASSUME TypeOK
    PROVE  /\ \A c \in Controllers :
                /\ ctl[c].pc \notin {"reconcile", "outbox"} => ctl[c].run \in Runs
                /\ ctl[c].pc \in {"repair", "settle", "publish", "mark"} =>
                     ctl[c].part \in Parts
                /\ ctl[c].pc = "settle" => ctl[c].verdict \in RunStatus
                /\ ctl[c].pc \in {"publish", "mark"} => ctl[c].key \in Keys
           /\ \A h \in Handlers : handler[h].pc = "locked" =>
                /\ handler[h].msg \in Result
                /\ handler[h].msg.run \in Runs
                /\ handler[h].msg.part \in Parts
<1>1. \A c \in Controllers : ctl[c] \in ControllerState
  BY DEF TypeOK
<1>2. \A h \in Handlers : handler[h] \in HandlerState
  BY DEF TypeOK
<1>3. \A h \in Handlers : handler[h].pc = "locked" => handler[h].msg \in Result
  BY <1>2 DEF HandlerState
<1> QED BY <1>1, <1>3 DEF ControllerState, Result

\* Every action keeps the types.
LEMMA TypeStep ==
    ASSUME TypeOK, AttemptBudget, [Next]_vars
    PROVE  TypeOK'
<1> USE DEF TypeOK
<1>0. Keys \subseteq Nat /\ 1 \in Keys
  BY MaxAttemptsAssumption
<1>1. ASSUME NEW r \in Runs, NEW work \in SUBSET Parts, CreateManualRun(r, work)
      PROVE  TypeOK'
  <2>1. run' \in [Runs -> RunStatus]
    BY <1>1 DEF CreateManualRun, RunStatus
  <2>2. NewCheckpoint \in Checkpoint /\ NoCheckpoint \in Checkpoint
    BY MaxAttemptsAssumption DEF NewCheckpoint, NoCheckpoint, Checkpoint
  <2>3. ckpt' \in [Runs -> [Parts -> Checkpoint]]
    BY <1>1, <2>2 DEF CreateManualRun
  <2>4. [p \in Parts |-> [k \in Keys |-> IF p \in work /\ k = 1 THEN "PENDING" ELSE "NONE"]]
          \in [Parts -> [Keys -> EventStatus]]
    BY DEF EventStatus
  <2>5. event' \in [Runs -> [Parts -> [Keys -> EventStatus]]]
    BY <1>1, <2>4 DEF CreateManualRun
  <2> QED BY <1>1, <2>1, <2>3, <2>5 DEF CreateManualRun
<1>2. ASSUME NEW c \in Controllers, NEW r \in Runs, NEW p \in Parts,
             ReconcileSelect(c, r, p)
      PROVE  TypeOK'
  BY <1>2 DEF ReconcileSelect, ControllerState
<1>3. ASSUME NEW c \in Controllers, ReconcileRepair(c)
      PROVE  TypeOK'
  <2> DEFINE r == ctl[c].run
             p == ctl[c].part
             rows == [ckpt[r] EXCEPT ![p] = RetryOrFail(@)]
  <2>1. r \in Runs /\ p \in Parts
    BY <1>3 DEF ReconcileRepair, ControllerState
  <2>2. Verdict(rows) \in RunStatus
    BY VerdictType
  <2> HIDE DEF rows
  <2>3. /\ ctl' = [ctl EXCEPT ![c] = [pc |-> "settle", run |-> r, part |-> p,
                                      verdict |-> Verdict(rows)]]
        /\ UNCHANGED <<run, ckpt, event, handler, dispatchQ, resultQ, tasks>>
    BY <1>3 DEF ReconcileRepair, rows
  <2>4. ctl' \in [Controllers -> ControllerState]
    BY <2>1, <2>2, <2>3 DEF ControllerState
  <2> QED BY <2>3, <2>4
<1>4. ASSUME NEW c \in Controllers, ReconcileSettle(c)
      PROVE  TypeOK'
  <2>1. ctl[c].run \in Runs /\ ctl[c].part \in Parts /\ ctl[c].verdict \in RunStatus
    BY <1>4 DEF ReconcileSettle, ControllerState
  <2>2. run' \in [Runs -> RunStatus]
    BY <1>4, <2>1, FinalizeType DEF ReconcileSettle
  <2>3. RetryEvent(ctl[c].run, ctl[c].part) \in [Runs -> [Parts -> [Keys -> EventStatus]]]
    BY <2>1, RetryEventType
  <2>4. ckpt' \in [Runs -> [Parts -> Checkpoint]]
    BY <1>4, <2>1, RetryOrFailType DEF ReconcileSettle
  <2> QED BY <1>4, <2>2, <2>3, <2>4 DEF ReconcileSettle, ControllerState
<1>5. ASSUME NEW c \in Controllers, NEW r \in Runs, ReconcileSelectRun(c, r)
      PROVE  TypeOK'
  BY <1>5 DEF ReconcileSelectRun, ControllerState
<1>6. ASSUME NEW c \in Controllers, ReconcileFinalize(c)
      PROVE  TypeOK'
  <2>1. ctl[c].run \in Runs
    BY <1>6 DEF ReconcileFinalize, ControllerState
  <2>2. run' \in [Runs -> RunStatus]
    BY <1>6, <2>1, FinalizeType, VerdictType DEF ReconcileFinalize
  <2> QED BY <1>6, <2>2 DEF ReconcileFinalize, ControllerState
<1>7. ASSUME NEW c \in Controllers, ReconcileNothing(c)
      PROVE  TypeOK'
  BY <1>7 DEF ReconcileNothing, ControllerState
<1>8. ASSUME NEW c \in Controllers, NEW r \in Runs, NEW p \in Parts, NEW k \in Keys,
             OutboxClaim(c, r, p, k)
      PROVE  TypeOK'
  BY <1>8, EventUpdate DEF OutboxClaim, ControllerState, EventStatus
<1>9. ASSUME NEW c \in Controllers, OutboxNothing(c)
      PROVE  TypeOK'
  BY <1>9 DEF OutboxNothing, ControllerState
<1>10. ASSUME NEW c \in Controllers, OutboxPublish(c)
       PROVE  TypeOK'
  <2>1. ctl[c] \in [pc : {"publish", "mark"}, run : Runs, part : Parts, key : Keys]
    BY <1>10 DEF OutboxPublish, ControllerState
  <2>2. ctl' \in [Controllers -> ControllerState]
    BY <1>10, <2>1 DEF OutboxPublish, ControllerState
  <2>3. dispatchQ' \subseteq Dispatch
    BY <1>10, <2>1 DEF OutboxPublish, Dispatch
  <2> QED BY <1>10, <2>2, <2>3 DEF OutboxPublish
<1>11. ASSUME NEW c \in Controllers, OutboxPublishFails(c)
       PROVE  TypeOK'
  <2>1. ctl[c].run \in Runs /\ ctl[c].part \in Parts /\ ctl[c].key \in Keys
    BY <1>11 DEF OutboxPublishFails, ControllerState
  <2> QED BY <1>11, <2>1, EventUpdate DEF OutboxPublishFails, ControllerState, EventStatus
<1>12. ASSUME NEW c \in Controllers, OutboxMark(c)
       PROVE  TypeOK'
  <2>1. ctl[c].run \in Runs /\ ctl[c].part \in Parts /\ ctl[c].key \in Keys
    BY <1>12 DEF OutboxMark, ControllerState
  <2>2. run' \in [Runs -> RunStatus]
    BY <1>12, <2>1 DEF OutboxMark, RunStatus
  <2> QED BY <1>12, <2>1, <2>2, EventUpdate DEF OutboxMark, ControllerState, EventStatus
<1>13. ASSUME NEW c \in Controllers, ControllerRestart(c)
       PROVE  TypeOK'
  BY <1>13 DEF ControllerRestart, ControllerState
<1>14. ASSUME NEW h \in Handlers, NEW m \in resultQ, ResultLockRun(h, m)
       PROVE  TypeOK'
  BY <1>14 DEF ResultLockRun, HandlerState
<1>15. ASSUME NEW h \in Handlers, ResultCommit(h)
       PROVE  TypeOK'
  <2> DEFINE m == handler[h].msg
             rows == [ckpt[m.run] EXCEPT ![m.part] = Settled(@, m)]
  <2>1. m \in Result /\ m.run \in Runs /\ m.part \in Parts
    BY <1>15, ProcessFields DEF ResultCommit
  <2> HIDE DEF m
  <2>2. rows \in [Parts -> Checkpoint]
    BY <2>1, SettledType
  <2>3. run' \in [Runs -> RunStatus]
    BY <1>15, <2>1, FinalizeType, VerdictType, SMTT(30) DEF ResultCommit, m
  <2>4. event' \in [Runs -> [Parts -> [Keys -> EventStatus]]]
    BY <1>15, <2>1, RetryEventType DEF ResultCommit, m
  <2>5. ckpt' = [ckpt EXCEPT ![m.run] = rows]
    BY <1>15 DEF ResultCommit, m
  <2> HIDE DEF rows
  <2>6. ckpt' \in [Runs -> [Parts -> Checkpoint]]
    BY <2>1, <2>2, <2>5
  <2>7. handler' \in [Handlers -> HandlerState]
    BY <1>15 DEF ResultCommit, HandlerState
  <2>8. resultQ' \subseteq Result /\ UNCHANGED <<ctl, dispatchQ, tasks>>
    BY <1>15 DEF ResultCommit
  <2> QED BY <2>3, <2>4, <2>6, <2>7, <2>8, SMTT(30)
<1>16. ASSUME NEW h \in Handlers, ResultRollback(h)
       PROVE  TypeOK'
  BY <1>16 DEF ResultRollback, HandlerState
<1>17. ASSUME NEW r \in Runs, NEW p \in Parts, WorkerClaim(r, p)
       PROVE  TypeOK'
  <2>1. ckpt[r][p] \in Checkpoint /\ ckpt[r][p].attempt + 1 \in Keys
    <3>1. ckpt[r][p] \in Checkpoint
      OBVIOUS
    <3>2. ckpt[r][p].attempt < MaxAttempts
      BY <1>17 DEF WorkerClaim, AttemptBudget
    <3>3. ckpt[r][p].attempt \in 0 .. MaxAttempts
      BY <3>1 DEF Checkpoint
    <3> QED BY <3>1, <3>2, <3>3, MaxAttemptsAssumption
  <2>2. ckpt' = [ckpt EXCEPT ![r][p] =
                   [ckpt[r][p] EXCEPT !.status = "RUNNING", !.attempt = @ + 1]]
    BY <1>17 DEF WorkerClaim
  <2>3. ckpt' \in [Runs -> [Parts -> Checkpoint]]
    <3>1. [ckpt[r][p] EXCEPT !.status = "RUNNING", !.attempt = @ + 1] \in Checkpoint
      <4>1. ckpt[r][p].attempt + 1 \in 0 .. MaxAttempts
        BY <2>1, MaxAttemptsAssumption
      <4> QED BY <2>1, <4>1 DEF Checkpoint
    <3> QED BY <2>2, <3>1, RowUpdate
  <2>4. tasks' \subseteq Task
    BY <1>17, <2>1 DEF WorkerClaim, Task
  <2>5. dispatchQ' \subseteq dispatchQ /\ UNCHANGED <<run, event, ctl, handler, resultQ>>
    BY <1>17 DEF WorkerClaim
  <2>6. dispatchQ' \subseteq Dispatch
    BY <2>5
  <2> QED BY <2>3, <2>4, <2>5, <2>6
<1>18. ASSUME NEW r \in Runs, NEW p \in Parts, WorkerIgnore(r, p)
       PROVE  TypeOK'
  BY <1>18, SMTT(30) DEF WorkerIgnore
<1>19. ASSUME NEW t \in tasks, NEW m \in Result, NEW sent \in BOOLEAN,
              WorkerFinish(t, m, sent)
       PROVE  TypeOK'
  <2>1. t.run \in Runs /\ t.part \in Parts
    BY DEF Task
  <2> DEFINE row == ckpt[t.run][t.part]
             done == IF m.status = "SUCCEEDED" THEN "COMPLETE" ELSE "FAILED"
             new == [row EXCEPT !.status = done, !.warned = @ \/ m.warned]
  <2>2. ckpt' \in [Runs -> [Parts -> Checkpoint]]
    <3>1. row \in Checkpoint
      BY <2>1
    <3>2. (row.warned \/ m.warned) \in BOOLEAN
      OBVIOUS
    <3>3. new \in Checkpoint
      BY <3>1, <3>2 DEF Checkpoint
    <3>4. CASE row.status = "RUNNING" /\ row.attempt = t.attempt
      <4>1. ckpt' = [ckpt EXCEPT ![t.run][t.part].status = done,
                                 ![t.run][t.part].warned = @ \/ m.warned]
        BY <1>19, <3>4 DEF WorkerFinish
      <4>2. ckpt' = [ckpt EXCEPT ![t.run][t.part] = new]
        BY <2>1, <4>1
      <4>3. ckpt \in [Runs -> [Parts -> Checkpoint]]
        OBVIOUS
      <4> HIDE DEF row, done, new
      <4> QED BY <2>1, <3>3, <4>2, <4>3, RowUpdate
    <3>5. CASE ~(row.status = "RUNNING" /\ row.attempt = t.attempt)
      <4>1. ckpt' = ckpt
        BY <1>19, <3>5 DEF WorkerFinish
      <4> QED BY <4>1
    <3> QED BY <3>4, <3>5
  <2> QED BY <1>19, <2>2 DEF WorkerFinish
<1>20. CASE UNCHANGED vars
  BY <1>20 DEF vars
<1> QED
  BY <1>1, <1>2, <1>3, <1>4, <1>5, <1>6, <1>7, <1>8, <1>9, <1>10, <1>11, <1>12,
     <1>13, <1>14, <1>15, <1>16, <1>17, <1>18, <1>19, <1>20
     DEF Next, Reconcile, Outbox, HandleResult, BreakDeadlock, Worker

-----------------------------------------------------------------------------
(* The writes several transactions share.                                  *)

\* Putting a failed or stale row back, with its event, or failing it for good.
LEMMA Repaired ==
    ASSUME TypeOK, EventOrder, AttemptBudget, NextAttemptCarried,
           NEW r \in Runs, NEW p \in Parts,
           ckpt[r][p].status \in {"FAILED", "RUNNING"},
           \A s \in Runs, q \in Parts :
               ckpt'[s][q] = IF s = r /\ q = p THEN RetryOrFail(ckpt[r][p]) ELSE ckpt[s][q],
           event' = RetryEvent(r, p),
           dispatchQ' = dispatchQ
    PROVE  /\ AttemptBudget' /\ EventOrder' /\ NextAttemptCarried'
           /\ \A s \in Runs, q \in Parts, k \in Keys :
                event[s][q][k] # "NONE" => event'[s][q][k] # "NONE"
<1> DEFINE a == ckpt[r][p].attempt
<1>1. ckpt[r][p] \in Checkpoint /\ a \in Nat /\ a <= MaxAttempts
  BY MaxAttemptsAssumption DEF TypeOK, Checkpoint
<1>2. \A s \in Runs, q \in Parts :
        /\ ckpt'[s][q].attempt = ckpt[s][q].attempt
        /\ ~(s = r /\ q = p) => ckpt'[s][q] = ckpt[s][q]
  BY <1>1, RetryOrFailType
<1>3. ckpt'[r][p].status = IF a < MaxAttempts THEN "PENDING" ELSE "FAILED"
  BY <1>1, RetryOrFailType
<1> HIDE DEF a
<1>4. CASE a < MaxAttempts
  <2>1. a + 1 \in Keys
    BY <1>1, <1>4, MaxAttemptsAssumption
  <2>2. event[r][p][a + 1] = "NONE"
    BY <1>1, <2>1 DEF EventOrder, a
  <2>3. event' = [event EXCEPT ![r][p][a + 1] = "PENDING"]
    BY <1>4, <2>2 DEF RetryEvent, Enqueue, a
  <2>4. \A s \in Runs, q \in Parts, k \in Keys :
          event'[s][q][k] = IF s = r /\ q = p /\ k = a + 1
                            THEN "PENDING" ELSE event[s][q][k]
    <3>1. event \in [Runs -> [Parts -> [Keys -> EventStatus]]]
      BY DEF TypeOK
    <3> HIDE DEF Keys
    <3> QED BY <2>1, <2>3, <3>1
  <2>5. AttemptBudget'
    BY <1>2, <1>3, <1>4 DEF AttemptBudget, a
  <2>6. EventOrder'
    <3> SUFFICES ASSUME NEW s \in Runs, NEW q \in Parts, NEW k \in Keys,
                        event'[s][q][k] # "NONE"
                 PROVE  \/ ckpt'[s][q].status # "NONE" /\ ckpt'[s][q].attempt >= k
                        \/ /\ ckpt'[s][q].attempt = k - 1
                           /\ ckpt'[s][q].status \in {"PENDING", "COMPLETE"}
      BY DEF EventOrder
    <3>1. CASE s = r /\ q = p /\ k = a + 1
      BY <3>1, <1>1, <1>2, <1>3, <1>4 DEF a
    <3>2. CASE s = r /\ q = p /\ k # a + 1
      BY <3>2, <2>4, <1>1, <1>2, <1>3, <1>4 DEF EventOrder, a
    <3>3. CASE ~(s = r /\ q = p)
      BY <3>3, <2>4, <1>2 DEF EventOrder
    <3> QED BY <3>1, <3>2, <3>3
  <2>7. NextAttemptCarried'
    <3> SUFFICES ASSUME NEW s \in Runs, NEW q \in Parts, ckpt'[s][q].status = "PENDING"
                 PROVE  \/ event'[s][q][ckpt'[s][q].attempt + 1] \in Dispatchable
                        \/ [run |-> s, part |-> q] \in dispatchQ
      BY DEF NextAttemptCarried
    <3>1. CASE s = r /\ q = p
      BY <3>1, <1>2, <2>1, <2>4 DEF a
    <3>2. CASE ~(s = r /\ q = p)
      <4>1. ckpt[s][q].attempt + 1 \in Keys
        BY <3>2, <1>2, MaxAttemptsAssumption DEF AttemptBudget, TypeOK, Checkpoint
      <4> QED BY <3>2, <4>1, <1>2, <2>4, SMTT(30) DEF NextAttemptCarried
    <3> QED BY <3>1, <3>2
  <2> QED BY <2>4, <2>5, <2>6, <2>7
<1>5. CASE ~(a < MaxAttempts)
  <2>1. event' = event /\ ckpt'[r][p].status = "FAILED"
    BY <1>3, <1>5 DEF RetryEvent, a
  <2>2. AttemptBudget' /\ NextAttemptCarried'
    BY <1>2, <2>1 DEF AttemptBudget, NextAttemptCarried
  <2>3. EventOrder'
    <3> SUFFICES ASSUME NEW s \in Runs, NEW q \in Parts, NEW k \in Keys,
                        event[s][q][k] # "NONE"
                 PROVE  \/ ckpt'[s][q].status # "NONE" /\ ckpt'[s][q].attempt >= k
                        \/ /\ ckpt'[s][q].attempt = k - 1
                           /\ ckpt'[s][q].status \in {"PENDING", "COMPLETE"}
      BY <2>1 DEF EventOrder
    <3>1. CASE s = r /\ q = p
      BY <3>1, <1>2, <2>1 DEF EventOrder
    <3>2. CASE ~(s = r /\ q = p)
      BY <3>2, <1>2 DEF EventOrder
    <3> QED BY <3>1, <3>2
  <2> QED BY <2>1, <2>2, <2>3
<1> QED BY <1>4, <1>5

\* The aggregate says "succeeded" only of rows that are all COMPLETE (or not
\* there), and "with warnings" only when a row shows them.
LEMMA VerdictMeaning ==
    ASSUME NEW rows \in [Parts -> Checkpoint]
    PROVE  /\ Verdict(rows) \in Succeeded =>
                \A p \in Parts : rows[p].status \in {"NONE", "COMPLETE"}
           /\ Verdict(rows) = "SUCCEEDED_WITH_WARNINGS" => \E p \in Parts : rows[p].warned
           /\ Verdict(rows) # "NONE"
BY DEF Verdict, Checkpoint

\* Ending a run keeps what is said of runs that succeeded, provided the rows
\* of a run that had succeeded before do not fall back.
LEMMA Finalized ==
    ASSUME TypeOK, SuccessIsComplete, WarningsAreBacked,
           NEW r \in Runs, NEW rows \in [Parts -> Checkpoint], NEW v \in RunStatus,
           Finalize(r, v),
           ckpt' = [ckpt EXCEPT ![r] = rows],
           v \in Succeeded => v = Verdict(rows),
           \A p \in Parts :
               /\ ckpt[r][p].status \in {"NONE", "COMPLETE"} =>
                    rows[p].status \in {"NONE", "COMPLETE"}
               /\ ckpt[r][p].warned => rows[p].warned
    PROVE  SuccessIsComplete' /\ WarningsAreBacked'
<1>1. /\ ckpt'[r] = rows
      /\ \A s \in Runs : s # r => ckpt'[s] = ckpt[s] /\ run'[s] = run[s]
  BY DEF TypeOK, Finalize
<1>2. run'[r] = run[r] \/ run'[r] = v
  BY DEF TypeOK, Finalize
<1>3. SuccessIsComplete'
  BY <1>1, <1>2, VerdictMeaning DEF SuccessIsComplete
<1>4. WarningsAreBacked'
  BY <1>1, <1>2, VerdictMeaning DEF WarningsAreBacked
<1> QED BY <1>3, <1>4

-----------------------------------------------------------------------------
(* Every action keeps the invariant.  Types are TypeStep's business.       *)

HIDE DEF Keys

\* Steps that only move a controller to a place without locks, and change
\* neither rows, events nor runs.
LEMMA ControllerMoves ==
    ASSUME IInv, NEW c \in Controllers,
           NEW s \in [pc : {"reconcile", "outbox"}],
           ctl' = [ctl EXCEPT ![c] = s],
           UNCHANGED <<run, ckpt, event, handler, dispatchQ, resultQ, tasks>>
    PROVE  (LocksExclusive /\ RepairHolds /\ SettleFails /\ Known /\ EventOrder
              /\ Published /\ AttemptBudget /\ NextAttemptCarried
              /\ SuccessIsComplete /\ WarningsAreBacked)'
<1>1. \A d \in Controllers : ctl'[d] = IF d = c THEN s ELSE ctl[d]
  BY DEF IInv, TypeOK
<1>2. (LocksExclusive /\ RepairHolds /\ SettleFails)'
  BY <1>1 DEF IInv, LocksExclusive, Holds, RepairHolds, SettleFails
<1>3. Published'
  BY <1>1 DEF IInv, Published
<1>4. (Known /\ EventOrder /\ AttemptBudget /\ NextAttemptCarried
         /\ SuccessIsComplete /\ WarningsAreBacked)'
  BY DEF IInv, Known, EventOrder, AttemptBudget, NextAttemptCarried,
         SuccessIsComplete, WarningsAreBacked
<1> QED BY <1>2, <1>3, <1>4

\* A new run starts from nothing: no row, event or process mentions it yet.
LEMMA CreateManualRunInv ==
    ASSUME IInv, NEW r \in Runs, NEW work \in SUBSET Parts, CreateManualRun(r, work),
           TypeOK'
    PROVE  IInv'
<1> USE DEF IInv
<1>1. \A s \in Runs \ {r} : run'[s] = run[s] /\ ckpt'[s] = ckpt[s] /\ event'[s] = event[s]
  BY DEF CreateManualRun, TypeOK
<1>2. /\ \A p \in Parts : /\ ckpt[r][p].status = "NONE"
                          /\ ckpt'[r][p] = IF p \in work THEN NewCheckpoint ELSE NoCheckpoint
      /\ \A p \in Parts, k \in Keys :
           event'[r][p][k] = IF p \in work /\ k = 1 THEN "PENDING" ELSE "NONE"
      /\ run[r] = "NONE"
      /\ run'[r] = IF work = {} THEN "SUCCEEDED" ELSE "PENDING"
  BY DEF CreateManualRun, TypeOK, Known
<1>3. \A p \in Parts, k \in Keys : event[r][p][k] = "NONE"
  BY <1>2 DEF EventOrder
<1>4. \A c \in Controllers :
        ctl[c].pc \in {"repair", "settle", "publish", "mark"} => ctl[c].run # r
  <2>1. \A c \in Controllers : ctl[c].pc \in {"repair", "settle"} => ctl[c].run # r
    BY <1>2, ProcessFields DEF RepairHolds
  <2>2. \A c \in Controllers : ctl[c].pc \in {"publish", "mark"} => ctl[c].run # r
    <3> SUFFICES ASSUME NEW c \in Controllers, ctl[c].pc \in {"publish", "mark"},
                        ctl[c].run = r
                 PROVE  FALSE
      OBVIOUS
    <3>1. ctl[c].part \in Parts /\ ctl[c].key \in Keys
      BY ProcessFields
    <3> QED BY <1>3, <3>1 DEF Published
  <2> QED BY <2>1, <2>2
<1>5. (LocksExclusive /\ SettleFails)'
  BY DEF CreateManualRun, LocksExclusive, Holds, SettleFails
<1>6. RepairHolds'
  BY <1>1, <1>4, ProcessFields DEF CreateManualRun, RepairHolds
<1>7. Known'
  BY <1>1, <1>2 DEF CreateManualRun, Known, TypeOK, Task, Result
<1>8. EventOrder'
  BY <1>1, <1>2 DEF EventOrder, NewCheckpoint
<1>9. Published'
  BY <1>1, <1>4, ProcessFields DEF CreateManualRun, Published
<1>10. AttemptBudget'
  BY <1>1, <1>2, MaxAttemptsAssumption DEF AttemptBudget, NewCheckpoint, NoCheckpoint
<1>11. NextAttemptCarried'
  <2>1. 1 \in Keys
    BY MaxAttemptsAssumption DEF Keys
  <2> QED BY <1>1, <1>2, <2>1
          DEF CreateManualRun, NextAttemptCarried, NewCheckpoint, NoCheckpoint
<1>12. (SuccessIsComplete /\ WarningsAreBacked)'
  BY <1>1, <1>2 DEF SuccessIsComplete, WarningsAreBacked, NoCheckpoint
<1> QED BY <1>5, <1>6, <1>7, <1>8, <1>9, <1>10, <1>11, <1>12

\* A controller takes the lock of a row only while nobody holds it.
LEMMA ReconcileSelectInv ==
    ASSUME IInv, NEW c \in Controllers, NEW r \in Runs, NEW p \in Parts,
           ReconcileSelect(c, r, p), TypeOK'
    PROVE  IInv'
<1> USE DEF IInv
<1>1. \A d \in Controllers :
        ctl'[d] = IF d = c THEN [pc |-> "repair", run |-> r, part |-> p] ELSE ctl[d]
  BY DEF ReconcileSelect, TypeOK
<1>2. LocksExclusive'
  BY <1>1, SMTT(30) DEF ReconcileSelect, Repairable, CheckpointLocked, LocksExclusive, Holds
<1>3. (RepairHolds /\ SettleFails /\ Published)'
  BY <1>1 DEF ReconcileSelect, Repairable, RepairHolds, SettleFails, Published
<1>4. (Known /\ EventOrder /\ AttemptBudget /\ NextAttemptCarried
         /\ SuccessIsComplete /\ WarningsAreBacked)'
  BY DEF ReconcileSelect, Known, EventOrder, AttemptBudget, NextAttemptCarried,
         SuccessIsComplete, WarningsAreBacked
<1> QED BY <1>2, <1>3, <1>4

\* The commit of a repair, with or without the end of the run.
LEMMA RepairCommitted ==
    ASSUME IInv, NEW c \in Controllers, NEW r \in Runs, NEW p \in Parts,
           Holds(c, r, p),
           ckpt' = [ckpt EXCEPT ![r] = [ckpt[r] EXCEPT ![p] = RetryOrFail(@)]],
           event' = RetryEvent(r, p),
           ctl' = [ctl EXCEPT ![c] = [pc |-> "outbox"]],
           NEW v \in RunStatus \ (Succeeded \cup {"NONE"}), Finalize(r, v),
           UNCHANGED <<handler, dispatchQ, resultQ, tasks>>,
           TypeOK'
    PROVE  IInv'
<1> USE DEF IInv
<1> DEFINE rows == [ckpt[r] EXCEPT ![p] = RetryOrFail(@)]
<1>1. \A d \in Controllers : ctl'[d] = IF d = c THEN [pc |-> "outbox"] ELSE ctl[d]
  BY DEF TypeOK
<1>2. ckpt[r][p] \in Checkpoint /\ ckpt[r][p].status \in {"FAILED", "RUNNING"}
  BY DEF TypeOK, Holds, RepairHolds
<1>3. \A s \in Runs, q \in Parts :
        ckpt'[s][q] = IF s = r /\ q = p THEN RetryOrFail(ckpt[r][p]) ELSE ckpt[s][q]
  BY DEF TypeOK
<1>4. /\ AttemptBudget' /\ EventOrder' /\ NextAttemptCarried'
      /\ \A s \in Runs, q \in Parts, k \in Keys :
           event[s][q][k] # "NONE" => event'[s][q][k] # "NONE"
  BY <1>2, <1>3, Repaired
<1>5. \A s \in Runs, q \in Parts :
        /\ ckpt'[s][q].attempt = ckpt[s][q].attempt
        /\ ckpt[s][q].status = "COMPLETE" => ckpt'[s][q].status = "COMPLETE"
        /\ ckpt'[s][q].status # "NONE" => ckpt[s][q].status # "NONE"
  BY <1>2, <1>3, RetryOrFailType
<1>6. LocksExclusive'
  BY <1>1 DEF LocksExclusive, Holds
<1>7. RepairHolds'
  <2> SUFFICES ASSUME NEW d \in Controllers, ctl'[d].pc \in {"repair", "settle"}
               PROVE  ckpt'[ctl'[d].run][ctl'[d].part].status \in {"FAILED", "RUNNING"}
    BY DEF RepairHolds
  <2>1. d # c /\ ctl'[d] = ctl[d]
    BY <1>1
  <2>2. ~(ctl[d].run = r /\ ctl[d].part = p)
    BY <2>1 DEF LocksExclusive, Holds
  <2>3. ctl[d].run \in Runs /\ ctl[d].part \in Parts
    BY <2>1, ProcessFields
  <2> QED BY <2>1, <2>2, <2>3, <1>3 DEF RepairHolds
<1>8. SettleFails'
  BY <1>1 DEF SettleFails
<1>9. \A s \in Runs : run[s] # "NONE" => run'[s] # "NONE"
  BY DEF Finalize, TypeOK
<1>10. Known'
  BY <1>5, <1>9, ProcessFields, SMTT(30) DEF Known, TypeOK, Task, Result
<1>11. Published'
  BY <1>1, <1>4, <1>5, ProcessFields DEF Published
<1>12. rows \in [Parts -> Checkpoint]
  BY <1>2, RetryOrFailType DEF TypeOK
<1>13. \A q \in Parts : /\ ckpt[r][q].status \in {"NONE", "COMPLETE"} =>
                             rows[q].status \in {"NONE", "COMPLETE"}
                        /\ ckpt[r][q].warned => rows[q].warned
  BY <1>2, RetryOrFailType DEF TypeOK
<1> HIDE DEF rows
<1>14. ckpt' = [ckpt EXCEPT ![r] = rows]
  BY DEF rows
<1>15. SuccessIsComplete' /\ WarningsAreBacked'
  BY <1>12, <1>13, <1>14, Finalized
<1> QED BY <1>4, <1>6, <1>7, <1>8, <1>10, <1>11, <1>15

\* The aggregate of a repair finds work left, or a run to end as FAILED: the
\* repaired row is PENDING or FAILED, and PENDING would be work.
LEMMA ReconcileRepairInv ==
    ASSUME IInv, NEW c \in Controllers, ReconcileRepair(c), TypeOK'
    PROVE  IInv'
<1> USE DEF IInv
<1> DEFINE r == ctl[c].run
           p == ctl[c].part
           rows == [ckpt[r] EXCEPT ![p] = RetryOrFail(@)]
<1>1. r \in Runs /\ p \in Parts /\ Holds(c, r, p)
  BY ProcessFields DEF ReconcileRepair, Holds
<1>2. /\ ctl' = [ctl EXCEPT ![c] = [pc |-> "settle", run |-> r, part |-> p,
                                    verdict |-> Verdict(rows)]]
      /\ UNCHANGED <<run, ckpt, event, handler, dispatchQ, resultQ, tasks>>
  BY DEF ReconcileRepair
<1>3. Verdict(rows) \in {"RUNNING", "FAILED"}
  <2>1. ckpt[r][p] \in Checkpoint /\ rows \in [Parts -> Checkpoint]
    BY <1>1, RetryOrFailType DEF TypeOK
  <2>2. rows[p].status \in {"PENDING", "FAILED"}
    BY <1>1, <2>1, RetryOrFailType DEF TypeOK
  <2> HIDE DEF rows
  <2> QED BY <1>1, <2>2 DEF Verdict
<1> HIDE DEF rows
<1>4. \A d \in Controllers :
        ctl'[d] = IF d = c THEN [pc |-> "settle", run |-> r, part |-> p,
                                 verdict |-> Verdict(rows)] ELSE ctl[d]
  BY <1>2 DEF TypeOK
<1>5. \A d \in Controllers, s \in Runs, q \in Parts : Holds(d, s, q)' <=> Holds(d, s, q)
  BY <1>1, <1>4 DEF Holds
<1>6. LocksExclusive'
  BY <1>5 DEF LocksExclusive
<1>7. RepairHolds'
  <2> SUFFICES ASSUME NEW d \in Controllers, ctl'[d].pc \in {"repair", "settle"}
               PROVE  ckpt[ctl'[d].run][ctl'[d].part].status \in {"FAILED", "RUNNING"}
    BY <1>2 DEF RepairHolds
  <2>1. CASE d = c
    <3>1. ckpt[r][p].status \in {"FAILED", "RUNNING"}
      BY DEF ReconcileRepair, RepairHolds
    <3>2. ctl'[d].run = r /\ ctl'[d].part = p
      BY <1>4, <2>1
    <3> QED BY <3>1, <3>2
  <2>2. CASE d # c
    <3>1. ctl'[d] = ctl[d]
      BY <1>4, <2>2, SMTT(30)
    <3> QED BY <3>1 DEF RepairHolds
  <2> QED BY <2>1, <2>2
<1>8. (SettleFails /\ Published)'
  BY <1>2, <1>3, <1>4 DEF SettleFails, Published
<1>9. (Known /\ EventOrder /\ AttemptBudget /\ NextAttemptCarried
         /\ SuccessIsComplete /\ WarningsAreBacked)'
  BY <1>2 DEF Known, EventOrder, AttemptBudget, NextAttemptCarried,
              SuccessIsComplete, WarningsAreBacked
<1> QED BY <1>6, <1>7, <1>8, <1>9

\* The repair commits together with the end of the run, never a success.
LEMMA ReconcileSettleInv ==
    ASSUME IInv, NEW c \in Controllers, ReconcileSettle(c), TypeOK'
    PROVE  IInv'
<1> USE DEF IInv
<1> DEFINE r == ctl[c].run
           p == ctl[c].part
           v == ctl[c].verdict
<1>1. r \in Runs /\ p \in Parts /\ Holds(c, r, p)
  BY ProcessFields DEF ReconcileSettle, Holds
<1>2. ckpt' = [ckpt EXCEPT ![r] = [ckpt[r] EXCEPT ![p] = RetryOrFail(@)]]
  BY <1>1 DEF ReconcileSettle, TypeOK
<1>3. /\ event' = RetryEvent(r, p)
      /\ ctl' = [ctl EXCEPT ![c] = [pc |-> "outbox"]]
      /\ Finalize(r, v)
      /\ UNCHANGED <<handler, dispatchQ, resultQ, tasks>>
  BY DEF ReconcileSettle
<1>4. v \in RunStatus \ (Succeeded \cup {"NONE"})
  BY ProcessFields DEF ReconcileSettle, SettleFails, RunStatus
<1> HIDE DEF r, p, v
<1> QED BY <1>1, <1>2, <1>3, <1>4, RepairCommitted

\* Locking a run changes no row.
LEMMA ReconcileSelectRunInv ==
    ASSUME IInv, NEW c \in Controllers, NEW r \in Runs, ReconcileSelectRun(c, r), TypeOK'
    PROVE  IInv'
<1> USE DEF IInv
<1>1. \A d \in Controllers :
        ctl'[d] = IF d = c THEN [pc |-> "finalize", run |-> r] ELSE ctl[d]
  BY SMTT(30) DEF ReconcileSelectRun, TypeOK
<1>2. (LocksExclusive /\ RepairHolds /\ SettleFails /\ Published)'
  BY <1>1 DEF ReconcileSelectRun, LocksExclusive, Holds, RepairHolds, SettleFails, Published
<1>3. (Known /\ EventOrder /\ AttemptBudget /\ NextAttemptCarried
         /\ SuccessIsComplete /\ WarningsAreBacked)'
  BY DEF ReconcileSelectRun, Known, EventOrder, AttemptBudget, NextAttemptCarried,
         SuccessIsComplete, WarningsAreBacked
<1> QED BY <1>2, <1>3

\* The run ends as the aggregate of its rows says, under its lock.
LEMMA ReconcileFinalizeInv ==
    ASSUME IInv, NEW c \in Controllers, ReconcileFinalize(c), TypeOK'
    PROVE  IInv'
<1> USE DEF IInv
<1> DEFINE r == ctl[c].run
<1>1. r \in Runs /\ ckpt[r] \in [Parts -> Checkpoint]
  BY ProcessFields, SMTT(30) DEF ReconcileFinalize, TypeOK
<1>2. \A d \in Controllers : ctl'[d] = IF d = c THEN [pc |-> "outbox"] ELSE ctl[d]
  BY DEF ReconcileFinalize, TypeOK
<1>3. (LocksExclusive /\ RepairHolds /\ SettleFails /\ Published)'
  BY <1>2 DEF ReconcileFinalize, LocksExclusive, Holds, RepairHolds, SettleFails, Published
<1>4. (EventOrder /\ AttemptBudget /\ NextAttemptCarried)'
  BY DEF ReconcileFinalize, EventOrder, AttemptBudget, NextAttemptCarried
<1>5. Finalize(r, Verdict(ckpt[r])) /\ ckpt' = [ckpt EXCEPT ![r] = ckpt[r]]
  BY DEF ReconcileFinalize, TypeOK
<1>6. \A s \in Runs : run[s] # "NONE" => run'[s] # "NONE"
  BY <1>1, <1>5, VerdictMeaning DEF Finalize, TypeOK
<1>7. Known'
  BY <1>6, ProcessFields DEF ReconcileFinalize, Known, TypeOK, Task, Result
<1> HIDE DEF r
<1>8. (SuccessIsComplete /\ WarningsAreBacked)'
  BY <1>1, <1>5, VerdictType, Finalized
<1> QED BY <1>3, <1>4, <1>7, <1>8

\* Claiming an event keeps it dispatchable.
LEMMA OutboxClaimInv ==
    ASSUME IInv, NEW c \in Controllers, NEW r \in Runs, NEW p \in Parts, NEW k \in Keys,
           OutboxClaim(c, r, p, k), TypeOK'
    PROVE  IInv'
<1> USE DEF IInv
<1>1. \A d \in Controllers :
        ctl'[d] = IF d = c THEN [pc |-> "publish", run |-> r, part |-> p, key |-> k]
                  ELSE ctl[d]
  BY DEF OutboxClaim, TypeOK
<1>2. \A s \in Runs, q \in Parts, j \in Keys :
        event'[s][q][j] = IF s = r /\ q = p /\ j = k THEN "PROCESSING" ELSE event[s][q][j]
  BY DEF OutboxClaim, TypeOK
<1>3. event[r][p][k] # "NONE"
  BY DEF OutboxClaim
<1>4. (LocksExclusive /\ RepairHolds /\ SettleFails)'
  BY <1>1 DEF OutboxClaim, LocksExclusive, Holds, RepairHolds, SettleFails
<1>5. Published'
  BY <1>1, <1>2, ProcessFields DEF OutboxClaim, Published
<1>6. EventOrder'
  BY <1>2, <1>3 DEF OutboxClaim, EventOrder
<1>7. NextAttemptCarried'
  <2> SUFFICES ASSUME NEW s \in Runs, NEW q \in Parts, ckpt[s][q].status = "PENDING",
                      [run |-> s, part |-> q] \notin dispatchQ
               PROVE  event'[s][q][ckpt[s][q].attempt + 1] \in Dispatchable
    BY DEF OutboxClaim, NextAttemptCarried
  <2>1. ckpt[s][q].attempt + 1 \in Keys
    BY MaxAttemptsAssumption DEF AttemptBudget, TypeOK, Checkpoint, Keys
  <2> QED BY <1>2, <2>1 DEF NextAttemptCarried
<1>8. (Known /\ AttemptBudget /\ SuccessIsComplete /\ WarningsAreBacked)'
  BY DEF OutboxClaim, Known, AttemptBudget, SuccessIsComplete, WarningsAreBacked
<1> QED BY <1>4, <1>5, <1>6, <1>7, <1>8

\* Publishing puts the message in the queue before the event may be marked.
LEMMA OutboxPublishInv ==
    ASSUME IInv, NEW c \in Controllers, OutboxPublish(c), TypeOK'
    PROVE  IInv'
<1> USE DEF IInv
<1>1. \A d \in Controllers : d # c => ctl'[d] = ctl[d]
  BY DEF OutboxPublish, TypeOK
<1>2. ctl[c].pc = "publish" /\ ctl'[c] = [ctl[c] EXCEPT !.pc = "mark"]
  BY DEF OutboxPublish, TypeOK
<1>3. /\ ctl'[c].pc = "mark" /\ ctl'[c].run = ctl[c].run
      /\ ctl'[c].part = ctl[c].part /\ ctl'[c].key = ctl[c].key
  <2>1. ctl[c] \in [pc : {"publish"}, run : Runs, part : Parts, key : Keys]
    BY <1>2 DEF TypeOK, ControllerState
  <2> QED BY <1>2, <2>1
<1>4. dispatchQ' = dispatchQ \cup {[run |-> ctl[c].run, part |-> ctl[c].part]}
  BY DEF OutboxPublish
<1>5. (LocksExclusive /\ RepairHolds /\ SettleFails)'
  BY <1>1, <1>3 DEF OutboxPublish, LocksExclusive, Holds, RepairHolds, SettleFails
<1>6. Published'
  <2>1. \A d \in Controllers : ctl'[d].pc \in {"publish", "mark"} =>
          event'[ctl'[d].run][ctl'[d].part][ctl'[d].key] # "NONE"
    <3> SUFFICES ASSUME NEW d \in Controllers, ctl'[d].pc \in {"publish", "mark"}
                 PROVE  event[ctl'[d].run][ctl'[d].part][ctl'[d].key] # "NONE"
      BY DEF OutboxPublish
    <3>1. /\ ctl[d].pc \in {"publish", "mark"} /\ ctl'[d].run = ctl[d].run
          /\ ctl'[d].part = ctl[d].part /\ ctl'[d].key = ctl[d].key
      BY <1>1, <1>2, <1>3
    <3> QED BY <3>1 DEF Published
  <2>2. \A d \in Controllers : ctl'[d].pc = "mark" =>
          \/ [run |-> ctl'[d].run, part |-> ctl'[d].part] \in dispatchQ'
          \/ ckpt'[ctl'[d].run][ctl'[d].part].attempt >= ctl'[d].key
          \/ ckpt'[ctl'[d].run][ctl'[d].part].status = "COMPLETE"
    <3> SUFFICES ASSUME NEW d \in Controllers, ctl'[d].pc = "mark"
                 PROVE  \/ [run |-> ctl'[d].run, part |-> ctl'[d].part] \in dispatchQ'
                        \/ ckpt'[ctl'[d].run][ctl'[d].part].attempt >= ctl'[d].key
                        \/ ckpt'[ctl'[d].run][ctl'[d].part].status = "COMPLETE"
      OBVIOUS
    <3>1. CASE d = c
      BY <3>1, <1>3, <1>4
    <3>2. CASE d # c
      BY <3>2, <1>1, <1>4 DEF OutboxPublish, Published
    <3> QED BY <3>1, <3>2
  <2> QED BY <2>1, <2>2 DEF Published
<1>7. (Known /\ EventOrder /\ AttemptBudget /\ NextAttemptCarried
         /\ SuccessIsComplete /\ WarningsAreBacked)'
  BY <1>4, SMTT(30) DEF OutboxPublish, Known, EventOrder, AttemptBudget, NextAttemptCarried,
              SuccessIsComplete, WarningsAreBacked
<1> QED BY <1>5, <1>6, <1>7

\* An event whose message was refused stays dispatchable.
LEMMA OutboxPublishFailsInv ==
    ASSUME IInv, NEW c \in Controllers, OutboxPublishFails(c), TypeOK'
    PROVE  IInv'
<1> USE DEF IInv
<1> DEFINE r == ctl[c].run
           p == ctl[c].part
           k == ctl[c].key
<1>1. r \in Runs /\ p \in Parts /\ k \in Keys /\ event[r][p][k] # "NONE"
  BY ProcessFields DEF OutboxPublishFails, Published
<1>2. \A d \in Controllers : ctl'[d] = IF d = c THEN [pc |-> "reconcile"] ELSE ctl[d]
  BY DEF OutboxPublishFails, TypeOK
<1>3. /\ event' = [event EXCEPT ![r][p][k] = "FAILED"]
      /\ UNCHANGED <<run, ckpt, handler, dispatchQ, resultQ, tasks>>
  BY DEF OutboxPublishFails
<1> HIDE DEF r, p, k
<1>4. \A s \in Runs, q \in Parts, j \in Keys :
        event'[s][q][j] = IF s = r /\ q = p /\ j = k THEN "FAILED" ELSE event[s][q][j]
  BY <1>1, <1>3 DEF TypeOK
<1>5. (LocksExclusive /\ RepairHolds /\ SettleFails)'
  <2>1. LocksExclusive'
    BY <1>2 DEF LocksExclusive, Holds
  <2>2. RepairHolds' /\ SettleFails'
    BY <1>2, <1>3 DEF RepairHolds, SettleFails
  <2> QED BY <2>1, <2>2
<1>6. Published'
  <2>1. \A s \in Runs, q \in Parts, j \in Keys :
          event[s][q][j] # "NONE" => event'[s][q][j] # "NONE"
    BY <1>4
  <2> QED BY <1>2, <1>3, <2>1, ProcessFields DEF Published
<1>7. EventOrder'
  BY <1>1, <1>3, <1>4 DEF EventOrder
<1>8. NextAttemptCarried'
  <2> SUFFICES ASSUME NEW s \in Runs, NEW q \in Parts, ckpt[s][q].status = "PENDING",
                      [run |-> s, part |-> q] \notin dispatchQ
               PROVE  event'[s][q][ckpt[s][q].attempt + 1] \in Dispatchable
    BY <1>3 DEF NextAttemptCarried
  <2>1. ckpt[s][q].attempt + 1 \in Keys
    BY MaxAttemptsAssumption DEF AttemptBudget, TypeOK, Checkpoint, Keys
  <2> QED BY <1>4, <2>1 DEF NextAttemptCarried
<1>9. (Known /\ AttemptBudget /\ SuccessIsComplete /\ WarningsAreBacked)'
  BY DEF OutboxPublishFails, Known, AttemptBudget, SuccessIsComplete, WarningsAreBacked
<1> QED BY <1>5, <1>6, <1>7, <1>8, <1>9

\* Marking is where a dispatch could be lost: the event leaves the outbox, so
\* the message must be there or have been acted upon (Published).
LEMMA OutboxMarkInv ==
    ASSUME IInv, NEW c \in Controllers, OutboxMark(c), TypeOK'
    PROVE  IInv'
<1> USE DEF IInv
<1> DEFINE r == ctl[c].run
           p == ctl[c].part
           k == ctl[c].key
<1>1. r \in Runs /\ p \in Parts /\ k \in Keys /\ event[r][p][k] # "NONE"
  BY ProcessFields DEF OutboxMark, Published
<1>2. \A d \in Controllers : ctl'[d] = IF d = c THEN [pc |-> "reconcile"] ELSE ctl[d]
  BY DEF OutboxMark, TypeOK
<1>3. /\ event' = [event EXCEPT ![r][p][k] = "PROCESSED"]
      /\ UNCHANGED <<ckpt, handler, dispatchQ, resultQ, tasks>>
  BY DEF OutboxMark
<1>4. \/ [run |-> r, part |-> p] \in dispatchQ
      \/ ckpt[r][p].attempt >= k
      \/ ckpt[r][p].status = "COMPLETE"
  BY DEF OutboxMark, Published
<1>5. \A s \in Runs : run'[s] = IF s = r /\ run[s] = "PENDING" THEN "RUNNING" ELSE run[s]
  BY DEF OutboxMark, TypeOK
<1> HIDE DEF r, p, k
<1>6. \A s \in Runs, q \in Parts, j \in Keys :
        event'[s][q][j] = IF s = r /\ q = p /\ j = k THEN "PROCESSED" ELSE event[s][q][j]
  BY <1>1, <1>3 DEF TypeOK
<1>7. (LocksExclusive /\ RepairHolds /\ SettleFails)'
  <2>1. LocksExclusive'
    BY <1>2 DEF LocksExclusive, Holds
  <2>2. RepairHolds' /\ SettleFails'
    BY <1>2, <1>3 DEF RepairHolds, SettleFails
  <2> QED BY <2>1, <2>2
<1>8. Published'
  <2>1. \A s \in Runs, q \in Parts, j \in Keys :
          event[s][q][j] # "NONE" => event'[s][q][j] # "NONE"
    BY <1>6
  <2> QED BY <1>2, <1>3, <2>1, ProcessFields DEF Published
<1>9. EventOrder'
  BY <1>1, <1>3, <1>6 DEF EventOrder
<1>10. NextAttemptCarried'
  <2> SUFFICES ASSUME NEW s \in Runs, NEW q \in Parts, ckpt[s][q].status = "PENDING",
                      [run |-> s, part |-> q] \notin dispatchQ
               PROVE  event'[s][q][ckpt[s][q].attempt + 1] \in Dispatchable
    BY <1>3 DEF NextAttemptCarried
  <2>1. /\ ckpt[s][q].attempt + 1 \in Keys
        /\ ckpt[s][q].attempt \in Nat
    BY MaxAttemptsAssumption DEF AttemptBudget, TypeOK, Checkpoint, Keys
  <2>2. event[s][q][ckpt[s][q].attempt + 1] \in Dispatchable
    BY DEF NextAttemptCarried
  <2>3. ~(s = r /\ q = p /\ ckpt[s][q].attempt + 1 = k)
    BY <1>4, <2>1
  <2> QED BY <1>6, <2>1, <2>2, <2>3
<1>11. Known'
  <2>1. \A s \in Runs : run[s] # "NONE" => run'[s] # "NONE"
    BY <1>5
  <2> QED BY <1>3, <2>1, ProcessFields DEF Known, TypeOK, Task, Result
<1>12. AttemptBudget' /\ SuccessIsComplete' /\ WarningsAreBacked'
  BY <1>3, <1>5 DEF AttemptBudget, SuccessIsComplete, WarningsAreBacked
<1> QED BY <1>7, <1>8, <1>9, <1>10, <1>11, <1>12

\* A handler takes a message of a run that exists.
LEMMA ResultLockRunInv ==
    ASSUME IInv, NEW h \in Handlers, NEW m \in resultQ, ResultLockRun(h, m), TypeOK'
    PROVE  IInv'
<1> USE DEF IInv
<1>1. \A g \in Handlers : handler'[g] = IF g = h THEN [pc |-> "locked", msg |-> m] ELSE handler[g]
  BY DEF ResultLockRun, TypeOK
<1>2. UNCHANGED <<run, ckpt, event, ctl, dispatchQ, tasks>> /\ resultQ' \subseteq resultQ
  BY DEF ResultLockRun
<1>3. Known'
  BY <1>1, <1>2 DEF ResultLockRun, Known
<1>4. LocksExclusive' /\ RepairHolds' /\ SettleFails'
  BY <1>2 DEF LocksExclusive, Holds, RepairHolds, SettleFails
<1>5. EventOrder' /\ Published'
  BY <1>2 DEF EventOrder, Published
<1>6. AttemptBudget' /\ NextAttemptCarried' /\ SuccessIsComplete' /\ WarningsAreBacked'
  BY <1>2 DEF AttemptBudget, NextAttemptCarried, SuccessIsComplete, WarningsAreBacked
<1> QED BY <1>3, <1>4, <1>5, <1>6

\* A failed result transaction changes no row.
LEMMA ResultRollbackInv ==
    ASSUME IInv, NEW h \in Handlers, ResultRollback(h), TypeOK'
    PROVE  IInv'
<1> USE DEF IInv
<1>1. \A g \in Handlers : handler'[g] = IF g = h THEN [pc |-> "idle"] ELSE handler[g]
  BY DEF ResultRollback, TypeOK
<1>2. UNCHANGED <<run, ckpt, event, ctl, dispatchQ, tasks>> /\ resultQ' \subseteq resultQ
  BY DEF ResultRollback
<1>3. Known'
  BY <1>1, <1>2 DEF ResultRollback, Known
<1>4. LocksExclusive' /\ RepairHolds' /\ SettleFails'
  BY <1>2 DEF LocksExclusive, Holds, RepairHolds, SettleFails
<1>5. EventOrder' /\ Published'
  BY <1>2 DEF EventOrder, Published
<1>6. AttemptBudget' /\ NextAttemptCarried' /\ SuccessIsComplete' /\ WarningsAreBacked'
  BY <1>2 DEF AttemptBudget, NextAttemptCarried, SuccessIsComplete, WarningsAreBacked
<1> QED BY <1>3, <1>4, <1>5, <1>6

\* A result settles its checkpoint, asks for a retry or changes nothing, and
\* may end the run.  No controller holds the row it changes.
LEMMA ResultCommitInv ==
    ASSUME IInv, NEW h \in Handlers, ResultCommit(h), TypeOK'
    PROVE  IInv'
<1> USE DEF IInv
<1> DEFINE m == handler[h].msg
           r == m.run
           p == m.part
           rows == [ckpt[r] EXCEPT ![p] = Settled(@, m)]
<1>1. m \in Result /\ r \in Runs /\ p \in Parts /\ run[r] # "NONE"
  BY ProcessFields, SMTT(30) DEF ResultCommit, Known
<1>2. /\ ~CheckpointLocked(r, p)
      /\ ckpt' = [ckpt EXCEPT ![r] = rows]
      /\ event' = IF m.status = "FAILED" /\ ckpt[r][p].status = "FAILED"
                  THEN RetryEvent(r, p) ELSE event
      /\ Finalize(r, Verdict(rows))
      /\ handler' = [handler EXCEPT ![h] = [pc |-> "idle"]]
      /\ resultQ' \subseteq resultQ
      /\ UNCHANGED <<ctl, dispatchQ, tasks>>
  BY DEF ResultCommit
<1> HIDE DEF m, r, p
<1>3. ckpt[r][p] \in Checkpoint /\ Settled(ckpt[r][p], m) \in Checkpoint
  BY <1>1, SettledType DEF TypeOK
<1>4. rows \in [Parts -> Checkpoint]
  BY <1>1, <1>3 DEF TypeOK
<1>5. \A s \in Runs, q \in Parts :
        ckpt'[s][q] = IF s = r /\ q = p THEN Settled(ckpt[r][p], m) ELSE ckpt[s][q]
  BY <1>1, <1>2 DEF TypeOK
<1>6. /\ Settled(ckpt[r][p], m).attempt = ckpt[r][p].attempt
      /\ ckpt[r][p].warned => Settled(ckpt[r][p], m).warned
      /\ ckpt[r][p].status = "COMPLETE" => Settled(ckpt[r][p], m).status = "COMPLETE"
      /\ ckpt[r][p].status = "NONE" =>
           Settled(ckpt[r][p], m).status \in {"NONE", "COMPLETE"}
  BY <1>3, <1>1, RetryOrFailType DEF Settled, Checkpoint, Result
<1>7. /\ AttemptBudget' /\ EventOrder' /\ NextAttemptCarried'
      /\ \A s \in Runs, q \in Parts, k \in Keys :
           event[s][q][k] # "NONE" => event'[s][q][k] # "NONE"
  <2>1. CASE m.status = "FAILED" /\ ckpt[r][p].status = "FAILED"
    <3>1. Settled(ckpt[r][p], m) = RetryOrFail(ckpt[r][p])
      BY <2>1, SMTT(30) DEF Settled
    <3> QED BY <1>1, <1>2, <1>5, <2>1, <3>1, Repaired
  <2>2. CASE m.status = "FAILED" /\ ckpt[r][p].status # "FAILED"
    <3>1. Settled(ckpt[r][p], m) = ckpt[r][p]
      BY <2>2 DEF Settled
    <3>2. \A s \in Runs, q \in Parts : ckpt'[s][q] = ckpt[s][q]
      BY <1>5, <3>1
    <3> QED BY <1>2, <2>2, <3>2 DEF AttemptBudget, EventOrder, NextAttemptCarried
  <2>3. CASE m.status = "SUCCEEDED"
    <3>1. Settled(ckpt[r][p], m).status = "COMPLETE"
      BY <1>3, <2>3 DEF Settled, Checkpoint
    <3>2. event' = event
      BY <1>2, <2>3
    <3>3. AttemptBudget' /\ NextAttemptCarried'
      BY <1>2, <1>5, <3>1, <3>2, SMTT(30) DEF AttemptBudget, NextAttemptCarried
    <3>4. EventOrder'
      BY <1>5, <1>6, <3>1, <3>2 DEF EventOrder
    <3> QED BY <3>2, <3>3, <3>4
  <2> QED BY <1>1, <2>1, <2>2, <2>3 DEF Result
<1>8. \A s \in Runs, q \in Parts :
        /\ ckpt'[s][q].attempt = ckpt[s][q].attempt
        /\ ckpt[s][q].status = "COMPLETE" => ckpt'[s][q].status = "COMPLETE"
  BY <1>5, <1>6
<1>9. (LocksExclusive /\ SettleFails)'
  BY <1>2 DEF LocksExclusive, Holds, SettleFails
<1>10. RepairHolds'
  <2> SUFFICES ASSUME NEW c \in Controllers, ctl[c].pc \in {"repair", "settle"}
               PROVE  ckpt'[ctl[c].run][ctl[c].part].status \in {"FAILED", "RUNNING"}
    BY <1>2 DEF RepairHolds
  <2>1. ctl[c].run \in Runs /\ ctl[c].part \in Parts
    BY ProcessFields
  <2>2. ~(ctl[c].run = r /\ ctl[c].part = p)
    BY <1>2 DEF CheckpointLocked, Holds
  <2> QED BY <2>1, <2>2, <1>5 DEF RepairHolds
<1>11. \A s \in Runs : run[s] # "NONE" => run'[s] # "NONE"
  BY <1>1, <1>2, <1>4, VerdictMeaning DEF Finalize, TypeOK
<1>12. \A g \in Handlers : handler'[g].pc = "locked" => handler'[g] = handler[g]
  BY <1>2 DEF TypeOK
<1>13. Known'
  BY <1>1, <1>2, <1>5, <1>11, <1>12, ProcessFields, SMTT(30) DEF Known, TypeOK, Task, Result
<1>14. Published'
  BY <1>2, <1>7, <1>8, ProcessFields DEF Published
<1>15. \A q \in Parts : /\ ckpt[r][q].status \in {"NONE", "COMPLETE"} =>
                             rows[q].status \in {"NONE", "COMPLETE"}
                        /\ ckpt[r][q].warned => rows[q].warned
  BY <1>1, <1>6 DEF TypeOK
<1> HIDE DEF rows
<1>16. (SuccessIsComplete /\ WarningsAreBacked)'
  BY <1>1, <1>2, <1>4, <1>15, VerdictType, Finalized
<1> QED BY <1>7, <1>9, <1>10, <1>13, <1>14, <1>16, SMTT(30)

\* A claim uses up the attempt its event was for; the budget has room for it.
LEMMA WorkerClaimInv ==
    ASSUME IInv, NEW r \in Runs, NEW p \in Parts, WorkerClaim(r, p), TypeOK'
    PROVE  IInv'
<1> USE DEF IInv
<1> DEFINE a == ckpt[r][p].attempt
<1>1. /\ ckpt[r][p] \in Checkpoint /\ a \in Nat
      /\ ckpt[r][p].status = "PENDING"
      /\ ckpt'[r][p].status = "RUNNING" /\ ckpt'[r][p].attempt = a + 1
      /\ ckpt'[r][p].warned = ckpt[r][p].warned
      /\ \A s \in Runs, q \in Parts : ~(s = r /\ q = p) => ckpt'[s][q] = ckpt[s][q]
  BY DEF WorkerClaim, TypeOK, Checkpoint
<1>2. /\ \A s \in Runs, q \in Parts :
           ~(s = r /\ q = p) => ([run |-> s, part |-> q] \in dispatchQ
                                   => [run |-> s, part |-> q] \in dispatchQ')
      /\ UNCHANGED <<run, event, ctl, handler, resultQ>>
  BY DEF WorkerClaim
<1> HIDE DEF a
<1>3. (LocksExclusive /\ SettleFails)'
  BY <1>2 DEF LocksExclusive, Holds, SettleFails
<1>4. RepairHolds'
  BY <1>1, <1>2, ProcessFields DEF RepairHolds
<1>5. Known'
  <2>1. run[r] # "NONE"
    BY <1>1 DEF Known
  <2>2. \A t \in tasks' : t \in tasks \/ t.run = r
    BY DEF WorkerClaim
  <2>3. \A t \in tasks' : run'[t.run] # "NONE"
    BY <2>1, <2>2, <1>2 DEF Known
  <2>4. \A s \in Runs, q \in Parts : ckpt'[s][q].status # "NONE" => run'[s] # "NONE"
    BY <2>1, <1>1, <1>2 DEF Known
  <2> QED BY <2>3, <2>4, <1>2 DEF Known
<1>6. \A k \in Keys : event[r][p][k] # "NONE" => a + 1 >= k
  BY <1>1 DEF EventOrder, Keys, a
<1>7. EventOrder'
  BY <1>1, <1>2, <1>6 DEF EventOrder
<1>8. Published'
  <2> SUFFICES ASSUME NEW c \in Controllers, ctl[c].pc = "mark"
               PROVE  \/ [run |-> ctl[c].run, part |-> ctl[c].part] \in dispatchQ'
                      \/ ckpt'[ctl[c].run][ctl[c].part].attempt >= ctl[c].key
                      \/ ckpt'[ctl[c].run][ctl[c].part].status = "COMPLETE"
    BY <1>2 DEF Published
  <2>1. ctl[c].run \in Runs /\ ctl[c].part \in Parts /\ ctl[c].key \in Keys
    BY ProcessFields
  <2>2. CASE ctl[c].run = r /\ ctl[c].part = p
    BY <2>1, <2>2, <1>1, <1>6 DEF Published
  <2>3. CASE ~(ctl[c].run = r /\ ctl[c].part = p)
    BY <2>1, <2>3, <1>1, <1>2 DEF Published
  <2> QED BY <2>2, <2>3
<1>9. AttemptBudget'
  BY <1>1 DEF AttemptBudget
<1>10. NextAttemptCarried'
  BY <1>1, <1>2 DEF NextAttemptCarried
<1>11. (SuccessIsComplete /\ WarningsAreBacked)'
  BY <1>1, <1>2 DEF SuccessIsComplete, WarningsAreBacked
<1> QED BY <1>3, <1>4, <1>5, <1>7, <1>8, <1>9, <1>10, <1>11

\* Consuming a message is safe when the row is not waiting: the attempt that any
\* controller may be about to mark has been claimed (EventOrder).
LEMMA WorkerIgnoreInv ==
    ASSUME IInv, NEW r \in Runs, NEW p \in Parts, WorkerIgnore(r, p), TypeOK'
    PROVE  IInv'
<1> USE DEF IInv
<1>1. /\ ckpt[r][p].status # "PENDING"
      /\ \A s \in Runs, q \in Parts :
           ~(s = r /\ q = p) => ([run |-> s, part |-> q] \in dispatchQ
                                   => [run |-> s, part |-> q] \in dispatchQ')
      /\ UNCHANGED <<run, ckpt, event, ctl, handler, resultQ, tasks>>
  BY DEF WorkerIgnore
<1>2. Published'
  <2> SUFFICES ASSUME NEW c \in Controllers, ctl[c].pc = "mark"
               PROVE  \/ [run |-> ctl[c].run, part |-> ctl[c].part] \in dispatchQ'
                      \/ ckpt[ctl[c].run][ctl[c].part].attempt >= ctl[c].key
                      \/ ckpt[ctl[c].run][ctl[c].part].status = "COMPLETE"
    BY <1>1 DEF Published
  <2>1. ctl[c].run \in Runs /\ ctl[c].part \in Parts /\ ctl[c].key \in Keys
    BY ProcessFields
  <2>2. event[ctl[c].run][ctl[c].part][ctl[c].key] # "NONE"
    BY DEF Published
  <2>3. CASE ctl[c].run = r /\ ctl[c].part = p
    BY <2>1, <2>2, <2>3, <1>1 DEF EventOrder
  <2>4. CASE ~(ctl[c].run = r /\ ctl[c].part = p)
    BY <2>1, <2>4, <1>1 DEF Published
  <2> QED BY <2>3, <2>4
<1>3. NextAttemptCarried'
  BY <1>1 DEF NextAttemptCarried
<1>4. (LocksExclusive /\ RepairHolds /\ SettleFails /\ Known /\ EventOrder
         /\ AttemptBudget /\ SuccessIsComplete /\ WarningsAreBacked)'
  BY <1>1 DEF LocksExclusive, Holds, RepairHolds, SettleFails, Known, EventOrder,
              AttemptBudget, SuccessIsComplete, WarningsAreBacked
<1> QED BY <1>2, <1>3, <1>4

\* An attempt writes its own RUNNING row, which no controller has locked.
LEMMA WorkerFinishInv ==
    ASSUME IInv, NEW t \in tasks, NEW m \in Result, NEW sent \in BOOLEAN,
           WorkerFinish(t, m, sent), TypeOK'
    PROVE  IInv'
<1> USE DEF IInv
<1> DEFINE r == t.run
           p == t.part
           own == ckpt[r][p].status = "RUNNING" /\ ckpt[r][p].attempt = t.attempt
<1>1. r \in Runs /\ p \in Parts /\ run[r] # "NONE"
  BY DEF TypeOK, Task, Known
<1>2. /\ m.run = r /\ resultQ' \subseteq resultQ \cup {m} /\ tasks' \subseteq tasks
      /\ own => ~CheckpointLocked(r, p)
      /\ UNCHANGED <<run, event, ctl, handler, dispatchQ>>
  BY DEF WorkerFinish
<1>3. \A s \in Runs, q \in Parts :
        /\ ckpt'[s][q].attempt = ckpt[s][q].attempt
        /\ ckpt[s][q].warned => ckpt'[s][q].warned
        /\ \/ ckpt'[s][q].status = ckpt[s][q].status
           \/ own /\ s = r /\ q = p /\ ckpt'[s][q].status \in {"COMPLETE", "FAILED"}
  <2>1. CASE ~own
    <3>1. ckpt' = ckpt
      BY <2>1 DEF WorkerFinish
    <3> QED BY <3>1
  <2>2. CASE own
    <3> DEFINE st == IF m.status = "SUCCEEDED" THEN "COMPLETE" ELSE "FAILED"
               row == [ckpt[r][p] EXCEPT !.status = st, !.warned = @ \/ m.warned]
    <3>1. ckpt' = [ckpt EXCEPT ![r][p].status = st, ![r][p].warned = @ \/ m.warned]
      BY <2>2 DEF WorkerFinish
    <3>2. ckpt[r][p] \in Checkpoint /\ ckpt \in [Runs -> [Parts -> Checkpoint]]
      BY <1>1, SMTT(30) DEF TypeOK
    <3>3. \A s \in Runs, q \in Parts :
            ckpt'[s][q] = IF s = r /\ q = p THEN row ELSE ckpt[s][q]
      BY <1>1, <3>1, <3>2
    <3>4. /\ row.attempt = ckpt[r][p].attempt
          /\ ckpt[r][p].warned => row.warned
          /\ row.status \in {"COMPLETE", "FAILED"}
      BY <3>2 DEF Checkpoint
    <3> HIDE DEF row
    <3> QED BY <2>2, <3>3, <3>4
  <2> QED BY <2>1, <2>2
<1> HIDE DEF r, p
<1>4. (LocksExclusive /\ SettleFails)'
  BY <1>2 DEF LocksExclusive, Holds, SettleFails
<1>5. RepairHolds'
  <2> SUFFICES ASSUME NEW c \in Controllers, ctl[c].pc \in {"repair", "settle"}
               PROVE  ckpt'[ctl[c].run][ctl[c].part].status \in {"FAILED", "RUNNING"}
    BY <1>2 DEF RepairHolds
  <2>1. ctl[c].run \in Runs /\ ctl[c].part \in Parts
    BY ProcessFields
  <2>2. own => ~(ctl[c].run = r /\ ctl[c].part = p)
    BY <1>2 DEF CheckpointLocked, Holds
  <2> QED BY <2>1, <2>2, <1>3 DEF RepairHolds
<1>6. Known'
  BY <1>1, <1>2, <1>3 DEF Known
<1>7. EventOrder'
  BY <1>2, <1>3 DEF EventOrder
<1>8. Published'
  BY <1>2, <1>3, ProcessFields DEF Published
<1>9. (AttemptBudget /\ NextAttemptCarried)'
  BY <1>2, <1>3 DEF AttemptBudget, NextAttemptCarried
<1>10. (SuccessIsComplete /\ WarningsAreBacked)'
  BY <1>2, <1>3 DEF SuccessIsComplete, WarningsAreBacked
<1> QED BY <1>4, <1>5, <1>6, <1>7, <1>8, <1>9, <1>10

\* The tables are empty and every process is at the top of its loop.
LEMMA InitInv == Init => IInv
<1> SUFFICES ASSUME Init PROVE IInv
  OBVIOUS
<1>1. TypeOK
  <2>1. NoCheckpoint \in Checkpoint
    BY MaxAttemptsAssumption DEF NoCheckpoint, Checkpoint
  <2> QED BY <2>1 DEF Init, TypeOK, RunStatus, EventStatus, ControllerState, HandlerState
<1>2. LocksExclusive /\ RepairHolds /\ SettleFails /\ Published
  BY DEF Init, LocksExclusive, Holds, RepairHolds, SettleFails, Published
<1>3. Known /\ EventOrder
  BY DEF Init, Known, EventOrder, NoCheckpoint
<1>4. AttemptBudget /\ NextAttemptCarried /\ SuccessIsComplete /\ WarningsAreBacked
  BY DEF Init, AttemptBudget, NextAttemptCarried, SuccessIsComplete, WarningsAreBacked,
         NoCheckpoint
<1> QED BY <1>1, <1>2, <1>3, <1>4 DEF IInv

\* Every step of every process keeps the invariant.
LEMMA StepInv == IInv /\ [Next]_vars => IInv'
<1> SUFFICES ASSUME IInv, [Next]_vars PROVE IInv'
  OBVIOUS
<1>0. TypeOK'
  BY TypeStep, SMTT(30) DEF IInv
<1>1. CASE UNCHANGED vars
  BY <1>0, <1>1 DEF vars, IInv, LocksExclusive, Holds, RepairHolds, SettleFails, Known,
     EventOrder, Published, AttemptBudget, NextAttemptCarried, SuccessIsComplete,
     WarningsAreBacked
<1>2. ASSUME NEW r \in Runs, NEW work \in SUBSET Parts, CreateManualRun(r, work)
      PROVE  IInv'
  BY <1>0, <1>2, CreateManualRunInv
<1>3. ASSUME NEW c \in Controllers, Reconcile(c)
      PROVE  IInv'
  <2>1. ASSUME ReconcileNothing(c)
        PROVE  IInv'
    BY <1>0, <2>1, ControllerMoves DEF ReconcileNothing, IInv
  <2> QED BY <1>0, <1>3, <2>1, ReconcileSelectInv, ReconcileRepairInv, ReconcileSettleInv,
             ReconcileSelectRunInv, ReconcileFinalizeInv DEF Reconcile
<1>4. ASSUME NEW c \in Controllers, Outbox(c)
      PROVE  IInv'
  <2>1. ASSUME OutboxNothing(c)
        PROVE  IInv'
    BY <1>0, <2>1, ControllerMoves DEF OutboxNothing, IInv
  <2> QED BY <1>0, <1>4, <2>1, OutboxClaimInv, OutboxPublishInv, OutboxPublishFailsInv,
             OutboxMarkInv DEF Outbox
<1>5. ASSUME NEW c \in Controllers, ControllerRestart(c)
      PROVE  IInv'
  BY <1>0, <1>5, ControllerMoves DEF ControllerRestart, IInv
<1>6. ASSUME NEW h \in Handlers, HandleResult(h)
      PROVE  IInv'
  BY <1>0, <1>6, ResultLockRunInv, ResultCommitInv, ResultRollbackInv DEF HandleResult
<1>7. ASSUME NEW c \in Controllers, NEW h \in Handlers, BreakDeadlock(c, h)
      PROVE  IInv'
  BY <1>0, <1>5, <1>7, ResultRollbackInv DEF BreakDeadlock
<1>8. ASSUME Worker
      PROVE  IInv'
  BY <1>0, <1>8, WorkerClaimInv, WorkerIgnoreInv, WorkerFinishInv DEF Worker
<1> QED BY <1>1, <1>2, <1>3, <1>4, <1>5, <1>6, <1>7, <1>8 DEF Next

-----------------------------------------------------------------------------
(* The theorems.                                                           *)

\* The inductive invariant holds in every reachable state.
THEOREM Invariance == Spec => []IInv
BY InitInv, StepInv, PTL DEF Spec

\* Rows, events, processes and messages keep their types; in particular no
\* attempt number passes MaxAttempts, also not while it is being claimed.
THEOREM TypeCorrect == Spec => []TypeOK
<1>1. IInv => TypeOK
  BY DEF IInv
<1> QED BY <1>1, Invariance, PTL

\* No interleaving of result handlers, reconcilers and workers ends a run as
\* succeeded while a checkpoint it queued is not COMPLETE.
THEOREM SuccessCorrect == Spec => []SuccessIsComplete
<1>1. IInv => SuccessIsComplete
  BY DEF IInv
<1> QED BY <1>1, Invariance, PTL

\* A run ends with warnings only on counts that stay in its checkpoints.
THEOREM WarningsCorrect == Spec => []WarningsAreBacked
<1>1. IInv => WarningsAreBacked
  BY DEF IInv
<1> QED BY <1>1, Invariance, PTL

\* Every PENDING checkpoint has an event still to be published or a message in
\* the queue, whatever crashes, conflicts and redeliveries there were: the event
\* for its next attempt does it.
THEOREM DispatchCorrect == Spec => []NoLostDispatch
<1>1. IInv => NoLostDispatch
  <2> SUFFICES ASSUME IInv, NEW r \in Runs, NEW p \in Parts, ckpt[r][p].status = "PENDING"
               PROVE  \/ \E k \in Keys : event[r][p][k] \in Dispatchable
                      \/ [run |-> r, part |-> p] \in dispatchQ
    BY DEF NoLostDispatch
  <2>1. ckpt[r][p].attempt + 1 \in Keys
    BY MaxAttemptsAssumption DEF IInv, AttemptBudget, TypeOK, Checkpoint, Keys
  <2> QED BY <2>1 DEF IInv, NextAttemptCarried
<1> QED BY <1>1, Invariance, PTL

\* A checkpoint never waits for an attempt beyond the budget.
THEOREM BudgetCorrect == Spec => []AttemptBudget
<1>1. IInv => AttemptBudget
  BY DEF IInv
<1> QED BY <1>1, Invariance, PTL

\* The only steps that write run_status: creation, the mark, and Finalize, which
\* tests the status it overwrites.
LEMMA OutcomeStep ==
    ASSUME TypeOK, [Next]_vars, NEW r \in Runs, run[r] \notin Active \cup {"NONE"}
    PROVE  run'[r] = run[r]
<1>1. ASSUME NEW s, NEW v, Finalize(s, v)
      PROVE  run'[r] = run[r]
  BY <1>1 DEF Finalize, TypeOK
<1>2. ASSUME NEW s \in Runs, NEW work \in SUBSET Parts, CreateManualRun(s, work)
      PROVE  run'[r] = run[r]
  BY <1>2 DEF CreateManualRun, TypeOK
<1>3. ASSUME NEW c \in Controllers, Reconcile(c)
      PROVE  run'[r] = run[r]
  <2>1. CASE ReconcileSettle(c)
    BY <1>1, <2>1 DEF ReconcileSettle
  <2>2. CASE ReconcileFinalize(c)
    BY <1>1, <2>2 DEF ReconcileFinalize
  <2>3. CASE UNCHANGED run
    BY <2>3
  <2> QED
    BY <1>3, <2>1, <2>2, <2>3
       DEF Reconcile, ReconcileSelect, ReconcileRepair, ReconcileSelectRun, ReconcileNothing
<1>4. ASSUME NEW c \in Controllers, Outbox(c) \/ ControllerRestart(c)
      PROVE  run'[r] = run[r]
  <2>1. CASE OutboxMark(c)
    BY <2>1 DEF OutboxMark, TypeOK
  <2>2. CASE UNCHANGED run
    BY <2>2
  <2>3. Outbox(c) /\ ~OutboxMark(c) => UNCHANGED run
    BY DEF Outbox, OutboxClaim, OutboxNothing, OutboxPublish, OutboxPublishFails
  <2>4. ControllerRestart(c) => UNCHANGED run
    BY DEF ControllerRestart
  <2> QED BY <1>4, <2>1, <2>2, <2>3, <2>4
<1>5. ASSUME NEW h \in Handlers, HandleResult(h)
      PROVE  run'[r] = run[r]
  <2>1. CASE ResultCommit(h)
    BY <1>1, <2>1 DEF ResultCommit
  <2>2. CASE UNCHANGED run
    BY <2>2
  <2> QED
    BY <1>5, <2>1, <2>2, SMTT(30) DEF HandleResult, ResultLockRun, ResultRollback
<1>6. ASSUME NEW c \in Controllers, NEW h \in Handlers, BreakDeadlock(c, h)
      PROVE  run'[r] = run[r]
  <2>1. ControllerRestart(c) \/ ResultRollback(h)
    BY <1>6 DEF BreakDeadlock
  <2> QED BY <2>1 DEF ControllerRestart, ResultRollback
<1>7. CASE Worker \/ UNCHANGED vars
  <2>1. ASSUME NEW s, NEW p, WorkerClaim(s, p) \/ WorkerIgnore(s, p)
        PROVE  UNCHANGED run
    BY <2>1 DEF WorkerClaim, WorkerIgnore
  <2>2. ASSUME NEW t, NEW m, NEW sent, WorkerFinish(t, m, sent)
        PROVE  UNCHANGED run
    BY <2>2 DEF WorkerFinish
  <2>3. UNCHANGED run
    BY <1>7, <2>1, <2>2 DEF Worker, vars
  <2> QED BY <2>3
<1> QED BY <1>2, <1>3, <1>4, <1>5, <1>6, <1>7 DEF Next

\* Whatever arrives after a run has ended, its outcome stays.
THEOREM OutcomeCorrect == Spec => RunOutcomeIsFinal
<1>1. TypeOK /\ [Next]_vars
        => [\A r \in Runs : run[r] \notin Active \cup {"NONE"} => run'[r] = run[r]]_vars
  BY OutcomeStep
<1> QED BY <1>1, TypeCorrect, PTL DEF Spec, RunOutcomeIsFinal

\* The steps that write a checkpoint row, and why each spares a COMPLETE one: the
\* row is new, locked while FAILED or RUNNING (RepairHolds), settled under a
\* test, PENDING, or RUNNING.
LEMMA CompleteStep ==
    ASSUME IInv, [Next]_vars, NEW r \in Runs, NEW p \in Parts,
           ckpt[r][p].status = "COMPLETE"
    PROVE  ckpt'[r][p].status = "COMPLETE"
<1> USE DEF IInv
<1>0. ckpt \in [Runs -> [Parts -> Checkpoint]]
  BY DEF TypeOK
<1>1. ASSUME NEW s \in Runs, NEW work \in SUBSET Parts, CreateManualRun(s, work)
      PROVE  ckpt'[r] = ckpt[r]
  BY <1>0, <1>1 DEF CreateManualRun, Known
<1>2. ASSUME NEW c \in Controllers, ctl[c].pc \in {"repair", "settle"}
      PROVE  ~(ctl[c].run = r /\ ctl[c].part = p)
  BY <1>2 DEF RepairHolds
<1>3. ASSUME NEW c \in Controllers, ReconcileRepair(c)
      PROVE  ckpt'[r][p] = ckpt[r][p]
  BY <1>3 DEF ReconcileRepair
<1>4. ASSUME NEW c \in Controllers, ReconcileSettle(c)
      PROVE  ckpt'[r][p] = ckpt[r][p]
  <2>1. ~(ctl[c].run = r /\ ctl[c].part = p)
    BY <1>2, <1>4 DEF ReconcileSettle
  <2>2. ckpt' = [ckpt EXCEPT ![ctl[c].run][ctl[c].part] = RetryOrFail(@)]
    BY <1>4 DEF ReconcileSettle
  <2> QED BY <1>0, <2>1, <2>2
<1>5. ASSUME NEW c \in Controllers, Reconcile(c)
      PROVE  ckpt'[r][p] = ckpt[r][p]
  BY <1>3, <1>4, <1>5 DEF Reconcile, ReconcileSelect, ReconcileSelectRun,
     ReconcileFinalize, ReconcileNothing
<1>6. ASSUME NEW h \in Handlers, ResultCommit(h)
      PROVE  ckpt'[r][p].status = "COMPLETE"
  <2> DEFINE m == handler[h].msg
             row == Settled(ckpt[m.run][m.part], m)
  <2>1. m \in Result /\ m.run \in Runs /\ m.part \in Parts
    BY <1>6, ProcessFields, SMTT(30) DEF ResultCommit
  <2>2. ckpt' = [ckpt EXCEPT ![m.run] = [ckpt[m.run] EXCEPT ![m.part] = Settled(@, m)]]
    BY <1>6 DEF ResultCommit
  <2> HIDE DEF m
  <2>3. CASE m.run = r /\ m.part = p
    <3>1. ckpt'[r][p] = Settled(ckpt[r][p], m)
      BY <1>0, <2>1, <2>2, <2>3
    <3>2. ckpt[r][p] \in Checkpoint
      BY <1>0
    <3> QED BY <2>1, <3>1, <3>2 DEF Settled, Checkpoint, Result
  <2>4. CASE ~(m.run = r /\ m.part = p)
    BY <1>0, <2>1, <2>2, <2>4
  <2> QED BY <2>3, <2>4, SMTT(30)
<1>7. ASSUME NEW h \in Handlers, HandleResult(h)
      PROVE  ckpt'[r][p].status = "COMPLETE"
  BY <1>6, <1>7 DEF HandleResult, ResultLockRun, ResultRollback
<1>8. ASSUME NEW s \in Runs, NEW q \in Parts, WorkerClaim(s, q)
      PROVE  ckpt'[r][p] = ckpt[r][p]
  <2>1. ~(s = r /\ q = p)
    BY <1>8 DEF WorkerClaim
  <2>2. ckpt' = [ckpt EXCEPT ![s][q].status = "RUNNING", ![s][q].attempt = @ + 1]
    BY <1>8 DEF WorkerClaim
  <2> QED BY <1>0, <2>1, <2>2
<1>9. ASSUME NEW t \in tasks, NEW m \in Result, NEW sent \in BOOLEAN,
             WorkerFinish(t, m, sent)
      PROVE  ckpt'[r][p] = ckpt[r][p]
  <2>1. CASE ckpt' = ckpt
    BY <2>1
  <2>2. CASE ckpt[t.run][t.part].status = "RUNNING"
    <3>1. ~(t.run = r /\ t.part = p) /\ t.run \in Runs /\ t.part \in Parts
      BY <2>2, SMTT(30) DEF TypeOK, Task
    <3>2. CASE ckpt' = [ckpt EXCEPT
                          ![t.run][t.part].status =
                              IF m.status = "SUCCEEDED" THEN "COMPLETE" ELSE "FAILED",
                          ![t.run][t.part].warned = @ \/ m.warned]
      BY <1>0, <3>1, <3>2, SMTT(30)
    <3>3. \/ ckpt' = ckpt
          \/ ckpt' = [ckpt EXCEPT
                        ![t.run][t.part].status =
                            IF m.status = "SUCCEEDED" THEN "COMPLETE" ELSE "FAILED",
                        ![t.run][t.part].warned = @ \/ m.warned]
      BY <1>9 DEF WorkerFinish
    <3> QED BY <2>1, <3>2, <3>3
  <2>3. ckpt[t.run][t.part].status # "RUNNING" => ckpt' = ckpt
    BY <1>9 DEF WorkerFinish
  <2> QED BY <2>1, <2>2, <2>3
<1>10. CASE Worker
  BY <1>8, <1>9, <1>10 DEF Worker, WorkerIgnore
<1>11. CASE UNCHANGED ckpt
  BY <1>11
<1>12. ASSUME NEW c \in Controllers, NEW h \in Handlers, BreakDeadlock(c, h)
       PROVE  UNCHANGED ckpt
  BY <1>12 DEF BreakDeadlock, ControllerRestart, ResultRollback
<1>13. ASSUME NEW c \in Controllers, Outbox(c) \/ ControllerRestart(c)
       PROVE  UNCHANGED ckpt
  BY <1>13 DEF Outbox, OutboxClaim, OutboxNothing, OutboxPublish, OutboxPublishFails,
     OutboxMark, ControllerRestart
<1> QED BY <1>1, <1>5, <1>7, <1>10, <1>11, <1>12, <1>13 DEF Next, vars

\* A COMPLETE checkpoint is neither dispatched again nor failed.
THEOREM CompleteCorrect == Spec => CompleteIsFinal
<1>1. IInv /\ [Next]_vars
        => [\A r \in Runs, p \in Parts :
              ckpt[r][p].status = "COMPLETE" => ckpt'[r][p].status = "COMPLETE"]_vars
  BY CompleteStep
<1> QED BY <1>1, Invariance, PTL DEF Spec, CompleteIsFinal
=============================================================================
