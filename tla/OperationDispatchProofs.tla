---------------------- MODULE OperationDispatchProofs ----------------------
(***************************************************************************)
(* What holds of OperationDispatch for any number of operations, outbox    *)
(* workers and result workers.                                             *)
(***************************************************************************)
EXTENDS OperationDispatch, TLAPS

-----------------------------------------------------------------------------
(* The inductive invariant.                                                *)

\* FOR UPDATE: one result worker has the row of an operation.
LocksExclusive ==
    \A g, h \in ResultWorkers :
        /\ handler[g].pc = "locked"
        /\ handler[h].pc = "locked"
        /\ handler[g].msg.op = handler[h].msg.op
        => g = h

\* What a result worker found before its commit still holds at the commit.
AcceptedStands ==
    \A h \in ResultWorkers :
        handler[h].pc = "locked" /\ handler[h].accepted => Accepts(handler[h].msg.op)

\* Operation and event are inserted together; workers hold events that exist.
Known ==
    /\ \A o \in Ops : event[o] = "NONE" <=> op[o].status = "NONE"
    /\ \A w \in OutboxWorkers :
        outbox[w].pc \in {"publish", "mark"} => event[outbox[w].op] # "NONE"

\* Messages are about operations that exist.
MessagesExist ==
    /\ \A o \in dispatchQ \cup legacy : op[o].status # "NONE"
    /\ \A m \in resultQ : op[m.op].status # "NONE"
    /\ \A h \in ResultWorkers :
        handler[h].pc = "locked" => op[handler[h].msg.op].status # "NONE"

\* NoLostDispatch is not inductive: a worker that marks an event PROCESSED
\* relies on the message it, or the worker it took the event from, has sent.
MarkIsBacked ==
    \A w \in OutboxWorkers :
        outbox[w].pc = "mark" /\ op[outbox[w].op].status \in Waiting =>
            outbox[w].op \in dispatchQ

\* Only the fast worker takes leases, and only of fast operations.
SyncHasNoLease == \A o \in SyncOps : op[o].lease = "none"

\* The rows of a preview come with the end of the operation.
PreviewIsOutcome ==
    \A o \in FastOps : preview[o] \in {"ROWS", "EXPIRED"} => op[o].status \in Outcome

IInv ==
    /\ TypeOK
    /\ LocksExclusive /\ AcceptedStands
    /\ Known /\ MessagesExist /\ MarkIsBacked /\ NoLostDispatch
    /\ SyncHasNoLease /\ LeaseIsRespected
    /\ RunFollowsOperation /\ PreviewIsOutcome

-----------------------------------------------------------------------------
(* What the types say of a row, and of a process at each place.            *)

LEMMA RowTypes ==
    ASSUME TypeOK, NEW o \in Ops
    PROVE  /\ op[o] = [status |-> op[o].status, lease |-> op[o].lease]
           /\ op[o].status \in OpStatus /\ op[o].lease \in Lease
           /\ event[o] \in EventStatus
BY DEF TypeOK

LEMMA OutboxTypes ==
    ASSUME TypeOK, NEW w \in OutboxWorkers, outbox[w].pc \in {"publish", "mark"}
    PROVE  outbox[w].op \in Ops /\ outbox[w] = [pc |-> outbox[w].pc, op |-> outbox[w].op]
BY DEF TypeOK, OutboxState

LEMMA HandlerTypes ==
    ASSUME TypeOK, NEW h \in ResultWorkers, handler[h].pc = "locked"
    PROVE  handler[h].msg \in Result /\ handler[h].accepted \in BOOLEAN
BY DEF TypeOK, HandlerState

\* Rows are not deleted.
LEMMA MessagesStayExisting ==
    ASSUME IInv, UNCHANGED <<handler, legacy, resultQ>>,
           \A o \in dispatchQ' : o \in dispatchQ \/ op[o].status # "NONE",
           dispatchQ' \subseteq Ops,
           \A o \in Ops : op[o].status # "NONE" => op'[o].status # "NONE"
    PROVE  MessagesExist'
<1>1. /\ \A o \in dispatchQ \cup legacy : o \in Ops
      /\ \A m \in resultQ : m.op \in Ops
      /\ \A h \in ResultWorkers : handler[h].pc = "locked" => handler[h].msg.op \in Ops
  BY HandlerTypes DEF IInv, TypeOK, Result
<1> QED
  BY <1>1 DEF IInv, MessagesExist

LEMMA InitHolds == Init => IInv
<1> SUFFICES ASSUME Init PROVE IInv
  OBVIOUS
<1>1. TypeOK
  BY DEF Init, TypeOK, OpStatus, Lease, RunStatus, EventStatus, OutboxState, HandlerState, Idle
<1>2. LocksExclusive /\ AcceptedStands
  BY DEF Init, LocksExclusive, AcceptedStands, Idle
<1>3. Known /\ MessagesExist /\ MarkIsBacked /\ NoLostDispatch
  BY DEF Init, Known, MessagesExist, MarkIsBacked, NoLostDispatch, Idle, Waiting
<1>4. SyncHasNoLease /\ LeaseIsRespected /\ PreviewIsOutcome
  BY DEF Init, SyncHasNoLease, LeaseIsRespected, PreviewIsOutcome, Ops
<1>5. RunFollowsOperation
  BY DEF Init, RunFollowsOperation, Ops
<1> QED
  BY <1>1, <1>2, <1>3, <1>4, <1>5 DEF IInv

-----------------------------------------------------------------------------
(* The outbox worker.                                                      *)

LEMMA CreateStep ==
    ASSUME IInv, NEW o \in Ops, Create(o)
    PROVE  IInv'
<1>1. /\ op[o].status = "NONE" /\ event[o] = "NONE"
      /\ op'[o] = [status |-> "QUEUED", lease |-> op[o].lease]
      /\ event'[o] = "PENDING"
      /\ \A p \in Ops : p # o => op'[p] = op[p] /\ event'[p] = event[p]
  BY RowTypes DEF Create, IInv, TypeOK, Known
<1>2. /\ o \in SyncOps => run'[o] = "ACTIVE"
      /\ \A p \in SyncOps : p # o => run'[p] = run[p]
  BY DEF Create, IInv, TypeOK
<1>3. TypeOK'
  <2>1. op' \in [Ops -> [status : OpStatus, lease : Lease]]
    BY RowTypes DEF Create, IInv, TypeOK, OpStatus
  <2>2. run' \in [SyncOps -> RunStatus]
    BY DEF Create, IInv, TypeOK, RunStatus
  <2>3. event' \in [Ops -> EventStatus]
    BY DEF Create, IInv, TypeOK, EventStatus
  <2> QED
    BY <2>1, <2>2, <2>3 DEF Create, IInv, TypeOK
<1>4. LocksExclusive'
  BY DEF Create, IInv, LocksExclusive
<1>5. AcceptedStands'
  BY <1>1, HandlerTypes DEF Create, IInv, AcceptedStands, Accepts, Outcome, Result
<1>6. Known'
  <2>1. \A w \in OutboxWorkers : outbox[w].pc \in {"publish", "mark"} => outbox[w].op \in Ops
    BY OutboxTypes DEF IInv
  <2> QED
    BY <1>1, <2>1 DEF Create, IInv, Known
<1>7. MarkIsBacked'
  BY <1>1, OutboxTypes DEF Create, IInv, MarkIsBacked, Known
<1>8. NoLostDispatch'
  BY <1>1 DEF Create, IInv, NoLostDispatch, Claimable
<1>9. SyncHasNoLease' /\ LeaseIsRespected' /\ PreviewIsOutcome'
  BY <1>1 DEF Create, IInv, SyncHasNoLease, LeaseIsRespected, PreviewIsOutcome, Outcome, Ops
<1>10. RunFollowsOperation'
  BY <1>1, <1>2 DEF IInv, RunFollowsOperation, Outcome, Ops
<1>11. MessagesExist'
  BY <1>1, <1>3, MessagesStayExisting DEF Create, TypeOK
<1> QED
  BY <1>3, <1>4, <1>5, <1>6, <1>7, <1>8, <1>9, <1>10, <1>11 DEF IInv

LEMMA ClaimStep ==
    ASSUME IInv, NEW w \in OutboxWorkers, NEW o \in Ops, Claim(w, o)
    PROVE  IInv'
<1>1. /\ event[o] \in Claimable /\ event'[o] = "PROCESSING"
      /\ \A p \in Ops : p # o => event'[p] = event[p]
      /\ outbox'[w] = [pc |-> "publish", op |-> o]
      /\ \A v \in OutboxWorkers : v # w => outbox'[v] = outbox[v]
  BY DEF Claim, IInv, TypeOK
<1>2. TypeOK'
  <2>1. event' \in [Ops -> EventStatus]
    BY DEF Claim, IInv, TypeOK, EventStatus
  <2>2. outbox' \in [OutboxWorkers -> OutboxState]
    BY DEF Claim, IInv, TypeOK, OutboxState
  <2> QED
    BY <2>1, <2>2 DEF Claim, IInv, TypeOK
<1>3. Known'
  <2>1. \A v \in OutboxWorkers : outbox[v].pc \in {"publish", "mark"} => outbox[v].op \in Ops
    BY OutboxTypes DEF IInv
  <2> QED
    BY <1>1, <2>1 DEF Claim, IInv, Known, Claimable
<1>4. MarkIsBacked'
  BY <1>1 DEF Claim, IInv, MarkIsBacked
<1>5. NoLostDispatch'
  BY <1>1 DEF Claim, IInv, NoLostDispatch, Claimable
<1>6. LocksExclusive' /\ AcceptedStands'
  BY DEF Claim, IInv, LocksExclusive, AcceptedStands, Accepts
<1>7. SyncHasNoLease' /\ LeaseIsRespected' /\ RunFollowsOperation' /\ PreviewIsOutcome'
  BY DEF Claim, IInv, SyncHasNoLease, LeaseIsRespected, RunFollowsOperation, PreviewIsOutcome
<1>8. MessagesExist'
  BY <1>2, MessagesStayExisting DEF Claim, TypeOK
<1> QED
  BY <1>2, <1>3, <1>4, <1>5, <1>6, <1>7, <1>8 DEF IInv

LEMMA PublishStep ==
    ASSUME IInv, NEW w \in OutboxWorkers, Publish(w)
    PROVE  IInv'
<1> DEFINE o == outbox[w].op
<1>1. /\ o \in Ops
      /\ outbox'[w] = [pc |-> "mark", op |-> o]
      /\ \A v \in OutboxWorkers : v # w => outbox'[v] = outbox[v]
      /\ dispatchQ' = dispatchQ \cup {o}
  <2>1. o \in Ops /\ outbox[w] = [pc |-> "publish", op |-> o]
    BY OutboxTypes DEF Publish, IInv
  <2>2. [outbox[w] EXCEPT !.pc = "mark"] = [pc |-> "mark", op |-> o]
    <3> HIDE DEF o
    <3> QED
      BY <2>1
  <2>3. outbox' = [outbox EXCEPT ![w] = [outbox[w] EXCEPT !.pc = "mark"]]
    BY DEF Publish
  <2> QED
    BY <2>1, <2>2, <2>3 DEF Publish, IInv, TypeOK
<1>2. TypeOK'
  <2>1. outbox' \in [OutboxWorkers -> OutboxState]
    BY <1>1 DEF Publish, IInv, TypeOK, OutboxState
  <2> QED
    BY <1>1, <2>1 DEF Publish, IInv, TypeOK
<1>3. Known'
  BY <1>1 DEF Publish, IInv, Known
<1>4. MarkIsBacked' /\ NoLostDispatch'
  BY <1>1 DEF Publish, IInv, MarkIsBacked, NoLostDispatch
<1>5. LocksExclusive' /\ AcceptedStands'
  BY DEF Publish, IInv, LocksExclusive, AcceptedStands, Accepts
<1>6. SyncHasNoLease' /\ LeaseIsRespected' /\ RunFollowsOperation' /\ PreviewIsOutcome'
  BY DEF Publish, IInv, SyncHasNoLease, LeaseIsRespected, RunFollowsOperation, PreviewIsOutcome
<1>7. MessagesExist'
  <2>1. op[o].status # "NONE"
    BY <1>1 DEF Publish, IInv, Known
  <2>2. UNCHANGED <<op, handler, legacy, resultQ>>
    BY DEF Publish
  <2>3. dispatchQ' \subseteq Ops
    BY <1>2 DEF TypeOK
  <2> HIDE DEF o
  <2> QED
    BY <1>1, <2>1, <2>2, <2>3, MessagesStayExisting
<1> QED
  BY <1>2, <1>3, <1>4, <1>5, <1>6, <1>7 DEF IInv

LEMMA PublishFailsStep ==
    ASSUME IInv, NEW w \in OutboxWorkers, PublishFails(w)
    PROVE  IInv'
<1> DEFINE o == outbox[w].op
<1>1. /\ o \in Ops
      /\ outbox'[w] = Idle
      /\ \A v \in OutboxWorkers : v # w => outbox'[v] = outbox[v]
      /\ event[o] # "NONE" /\ event'[o] = "FAILED"
      /\ \A p \in Ops : p # o => event'[p] = event[p]
  BY OutboxTypes DEF PublishFails, AfterFailure, IInv, TypeOK, Known
<1>2. TypeOK'
  BY <1>1 DEF PublishFails, AfterFailure, IInv, TypeOK, EventStatus, OutboxState, Idle
<1>3. Known'
  <2>1. \A v \in OutboxWorkers : outbox[v].pc \in {"publish", "mark"} => outbox[v].op \in Ops
    BY OutboxTypes DEF IInv
  <2> QED
    BY <1>1, <2>1 DEF PublishFails, IInv, Known, Idle
<1>4. MarkIsBacked' /\ NoLostDispatch'
  BY <1>1 DEF PublishFails, IInv, MarkIsBacked, NoLostDispatch, Claimable, Idle
<1>5. LocksExclusive' /\ AcceptedStands'
  BY DEF PublishFails, IInv, LocksExclusive, AcceptedStands, Accepts
<1>6. SyncHasNoLease' /\ LeaseIsRespected' /\ RunFollowsOperation' /\ PreviewIsOutcome'
  BY DEF PublishFails, IInv, SyncHasNoLease, LeaseIsRespected, RunFollowsOperation, PreviewIsOutcome
<1>7. MessagesExist'
  BY <1>2, MessagesStayExisting DEF PublishFails, TypeOK
<1> QED
  BY <1>2, <1>3, <1>4, <1>5, <1>6, <1>7 DEF IInv

LEMMA MarkStep ==
    ASSUME IInv, NEW w \in OutboxWorkers, Mark(w)
    PROVE  IInv'
<1> DEFINE o == outbox[w].op
<1>1. /\ o \in Ops /\ ~Locked(o)
      /\ outbox[w].pc = "mark" /\ outbox'[w] = Idle
      /\ \A v \in OutboxWorkers : v # w => outbox'[v] = outbox[v]
      /\ event[o] # "NONE" /\ event'[o] = "PROCESSED"
      /\ \A p \in Ops : p # o => event'[p] = event[p] /\ op'[p] = op[p]
      /\ op'[o] = Marked(op[o])
  BY OutboxTypes DEF Mark, IInv, TypeOK, Known
<1>2. /\ op'[o].lease = op[o].lease
      /\ op'[o].status = IF op[o].status = "QUEUED" THEN "DISPATCHED" ELSE op[o].status
      /\ op'[o] \in [status : OpStatus, lease : Lease]
  BY <1>1, RowTypes DEF Marked, IInv, TypeOK, OpStatus
<1>3. TypeOK'
  BY <1>1, <1>2 DEF Mark, IInv, TypeOK, EventStatus, OutboxState, Idle
<1>4. Known'
  <2>1. \A v \in OutboxWorkers : outbox[v].pc \in {"publish", "mark"} => outbox[v].op \in Ops
    BY OutboxTypes DEF IInv
  <2> QED
    BY <1>1, <1>2, <2>1 DEF Mark, IInv, Known, Idle
<1>5. MarkIsBacked'
  <2>1. \A v \in OutboxWorkers : outbox[v].pc = "mark" => outbox[v].op \in Ops
    BY OutboxTypes DEF IInv
  <2> QED
    BY <1>1, <1>2, <2>1 DEF Mark, IInv, MarkIsBacked, Waiting, Idle
<1>6. NoLostDispatch'
  BY <1>1, <1>2 DEF Mark, IInv, NoLostDispatch, MarkIsBacked, Waiting
<1>7. LocksExclusive' /\ AcceptedStands'
  <2>1. \A h \in ResultWorkers : handler[h].pc = "locked" =>
            handler[h].msg.op \in Ops /\ handler[h].msg.op # o
    BY <1>1, HandlerTypes DEF Locked, IInv, Result
  <2> QED
    BY <1>1, <2>1 DEF Mark, IInv, LocksExclusive, AcceptedStands, Accepts
<1>8. SyncHasNoLease' /\ LeaseIsRespected' /\ PreviewIsOutcome'
  BY <1>1, <1>2 DEF Mark, IInv, SyncHasNoLease, LeaseIsRespected, PreviewIsOutcome, Outcome, Ops
<1>9. RunFollowsOperation'
  BY <1>1, <1>2 DEF Mark, IInv, RunFollowsOperation, Outcome, Ops
<1>10. MessagesExist'
  BY <1>1, <1>2, <1>3, MessagesStayExisting DEF Mark, TypeOK
<1> QED
  BY <1>3, <1>4, <1>5, <1>6, <1>7, <1>8, <1>9, <1>10 DEF IInv

LEMMA OutboxRestartStep ==
    ASSUME IInv, NEW w \in OutboxWorkers, OutboxRestart(w)
    PROVE  IInv'
<1>1. /\ outbox'[w] = Idle
      /\ \A v \in OutboxWorkers : v # w => outbox'[v] = outbox[v]
  BY DEF OutboxRestart, IInv, TypeOK
<1>2. TypeOK'
  BY DEF OutboxRestart, IInv, TypeOK, OutboxState, Idle
<1>3. Known' /\ MarkIsBacked' /\ NoLostDispatch'
  BY <1>1 DEF OutboxRestart, IInv, Known, MarkIsBacked, NoLostDispatch, Idle
<1>4. LocksExclusive' /\ AcceptedStands'
  BY DEF OutboxRestart, IInv, LocksExclusive, AcceptedStands, Accepts
<1>5. SyncHasNoLease' /\ LeaseIsRespected' /\ RunFollowsOperation' /\ PreviewIsOutcome'
  BY DEF OutboxRestart, IInv, SyncHasNoLease, LeaseIsRespected, RunFollowsOperation, PreviewIsOutcome
<1>6. MessagesExist'
  BY <1>2, MessagesStayExisting DEF OutboxRestart, TypeOK
<1> QED
  BY <1>2, <1>3, <1>4, <1>5, <1>6 DEF IInv

LEMMA CleanupStep ==
    ASSUME IInv, Cleanup
    PROVE  IInv'
<1>1. \A o \in FastOps : preview'[o] = preview[o] \/ (preview[o] = "ROWS" /\ preview'[o] = "EXPIRED")
  BY DEF Cleanup
<1>2. TypeOK'
  BY DEF Cleanup, IInv, TypeOK
<1>3. PreviewIsOutcome'
  BY <1>1 DEF Cleanup, IInv, PreviewIsOutcome
<1>4. Known' /\ MarkIsBacked' /\ NoLostDispatch' /\ LocksExclusive' /\ AcceptedStands'
  BY DEF Cleanup, IInv, Known, MarkIsBacked, NoLostDispatch, LocksExclusive, AcceptedStands, Accepts
<1>5. SyncHasNoLease' /\ LeaseIsRespected' /\ RunFollowsOperation'
  BY DEF Cleanup, IInv, SyncHasNoLease, LeaseIsRespected, RunFollowsOperation
<1>6. MessagesExist'
  BY <1>2, MessagesStayExisting DEF Cleanup, TypeOK
<1> QED
  BY <1>2, <1>3, <1>4, <1>5, <1>6 DEF IInv

-----------------------------------------------------------------------------
(* The result worker.                                                      *)

LEMMA ResultLockStep ==
    ASSUME IInv, NEW h \in ResultWorkers, NEW msg \in resultQ, ResultLock(h, msg)
    PROVE  IInv'
<1>1. /\ handler'[h] = [pc |-> "locked", msg |-> msg, accepted |-> Accepts(msg.op)]
      /\ \A g \in ResultWorkers : g # h => handler'[g] = handler[g]
      /\ \A g \in ResultWorkers : handler[g].pc = "locked" => handler[g].msg.op # msg.op
  BY DEF ResultLock, Locked, IInv, TypeOK
<1>2. msg \in Result /\ Accepts(msg.op) \in BOOLEAN
  BY DEF IInv, TypeOK, Accepts
<1>3. TypeOK'
  <2>1. handler' \in [ResultWorkers -> HandlerState]
    BY <1>2 DEF ResultLock, IInv, TypeOK, HandlerState
  <2> QED
    BY <2>1 DEF ResultLock, IInv, TypeOK
<1>4. LocksExclusive'
  BY <1>1 DEF IInv, LocksExclusive
<1>5. AcceptedStands'
  <2>1. \A o : Accepts(o)' = Accepts(o)
    BY DEF ResultLock, Accepts
  <2>2. ASSUME handler'[h].accepted PROVE Accepts(msg.op)
    <3>1. handler'[h].accepted = Accepts(msg.op)
      BY <1>1
    <3> QED
      BY <2>2, <3>1, Zenon
  <2>3. \A g \in ResultWorkers : g # h /\ handler'[g].pc = "locked" /\ handler'[g].accepted =>
            Accepts(handler'[g].msg.op)
    BY <1>1 DEF IInv, AcceptedStands
  <2>4. handler'[h].msg = msg
    BY <1>1
  <2>5. ASSUME NEW g \in ResultWorkers, (handler[g].pc = "locked" /\ handler[g].accepted)'
        PROVE  Accepts(handler'[g].msg.op)
    <3>1. CASE g = h
      BY <2>2, <2>4, <2>5, <3>1, Zenon
    <3>2. CASE g # h
      BY <2>3, <2>5, <3>2, Zenon
    <3> QED
      BY <3>1, <3>2
  <2> QED
    BY <2>1, <2>5, Zenon DEF AcceptedStands
<1>6. Known' /\ MarkIsBacked' /\ NoLostDispatch'
  BY DEF ResultLock, IInv, Known, MarkIsBacked, NoLostDispatch
<1>7. SyncHasNoLease' /\ LeaseIsRespected' /\ RunFollowsOperation' /\ PreviewIsOutcome'
  BY DEF ResultLock, IInv, SyncHasNoLease, LeaseIsRespected, RunFollowsOperation, PreviewIsOutcome
<1>8. MessagesExist'
  <2>1. op[msg.op].status # "NONE"
    BY DEF IInv, MessagesExist
  <2> QED
    BY <1>1, <2>1 DEF ResultLock, IInv, MessagesExist
<1> QED
  BY <1>3, <1>4, <1>5, <1>6, <1>7, <1>8 DEF IInv

\* An accepted result finds the row as it was when it was locked.
LEMMA ResultCommitStep ==
    ASSUME IInv, NEW h \in ResultWorkers, ResultCommit(h)
    PROVE  IInv'
<1> DEFINE msg == handler[h].msg
           o == msg.op
<1>1. /\ handler[h].pc = "locked" /\ msg \in Result /\ o \in Ops /\ msg.status \in Outcome
      /\ handler'[h] = Idle
      /\ \A g \in ResultWorkers : g # h => handler'[g] = handler[g]
      /\ outbox' = outbox /\ event' = event /\ dispatchQ' = dispatchQ
  BY HandlerTypes DEF ResultCommit, IInv, TypeOK, Result
<1>2. resultQ' \subseteq Result /\ UNCHANGED legacy
  BY DEF ResultCommit, IInv, TypeOK
<1>3. \A g \in ResultWorkers : g # h /\ handler[g].pc = "locked" =>
          handler[g].msg.op \in Ops /\ handler[g].msg.op # o
  BY <1>1, HandlerTypes DEF IInv, LocksExclusive, Result
<1>4. LocksExclusive'
  BY <1>1 DEF IInv, LocksExclusive, Idle
<1>5. handler' \in [ResultWorkers -> HandlerState]
  BY DEF ResultCommit, IInv, TypeOK, HandlerState, Idle
<1>8. ASSUME \A p \in Ops : op[p].status # "NONE" => op'[p].status # "NONE"
      PROVE  MessagesExist'
  <2>1. /\ \A p \in dispatchQ \cup legacy : p \in Ops
        /\ \A m \in resultQ : m.op \in Ops
        /\ resultQ' \subseteq resultQ
    BY DEF ResultCommit, IInv, TypeOK, Result
  <2> QED
    BY <1>1, <1>2, <1>3, <1>8, <2>1 DEF IInv, MessagesExist, Idle
<1>6. CASE ~handler[h].accepted
  <2>1. op' = op /\ run' = run /\ preview' = preview
    BY <1>6 DEF ResultCommit
  <2>2. TypeOK'
    BY <1>1, <1>2, <1>5, <2>1 DEF IInv, TypeOK
  <2>3. AcceptedStands'
    BY <1>1, <2>1 DEF IInv, AcceptedStands, Accepts, Idle
  <2>4. Known' /\ MarkIsBacked' /\ NoLostDispatch'
    BY <1>1, <2>1 DEF IInv, Known, MarkIsBacked, NoLostDispatch
  <2>5. SyncHasNoLease' /\ LeaseIsRespected' /\ RunFollowsOperation' /\ PreviewIsOutcome'
    BY <2>1 DEF IInv, SyncHasNoLease, LeaseIsRespected, RunFollowsOperation, PreviewIsOutcome
  <2> QED
    BY <1>4, <1>8, <2>1, <2>2, <2>3, <2>4, <2>5 DEF IInv
<1>7. CASE handler[h].accepted
  <2>1. Accepts(o)
    BY <1>1, <1>7 DEF IInv, AcceptedStands
  <2>2. /\ op'[o] = [status |-> msg.status, lease |-> op[o].lease]
        /\ \A p \in Ops : p # o => op'[p] = op[p]
        /\ op' \in [Ops -> [status : OpStatus, lease : Lease]]
    <3>1. op' = [op EXCEPT ![o].status = msg.status]
      BY <1>7 DEF ResultCommit
    <3>2. op[o] \in [status : OpStatus, lease : Lease]
      BY <1>1 DEF IInv, TypeOK
    <3>3. msg.status \in OpStatus
      BY <1>1 DEF OpStatus
    <3> HIDE DEF o, msg
    <3> QED
      BY <1>1, <3>1, <3>2, <3>3 DEF IInv, TypeOK
  <2>3. /\ \A p \in SyncOps : run'[p] = IF p = o THEN msg.status ELSE run[p]
        /\ run' \in [SyncOps -> RunStatus]
    BY <1>1, <1>7 DEF ResultCommit, RunEnded, IInv, TypeOK, RunStatus
  <2>4. /\ \A p \in FastOps : preview'[p] = IF p = o THEN "METRICS" ELSE preview[p]
        /\ preview' \in [FastOps -> {"NONE", "METRICS", "ROWS", "EXPIRED"}]
    BY <1>1, <1>7 DEF ResultCommit, IInv, TypeOK
  <2>5. TypeOK'
    BY <1>1, <1>2, <1>5, <2>2, <2>3, <2>4 DEF IInv, TypeOK
  <2>6. AcceptedStands'
    BY <1>1, <1>3, <2>2 DEF IInv, AcceptedStands, Accepts, Idle
  <2>7. SyncHasNoLease' /\ LeaseIsRespected' /\ PreviewIsOutcome'
    BY <1>1, <2>1, <2>2, <2>4
    DEF IInv, SyncHasNoLease, LeaseIsRespected, PreviewIsOutcome, Accepts, Ops
  <2>8. RunFollowsOperation'
    BY <1>1, <2>2, <2>3 DEF IInv, RunFollowsOperation, Outcome, Ops
  <2>9. MarkIsBacked' /\ NoLostDispatch'
    <3>1. \A w \in OutboxWorkers : outbox[w].pc = "mark" => outbox[w].op \in Ops
      BY OutboxTypes DEF IInv
    <3>2. op'[o].status \notin Waiting
      BY <1>1, <2>2 DEF Waiting, Outcome
    <3> QED
      BY <1>1, <2>2, <3>1, <3>2 DEF IInv, MarkIsBacked, NoLostDispatch
  <2>10. Known'
    <3>1. op[o].status # "NONE" /\ op'[o].status # "NONE"
      BY <1>1, <2>2 DEF IInv, MessagesExist, Outcome
    <3> QED
      BY <1>1, <2>2, <3>1 DEF IInv, Known
  <2>11. MessagesExist'
    BY <1>1, <1>8, <2>2 DEF Outcome
  <2> QED
    BY <1>4, <2>5, <2>6, <2>7, <2>8, <2>9, <2>10, <2>11 DEF IInv
<1> QED
  BY <1>6, <1>7

-----------------------------------------------------------------------------
(* The external workers.                                                   *)

LEMMA FastClaimStep ==
    ASSUME IInv, NEW o \in Ops, FastClaim(o)
    PROVE  IInv'
<1>1. /\ o \in FastOps /\ o \notin SyncOps /\ ~Locked(o)
      /\ op[o].status \in {"QUEUED", "DISPATCHED", "RUNNING"}
      /\ op'[o] = [status |-> "RUNNING", lease |-> "held"]
      /\ \A p \in Ops : p # o => op'[p] = op[p]
  BY TypesAssumption DEF FastClaim, Waiting, IInv, TypeOK
<1>2. TypeOK'
  BY DEF FastClaim, IInv, TypeOK, OpStatus, Lease
<1>3. LocksExclusive' /\ AcceptedStands'
  <2>1. \A h \in ResultWorkers : handler[h].pc = "locked" =>
            handler[h].msg.op \in Ops /\ handler[h].msg.op # o
    BY <1>1, HandlerTypes DEF Locked, IInv, Result
  <2> QED
    BY <1>1, <2>1 DEF FastClaim, IInv, LocksExclusive, AcceptedStands, Accepts
<1>4. Known' /\ NoLostDispatch'
  BY <1>1 DEF FastClaim, IInv, Known, NoLostDispatch, Waiting
<1>5. MarkIsBacked'
  BY <1>1, OutboxTypes DEF FastClaim, IInv, MarkIsBacked, Waiting
<1>6. MessagesExist'
  BY <1>1, <1>2, MessagesStayExisting DEF FastClaim, TypeOK
<1>7. SyncHasNoLease' /\ LeaseIsRespected' /\ PreviewIsOutcome'
  BY <1>1 DEF FastClaim, IInv, SyncHasNoLease, LeaseIsRespected, PreviewIsOutcome, Outcome, Ops
<1>8. RunFollowsOperation'
  BY <1>1 DEF FastClaim, IInv, RunFollowsOperation, Ops
<1> QED
  BY <1>2, <1>3, <1>4, <1>5, <1>6, <1>7, <1>8 DEF IInv

LEMMA LeaseExpiresStep ==
    ASSUME IInv, NEW o \in Ops, LeaseExpires(o)
    PROVE  IInv'
<1>1. /\ op[o].lease = "held" /\ o \notin SyncOps
      /\ op'[o].status = op[o].status /\ op'[o].lease = "expired"
      /\ \A p \in Ops : p # o => op'[p] = op[p]
  BY RowTypes DEF LeaseExpires, IInv, TypeOK, SyncHasNoLease
<1>2. TypeOK'
  <2>1. op' \in [Ops -> [status : OpStatus, lease : Lease]]
    BY RowTypes DEF LeaseExpires, IInv, TypeOK, Lease
  <2> QED
    BY <2>1 DEF LeaseExpires, IInv, TypeOK
<1>3. LocksExclusive' /\ AcceptedStands'
  <2>1. \A h \in ResultWorkers : handler[h].pc = "locked" => handler[h].msg.op \in Ops
    BY HandlerTypes DEF IInv, Result
  <2> QED
    BY <1>1, <2>1 DEF LeaseExpires, IInv, LocksExclusive, AcceptedStands, Accepts
<1>4. Known' /\ NoLostDispatch'
  BY <1>1 DEF LeaseExpires, IInv, Known, NoLostDispatch
<1>5. MarkIsBacked'
  BY <1>1, OutboxTypes DEF LeaseExpires, IInv, MarkIsBacked
<1>6. MessagesExist'
  BY <1>1, <1>2, MessagesStayExisting DEF LeaseExpires, TypeOK
<1>7. SyncHasNoLease' /\ LeaseIsRespected' /\ PreviewIsOutcome'
  BY <1>1 DEF LeaseExpires, IInv, SyncHasNoLease, LeaseIsRespected, PreviewIsOutcome, Ops
<1>8. RunFollowsOperation'
  BY <1>1 DEF LeaseExpires, IInv, RunFollowsOperation, Ops
<1> QED
  BY <1>2, <1>3, <1>4, <1>5, <1>6, <1>7, <1>8 DEF IInv

LEMMA FastFinishStep ==
    ASSUME IInv, NEW o \in Ops, FastFinish(o)
    PROVE  IInv'
<1> PICK status \in Outcome :
        /\ op' = [op EXCEPT ![o] = [status |-> status, lease |-> "none"]]
        /\ preview' = [preview EXCEPT ![o] = IF status = "SUCCEEDED" THEN "ROWS" ELSE "NONE"]
  BY DEF FastFinish
<1>1. /\ o \in FastOps /\ o \notin SyncOps /\ ~Locked(o)
      /\ op[o].status = "RUNNING"
      /\ op'[o] = [status |-> status, lease |-> "none"]
      /\ \A p \in Ops : p # o => op'[p] = op[p]
  BY DEF FastFinish, IInv, TypeOK, SyncHasNoLease, Ops
<1>2. TypeOK'
  BY DEF FastFinish, IInv, TypeOK, OpStatus, Lease
<1>3. LocksExclusive' /\ AcceptedStands'
  <2>1. \A h \in ResultWorkers : handler[h].pc = "locked" =>
            handler[h].msg.op \in Ops /\ handler[h].msg.op # o
    BY <1>1, HandlerTypes DEF Locked, IInv, Result
  <2> QED
    BY <1>1, <2>1 DEF FastFinish, IInv, LocksExclusive, AcceptedStands, Accepts
<1>4. Known' /\ NoLostDispatch'
  BY <1>1 DEF FastFinish, IInv, Known, NoLostDispatch, Waiting, Outcome
<1>5. MarkIsBacked'
  BY <1>1, OutboxTypes DEF FastFinish, IInv, MarkIsBacked, Waiting, Outcome
<1>6. MessagesExist'
  BY <1>1, <1>2, MessagesStayExisting DEF FastFinish, TypeOK, Outcome
<1>7. SyncHasNoLease' /\ LeaseIsRespected' /\ PreviewIsOutcome'
  BY <1>1 DEF FastFinish, IInv, TypeOK, SyncHasNoLease, LeaseIsRespected, PreviewIsOutcome, Ops
<1>8. RunFollowsOperation'
  BY <1>1 DEF FastFinish, IInv, RunFollowsOperation, Ops
<1> QED
  BY <1>2, <1>3, <1>4, <1>5, <1>6, <1>7, <1>8 DEF IInv

LEMMA LegacyClaimStep ==
    ASSUME IInv, NEW o \in Ops, LegacyClaim(o)
    PROVE  IInv'
<1>1. /\ o \in dispatchQ /\ ~Locked(o) /\ op[o].status \in {"QUEUED", "DISPATCHED"}
      /\ op'[o].status = "RUNNING" /\ op'[o].lease = op[o].lease
      /\ \A p \in Ops : p # o => op'[p] = op[p]
      /\ dispatchQ' = dispatchQ \ {o} /\ legacy' = legacy \cup {o}
  BY RowTypes DEF LegacyClaim, Waiting, IInv, TypeOK
<1>2. TypeOK'
  <2>1. op' \in [Ops -> [status : OpStatus, lease : Lease]]
    BY RowTypes DEF LegacyClaim, IInv, TypeOK, OpStatus
  <2> QED
    BY <2>1 DEF LegacyClaim, IInv, TypeOK
<1>3. LocksExclusive' /\ AcceptedStands'
  <2>1. \A h \in ResultWorkers : handler[h].pc = "locked" =>
            handler[h].msg.op \in Ops /\ handler[h].msg.op # o
    BY <1>1, HandlerTypes DEF Locked, IInv, Result
  <2> QED
    BY <1>1, <2>1 DEF LegacyClaim, IInv, LocksExclusive, AcceptedStands, Accepts
<1>4. Known' /\ NoLostDispatch'
  BY <1>1 DEF LegacyClaim, IInv, Known, NoLostDispatch, Waiting
<1>5. MarkIsBacked'
  BY <1>1, OutboxTypes DEF LegacyClaim, IInv, MarkIsBacked, Waiting
<1>6. MessagesExist'
  <2>1. /\ \A p \in dispatchQ \cup legacy : p \in Ops
        /\ \A m \in resultQ : m.op \in Ops
        /\ \A h \in ResultWorkers : handler[h].pc = "locked" => handler[h].msg.op \in Ops
    BY HandlerTypes DEF IInv, TypeOK, Result
  <2> QED
    BY <1>1, <2>1 DEF LegacyClaim, IInv, MessagesExist
<1>7. SyncHasNoLease' /\ LeaseIsRespected' /\ PreviewIsOutcome'
  BY <1>1 DEF LegacyClaim, IInv, SyncHasNoLease, LeaseIsRespected, PreviewIsOutcome, Outcome, Ops
<1>8. RunFollowsOperation'
  BY <1>1 DEF LegacyClaim, IInv, RunFollowsOperation, Outcome, Ops
<1> QED
  BY <1>2, <1>3, <1>4, <1>5, <1>6, <1>7, <1>8 DEF IInv

\* The last steps change messages only.
LEMMA MessageStep ==
    ASSUME IInv, NEW o \in Ops, LegacyFinish(o) \/ DropDuplicate(o) \/ LegacyRefused(o)
    PROVE  IInv'
<1>1. /\ op' = op /\ run' = run /\ preview' = preview /\ event' = event
      /\ outbox' = outbox /\ handler' = handler
      /\ legacy' \subseteq legacy
      /\ dispatchQ' \subseteq dispatchQ
      /\ \A p \in dispatchQ \ dispatchQ' : op[p].status \in {"RUNNING"} \cup Outcome
  BY DEF LegacyFinish, DropDuplicate, LegacyRefused
<1>2. \A m \in resultQ' : m \in resultQ \/ (m \in Result /\ m.op \in dispatchQ \cup legacy)
  BY DEF LegacyFinish, DropDuplicate, LegacyRefused, Result, Outcome
<1>3. TypeOK'
  BY <1>1, <1>2 DEF IInv, TypeOK
<1>4. LocksExclusive' /\ AcceptedStands'
  BY <1>1 DEF IInv, LocksExclusive, AcceptedStands, Accepts
<1>5. NoLostDispatch'
  BY <1>1 DEF IInv, NoLostDispatch, Waiting, Outcome
<1>6. MarkIsBacked'
  BY <1>1, OutboxTypes DEF IInv, MarkIsBacked, Waiting, Outcome
<1>7. MessagesExist' /\ Known'
  BY <1>1, <1>2 DEF IInv, MessagesExist, Known
<1>8. SyncHasNoLease' /\ LeaseIsRespected' /\ RunFollowsOperation' /\ PreviewIsOutcome'
  BY <1>1 DEF IInv, SyncHasNoLease, LeaseIsRespected, RunFollowsOperation, PreviewIsOutcome
<1> QED
  BY <1>3, <1>4, <1>5, <1>6, <1>7, <1>8 DEF IInv

-----------------------------------------------------------------------------
LEMMA StepHolds == IInv /\ [Next]_vars => IInv'
<1> SUFFICES ASSUME IInv, [Next]_vars PROVE IInv'
  OBVIOUS
<1>1. ASSUME NEW o \in Ops, Create(o) \/ Worker(o) PROVE IInv'
  BY <1>1, CreateStep, FastClaimStep, LeaseExpiresStep, FastFinishStep, LegacyClaimStep,
     MessageStep DEF Worker
<1>2. ASSUME NEW w \in OutboxWorkers, Outbox(w) PROVE IInv'
  BY <1>2, ClaimStep, PublishStep, PublishFailsStep, MarkStep, OutboxRestartStep DEF Outbox
<1>3. ASSUME NEW h \in ResultWorkers, HandleResult(h) PROVE IInv'
  <2>1. CASE ResultRollback(h)
    <3>1. /\ handler'[h] = Idle
          /\ \A g \in ResultWorkers : g # h => handler'[g] = handler[g]
      BY <2>1 DEF ResultRollback, IInv, TypeOK
    <3>2. TypeOK'
      BY <2>1 DEF ResultRollback, IInv, TypeOK, HandlerState, Idle
    <3>3. LocksExclusive' /\ AcceptedStands' /\ MessagesExist'
      BY <2>1, <3>1
      DEF ResultRollback, IInv, LocksExclusive, AcceptedStands, Accepts, MessagesExist, Idle
    <3>4. Known' /\ MarkIsBacked' /\ NoLostDispatch'
      BY <2>1 DEF ResultRollback, IInv, Known, MarkIsBacked, NoLostDispatch
    <3>5. SyncHasNoLease' /\ LeaseIsRespected' /\ RunFollowsOperation' /\ PreviewIsOutcome'
      BY <2>1
      DEF ResultRollback, IInv, SyncHasNoLease, LeaseIsRespected, RunFollowsOperation,
          PreviewIsOutcome
    <3> QED
      BY <3>2, <3>3, <3>4, <3>5 DEF IInv
  <2> QED
    BY <1>3, <2>1, ResultLockStep, ResultCommitStep DEF HandleResult
<1>4. CASE Cleanup
  BY <1>4, CleanupStep
<1>5. CASE UNCHANGED vars
  BY <1>5
  DEF vars, IInv, TypeOK, LocksExclusive, AcceptedStands, Accepts, Known, MessagesExist,
      MarkIsBacked, NoLostDispatch, SyncHasNoLease, LeaseIsRespected, RunFollowsOperation,
      PreviewIsOutcome
<1> QED
  BY <1>1, <1>2, <1>3, <1>4, <1>5 DEF Next

LEMMA InvariantHolds == Spec => []IInv
<1> QED
  BY InitHolds, StepHolds, PTL DEF Spec

-----------------------------------------------------------------------------
\* Rows, workers and messages stay what the schema and the code say they are.
THEOREM TypeCorrect == Spec => []TypeOK
<1>1. IInv => TypeOK
  BY DEF IInv
<1> QED
  BY <1>1, InvariantHolds, PTL

\* No operation waits without a message in a queue or an event the outbox will
\* try again (workers/connectors.py:254-293).
THEOREM DispatchCorrect == Spec => []NoLostDispatch
<1>1. IInv => NoLostDispatch
  BY DEF IInv
<1> QED
  BY <1>1, InvariantHolds, PTL

\* No result of the other consumer ends an operation whose lease is held
\* (workers/connectors.py:356-366).
THEOREM LeaseCorrect == Spec => []LeaseIsRespected
<1>1. IInv => LeaseIsRespected
  BY DEF IInv
<1> QED
  BY <1>1, InvariantHolds, PTL

\* The run of a sync is active exactly as long as its operation has not ended,
\* and ends with its outcome (workers/connectors.py:367-375).
THEOREM RunCorrect == Spec => []RunFollowsOperation
<1>1. IInv => RunFollowsOperation
  BY DEF IInv
<1> QED
  BY <1>1, InvariantHolds, PTL

\* A status only moves forward and the first outcome stands
\* (workers/connectors.py:143-153, 354).
THEOREM StatusCorrect == Spec => StatusMovesForward
<1> DEFINE Forward == \A o \in Ops : op'[o].status # op[o].status =>
                          Rank[op'[o].status] > Rank[op[o].status]
<1>1. ASSUME IInv, Next PROVE Forward
  <2>1. ASSUME NEW o \in Ops, Create(o) \/ Worker(o) PROVE Forward
    BY <1>1, <2>1
    DEF Create, Worker, FastClaim, LeaseExpires, FastFinish, LegacyClaim, LegacyFinish,
        DropDuplicate, LegacyRefused, Waiting, Outcome, Rank, IInv, TypeOK
  <2>2. ASSUME NEW w \in OutboxWorkers, Outbox(w) PROVE Forward
    BY <1>1, <2>2
    DEF Outbox, Claim, Publish, PublishFails, Mark, Marked, OutboxRestart, Rank, IInv, TypeOK
  <2>3. ASSUME NEW h \in ResultWorkers, HandleResult(h) PROVE Forward
    <3>1. CASE ResultCommit(h) /\ handler[h].accepted
      <4> DEFINE o == handler[h].msg.op
      <4>1. o \in Ops /\ handler[h].msg.status \in Outcome /\ op[o].status \notin Outcome
        BY <1>1, <3>1, HandlerTypes
        DEF ResultCommit, IInv, AcceptedStands, Accepts, Result
      <4>2. /\ op'[o].status = handler[h].msg.status
            /\ \A p \in Ops : p # o => op'[p] = op[p]
        BY <1>1, <3>1, <4>1 DEF ResultCommit, IInv, TypeOK
      <4>3. op[o].status \in {"NONE", "QUEUED", "DISPATCHED", "RUNNING"}
        BY <1>1, <4>1 DEF IInv, TypeOK, OpStatus
      <4> QED
        BY <4>1, <4>2, <4>3 DEF Outcome, Rank
    <3>2. CASE op' = op
      BY <3>2
    <3> QED
      BY <2>3, <3>1, <3>2 DEF HandleResult, ResultLock, ResultCommit, ResultRollback
  <2>4. CASE Cleanup
    BY <2>4 DEF Cleanup
  <2> QED
    BY <1>1, <2>1, <2>2, <2>3, <2>4 DEF Next
<1>2. ASSUME UNCHANGED vars PROVE Forward
  BY <1>2 DEF vars
<1>3. IInv /\ [Next]_vars => [Forward]_vars
  BY <1>1, <1>2
<1> QED
  BY <1>3, InvariantHolds, PTL DEF Spec, StatusMovesForward

\* The rows of a preview expire and are replaced by nothing else
\* (workers/connectors.py:36-45, 354, 371).
THEOREM PreviewCorrect == Spec => PreviewIsNotReplaced
<1> DEFINE Kept == \A o \in FastOps :
        /\ preview[o] = "ROWS" => preview'[o] \in {"ROWS", "EXPIRED"}
        /\ preview[o] = "EXPIRED" => preview'[o] = "EXPIRED"
<1>1. ASSUME IInv, Next PROVE Kept
  <2>1. ASSUME NEW o \in Ops, FastFinish(o) PROVE Kept
    BY <1>1, <2>1 DEF FastFinish, IInv, TypeOK, PreviewIsOutcome, Outcome
  <2>2. ASSUME NEW h \in ResultWorkers, ResultCommit(h) PROVE Kept
    <3>1. CASE handler[h].accepted
      <4>1. op[handler[h].msg.op].status \notin Outcome
        BY <1>1, <2>2, <3>1 DEF ResultCommit, IInv, AcceptedStands, Accepts
      <4> QED
        BY <1>1, <2>2, <4>1 DEF ResultCommit, IInv, TypeOK, PreviewIsOutcome
    <3>2. CASE ~handler[h].accepted
      BY <2>2, <3>2 DEF ResultCommit
    <3> QED
      BY <3>1, <3>2
  <2>3. CASE Cleanup
    BY <2>3 DEF Cleanup
  <2>4. CASE preview' = preview
    BY <2>4
  <2> QED
    BY <1>1, <2>1, <2>2, <2>3, <2>4
    DEF Next, Create, Worker, FastClaim, LeaseExpires, LegacyClaim, LegacyFinish, DropDuplicate,
        LegacyRefused, Outbox, Claim, Publish, PublishFails, Mark, OutboxRestart,
        HandleResult, ResultLock, ResultRollback
<1>2. ASSUME UNCHANGED vars PROVE Kept
  BY <1>2 DEF vars
<1>3. IInv /\ [Next]_vars => [Kept]_vars
  BY <1>1, <1>2
<1> QED
  BY <1>3, InvariantHolds, PTL DEF Spec, PreviewIsNotReplaced

-----------------------------------------------------------------------------
(* The refinement.  Status is the mapped variable.                         *)

Status == [o \in Ops |-> op[o].status]

LEMMA LifeInit == Init => Life!Init
BY DEF Init, Life!Init, Ops

\* A step that changes the status of one operation.
LEMMA StatusChange ==
    ASSUME TypeOK, NEW o \in Ops, NEW new,
           op' \in [Ops -> [status : OpStatus, lease : Lease]],
           op'[o].status = new,
           \A p \in Ops : p # o => op'[p] = op[p]
    PROVE  Status' = [Status EXCEPT ![o] = new]
BY DEF Status

LEMMA StatusKept ==
    ASSUME op' = op
    PROVE  Status' = Status
BY DEF Status

\* The run of a sync that moves on stays active.
LEMMA RunStaysActive ==
    ASSUME IInv, NEW o \in Ops, op[o].status \in {"QUEUED", "DISPATCHED", "RUNNING"}, run' = run
    PROVE  run' = IF o \in SyncOps THEN [run EXCEPT ![o] = "ACTIVE"] ELSE run
BY DEF IInv, TypeOK, RunFollowsOperation, Outcome

LEMMA CreateIsAccept ==
    ASSUME IInv, NEW o \in Ops, Create(o)
    PROVE  Life!Accept(o)
<1>1. /\ op[o].status = "NONE"
      /\ op'[o].status = "QUEUED"
      /\ \A p \in Ops : p # o => op'[p] = op[p]
  BY RowTypes DEF Create, IInv, TypeOK
<1>2. op' \in [Ops -> [status : OpStatus, lease : Lease]]
  BY RowTypes DEF Create, IInv, TypeOK, OpStatus
<1>3. Status' = [Status EXCEPT ![o] = "QUEUED"] /\ Status[o] = "NONE"
  BY <1>1, <1>2, StatusChange DEF IInv, Status
<1> QED
  BY <1>3 DEF Create, Life!Accept, Life!Move, Status

LEMMA MarkIsSend ==
    ASSUME IInv, NEW w \in OutboxWorkers, Mark(w)
    PROVE  (\E o \in Ops : Life!Send(o)) \/ (Status' = Status /\ UNCHANGED <<run, preview>>)
<1>1. PICK o \in Ops : o = outbox[w].op
  BY OutboxTypes DEF IInv, Mark
<1>2. CASE op[o].status = "QUEUED"
  <2>1. /\ op'[o].status = "DISPATCHED"
        /\ \A p \in Ops : p # o => op'[p] = op[p]
        /\ op' \in [Ops -> [status : OpStatus, lease : Lease]]
    BY <1>1, <1>2, RowTypes DEF Mark, Marked, IInv, TypeOK, OpStatus
  <2>2. Status' = [Status EXCEPT ![o] = "DISPATCHED"] /\ Status[o] = "QUEUED"
    BY <1>1, <1>2, <2>1, StatusChange DEF IInv, Status
  <2>3. run' = IF o \in SyncOps THEN [run EXCEPT ![o] = "ACTIVE"] ELSE run
    BY <1>1, <1>2, RunStaysActive DEF Mark
  <2>4. Life!Send(o)
    BY <2>2, <2>3 DEF Mark, Life!Send, Life!Move, Status
  <2> QED
    BY <1>1, <2>4
<1>3. CASE op[o].status # "QUEUED"
  <2>1. op' = op
    BY <1>1, <1>3 DEF Mark, Marked, IInv, TypeOK
  <2> QED
    BY <2>1, StatusKept DEF Mark
<1> QED
  BY <1>2, <1>3

LEMMA ClaimIsBegin ==
    ASSUME IInv, NEW o \in Ops, FastClaim(o) \/ LegacyClaim(o)
    PROVE  Life!Begin(o) \/ (Status' = Status /\ UNCHANGED <<run, preview>>)
<1>1. /\ op'[o].status = "RUNNING"
      /\ \A p \in Ops : p # o => op'[p] = op[p]
      /\ op' \in [Ops -> [status : OpStatus, lease : Lease]]
  BY RowTypes DEF FastClaim, LegacyClaim, IInv, TypeOK, OpStatus, Lease
<1>2. Status' = [Status EXCEPT ![o] = "RUNNING"]
  BY <1>1, StatusChange DEF IInv
<1>3. UNCHANGED <<run, preview>>
  BY DEF FastClaim, LegacyClaim
<1>4. CASE op[o].status \in Waiting
  <2>1. run' = IF o \in SyncOps THEN [run EXCEPT ![o] = "ACTIVE"] ELSE run
    BY <1>3, <1>4, RunStaysActive DEF Waiting
  <2> QED
    BY <1>2, <1>3, <1>4, <2>1 DEF Life!Begin, Life!Move, Status, Waiting
<1>5. CASE op[o].status = "RUNNING"
  BY <1>2, <1>3, <1>5 DEF Status
<1> QED
  BY <1>4, <1>5 DEF FastClaim, LegacyClaim

LEMMA FinishIsEnd ==
    ASSUME IInv, NEW o \in FastOps, FastFinish(o)
    PROVE  \E outcome \in Outcome : Life!End(o, outcome)
<1>1. o \in Ops /\ o \notin SyncOps
  BY TypesAssumption DEF Ops
<1>2. PICK status \in Outcome :
        /\ op' = [op EXCEPT ![o] = [status |-> status, lease |-> "none"]]
        /\ preview' = [preview EXCEPT ![o] = IF status = "SUCCEEDED" THEN "ROWS" ELSE "NONE"]
  BY DEF FastFinish
<1>3. /\ op'[o].status = status
      /\ \A p \in Ops : p # o => op'[p] = op[p]
      /\ op' \in [Ops -> [status : OpStatus, lease : Lease]]
  BY <1>1, <1>2 DEF IInv, TypeOK, OpStatus, Lease
<1>4. Status' = [Status EXCEPT ![o] = status] /\ Status[o] = "RUNNING"
  BY <1>1, <1>3, StatusChange DEF FastFinish, IInv, Status
<1>5. \E result \in {"NONE", "METRICS", "ROWS"} :
        /\ result = "ROWS" => status = "SUCCEEDED"
        /\ preview' = [preview EXCEPT ![o] = result]
  BY <1>2
<1>6. Life!End(o, status)
  BY <1>1, <1>4, <1>5 DEF FastFinish, Life!End, Life!Move, Life!Ended, Status
<1> QED
  BY <1>6

LEMMA CommitIsEnd ==
    ASSUME IInv, NEW h \in ResultWorkers, ResultCommit(h)
    PROVE  \/ \E o \in Ops, outcome \in Outcome : Life!End(o, outcome)
           \/ Status' = Status /\ UNCHANGED <<run, preview>>
<1>1. PICK o \in Ops, status \in Outcome :
        o = handler[h].msg.op /\ status = handler[h].msg.status
  BY HandlerTypes DEF ResultCommit, IInv, Result
<1>2. CASE handler[h].accepted
  <2>1. op[o].status \notin Outcome \cup {"NONE"}
    BY <1>1, <1>2 DEF ResultCommit, IInv, AcceptedStands, Accepts, MessagesExist
  <2>2. /\ op' = [op EXCEPT ![o].status = status]
        /\ run' = RunEnded(o, status)
        /\ preview' = IF o \in FastOps THEN [preview EXCEPT ![o] = "METRICS"] ELSE preview
    BY <1>1, <1>2, Zenon DEF ResultCommit
  <2>3. /\ op'[o].status = status
        /\ \A p \in Ops : p # o => op'[p] = op[p]
        /\ op' \in [Ops -> [status : OpStatus, lease : Lease]]
    BY <1>1, <2>2, RowTypes DEF IInv, TypeOK, OpStatus
  <2>4. Status' = [Status EXCEPT ![o] = status] /\ Status[o] = op[o].status
    BY <1>1, <2>3, StatusChange DEF IInv, Status
  <2>5. IF o \in FastOps
        THEN \E result \in {"NONE", "METRICS", "ROWS"} :
               /\ result = "ROWS" => status = "SUCCEEDED"
               /\ preview' = [preview EXCEPT ![o] = result]
        ELSE UNCHANGED preview
    BY <2>2
  <2>6. Life!End(o, status)
    BY <2>1, <2>2, <2>4, <2>5 DEF RunEnded, Life!End, Life!Move, Life!Ended, Outcome, Status
  <2> QED
    BY <1>1, <2>6
<1>3. CASE ~handler[h].accepted
  BY <1>3, StatusKept DEF ResultCommit
<1> QED
  BY <1>2, <1>3

LEMMA CleanupIsExpire ==
    ASSUME IInv, Cleanup
    PROVE  \E expired \in SUBSET FastOps : Life!Expire(expired)
<1>1. PICK expired \in SUBSET {o \in FastOps : preview[o] = "ROWS" /\ ~Locked(o)} :
        preview' = [o \in FastOps |-> IF o \in expired THEN "EXPIRED" ELSE preview[o]]
  BY DEF Cleanup
<1>2. expired \in SUBSET FastOps /\ \A o \in expired : preview[o] = "ROWS"
  BY <1>1
<1>3. Status' = Status /\ UNCHANGED run
  BY StatusKept DEF Cleanup
<1>4. Life!Expire(expired)
  BY <1>1, <1>2, <1>3 DEF Life!Expire, Status
<1> QED
  BY <1>2, <1>4

LEMMA LifeStep == IInv /\ [Next]_vars => [Life!Next]_<<Status, run, preview>>
<1> SUFFICES ASSUME IInv, [Next]_vars PROVE [Life!Next]_<<Status, run, preview>>
  OBVIOUS
<1> DEFINE Goal == Life!Next \/ (Status' = Status /\ UNCHANGED <<run, preview>>)
<1>1. ASSUME NEW o \in Ops, Create(o) \/ Worker(o) PROVE Goal
  <2>1. CASE Create(o)
    BY <2>1, CreateIsAccept DEF Life!Next, Ops
  <2>2. CASE FastClaim(o) \/ LegacyClaim(o)
    BY <2>2, ClaimIsBegin DEF Life!Next, Ops
  <2>3. CASE FastFinish(o)
    <3>1. o \in FastOps
      BY <2>3 DEF FastFinish, IInv, SyncHasNoLease, Ops
    <3> QED
      BY <2>3, <3>1, FinishIsEnd DEF Life!Next, Life!Ended, Outcome
  <2>4. CASE LegacyFinish(o) \/ DropDuplicate(o) \/ LegacyRefused(o)
    BY <2>4, StatusKept DEF LegacyFinish, DropDuplicate, LegacyRefused
  <2>5. CASE LeaseExpires(o)
    BY <2>5 DEF LeaseExpires, IInv, TypeOK, Status
  <2> QED
    BY <1>1, <2>1, <2>2, <2>3, <2>4, <2>5 DEF Worker
<1>2. ASSUME NEW w \in OutboxWorkers, Outbox(w) PROVE Goal
  <2>1. CASE Mark(w)
    BY <2>1, MarkIsSend DEF Life!Next, Ops
  <2>2. CASE op' = op /\ UNCHANGED <<run, preview>>
    BY <2>2, StatusKept
  <2> QED
    BY <1>2, <2>1, <2>2 DEF Outbox, Claim, Publish, PublishFails, OutboxRestart
<1>3. ASSUME NEW h \in ResultWorkers, HandleResult(h) PROVE Goal
  <2>1. CASE ResultCommit(h)
    BY <2>1, CommitIsEnd DEF Life!Next, Life!Ended, Outcome, Ops
  <2>2. CASE op' = op /\ UNCHANGED <<run, preview>>
    BY <2>2, StatusKept
  <2> QED
    BY <1>3, <2>1, <2>2 DEF HandleResult, ResultLock, ResultRollback
<1>4. CASE Cleanup
  BY <1>4, CleanupIsExpire DEF Life!Next
<1>5. CASE UNCHANGED vars
  BY <1>5, StatusKept DEF vars
<1> QED
  BY <1>1, <1>2, <1>3, <1>4, <1>5 DEF Next

\* What a client that polls is promised holds whatever workers, leases and
\* queues do (controller.py:510-571): OperationDispatch implements OperationLife.
THEOREM LifeImplemented == Spec => ImplementsLife
<1>1. IInv /\ [Next]_vars => [Life!Next]_Life!life
  BY LifeStep DEF Life!life, Status
<1> QED
  BY <1>1, LifeInit, InvariantHolds, PTL DEF Spec, ImplementsLife, Life!Spec
=============================================================================
