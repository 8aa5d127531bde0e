---------------------------- MODULE OperationLife ----------------------------
(***************************************************************************)
(* What a client that polls an operation, its sync run and its preview is  *)
(* promised (the views of controller.py:510-571 without the publication    *)
(* projection): each is accepted once, moves forward, and ends once.       *)
(* OperationDispatch implements it.                                        *)
(***************************************************************************)
CONSTANTS FastOps, SyncOps

VARIABLES
    status,  \* of each operation
    run,     \* of the run of each sync
    shown    \* what each fast operation has to show

life == <<status, run, shown>>

Ended == {"SUCCEEDED", "FAILED"}

Init ==
    /\ status = [o \in FastOps \cup SyncOps |-> "NONE"]
    /\ run = [o \in SyncOps |-> "NONE"]
    /\ shown = [o \in FastOps |-> "NONE"]

\* The status of an operation and of the run it owns, if it owns one.
Move(o, new, ofRun) ==
    /\ status' = [status EXCEPT ![o] = new]
    /\ run' = IF o \in SyncOps THEN [run EXCEPT ![o] = ofRun] ELSE run

Accept(o) ==
    /\ status[o] = "NONE"
    /\ Move(o, "QUEUED", "ACTIVE")
    /\ UNCHANGED shown

Send(o) ==
    /\ status[o] = "QUEUED"
    /\ Move(o, "DISPATCHED", "ACTIVE")
    /\ UNCHANGED shown

Begin(o) ==
    /\ status[o] \in {"QUEUED", "DISPATCHED"}
    /\ Move(o, "RUNNING", "ACTIVE")
    /\ UNCHANGED shown

\* The first outcome stands.  Rows are shown of a success only.
End(o, outcome) ==
    /\ status[o] \notin Ended \cup {"NONE"}
    /\ Move(o, outcome, outcome)
    /\ IF o \in FastOps
       THEN \E result \in {"NONE", "METRICS", "ROWS"} :
              /\ result = "ROWS" => outcome = "SUCCEEDED"
              /\ shown' = [shown EXCEPT ![o] = result]
       ELSE UNCHANGED shown

Expire(expired) ==
    /\ \A o \in expired : shown[o] = "ROWS"
    /\ shown' = [o \in FastOps |-> IF o \in expired THEN "EXPIRED" ELSE shown[o]]
    /\ UNCHANGED <<status, run>>

Next ==
    \/ \E o \in FastOps \cup SyncOps :
         \/ Accept(o) \/ Send(o) \/ Begin(o)
         \/ \E outcome \in Ended : End(o, outcome)
    \/ \E expired \in SUBSET FastOps : Expire(expired)

Spec == Init /\ [][Next]_life
=============================================================================
