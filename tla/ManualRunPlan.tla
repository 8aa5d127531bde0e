---------------------------- MODULE ManualRunPlan ----------------------------
(***************************************************************************)
(* How the manual runs of one standardization dataset are planned:         *)
(* discover_source_inventory and create_manual_run of                      *)
(* app/modules/standardization/service.py.  A request reads what the       *)
(* source holds before it opens its transaction; the transaction takes the *)
(* advisory lock of the dataset, claims a dataset without a workspace,     *)
(* answers with a run that exists, or plans a new one from the watermarks  *)
(* the workers have committed.  What happens to a run afterwards is the    *)
(* subject of StandardizationRun; here the workers are seen from outside,  *)
(* for the watermarks they leave.                                          *)
(*                                                                         *)
(* A part is a source index with one of its streams, baseline or versions. *)
(* The documents of a part are numbered in the order in which the source   *)
(* database sorts its cursor, and 0 stands for no document and for no      *)
(* cursor.  They do not arrive in that order: the baseline is sorted by a  *)
(* textual id, and the ingest ids of the versions are handed out before    *)
(* the transactions that use them commit.                                  *)
(***************************************************************************)
EXTENDS Naturals

CONSTANTS
    Workspaces,
    Keys,        \* idempotency keys of callers
    Callers,
    Parts,
    Runs,        \* ids of runs, each a fresh uuid
    MaxDocument, \* bound: documents of a part
    Source,      \* bound: the documents each part may come to hold
    Textual,     \* the parts whose cursor is a text, those of baselines
    NULL

ASSUME NullAssumption == NULL \notin Workspaces \cup Keys
ASSUME BoundAssumption == MaxDocument \in Nat \ {0}

ASSUME SourceAssumption == Source \in [Parts -> SUBSET (1..MaxDocument)]
ASSUME TextualAssumption == Textual \subseteq Parts

VARIABLES
    owner,     \* workspace_id of the dataset
    documents, \* the documents of each part in the source
    watermark, \* committed_cursor of each part
    done,      \* the documents that a worker has certainly standardized
    late,      \* the documents that arrived where a plan or worker had been
    run,       \* rows of control.standardization_run with their checkpoints
    session    \* where each caller is

vars == <<owner, documents, watermark, done, late, run, session>>

-----------------------------------------------------------------------------
Document == 1..MaxDocument
Cursor == 0..MaxDocument
NoWork == [status |-> "NONE"]
Work == {NoWork}
          \cup [status : {"PENDING", "RUNNING", "COMPLETE", "FAILED"},
                start : Cursor, cutoff : Cursor]

ActiveStatus == {"PENDING", "RUNNING"}
NoRun == [status |-> "NONE"]
Run == [owner : Workspaces \cup {NULL}, key : Keys \cup {NULL},
        status : ActiveStatus \cup {"SUCCEEDED", "FAILED"}, work : [Parts -> Work]]

Request == [workspace : Workspaces, key : Keys \cup {NULL}]
Session == [pc : {"idle"}]
            \cup [pc : {"discovered"}, request : Request, cutoff : [Parts -> Cursor]]
            \cup [pc : {"planned"}, request : Request, work : [Parts -> Work]]
            \cup [pc : {"answered"}, request : Request, run : Runs]
Idle == [pc |-> "idle"]

TypeOK ==
    /\ owner \in Workspaces \cup {NULL}
    /\ documents \in [Parts -> SUBSET Document]
    /\ watermark \in [Parts -> Cursor]
    /\ done \in [Parts -> SUBSET Document]
    /\ late \in [Parts -> SUBSET Document]
    /\ run \in [Runs -> Run \cup {NoRun}]
    /\ session \in [Callers -> Session]

\* A run without a workspace can only be left over from before this code.
LeftOver == [owner |-> NULL, key |-> NULL, status |-> "RUNNING",
             work |-> [p \in Parts |-> NoWork]]

Init ==
    /\ owner = NULL
    /\ documents = [p \in Parts |-> {}]
    /\ watermark = [p \in Parts |-> 0]
    /\ done = [p \in Parts |-> {}]
    /\ late = [p \in Parts |-> {}]
    /\ \/ run = [r \in Runs |-> NoRun]
       \/ \E old \in Runs : run = [r \in Runs |-> IF r = old THEN LeftOver ELSE NoRun]
    /\ session = [s \in Callers |-> Idle]

-----------------------------------------------------------------------------
At(s, pc) == session[s].pc = pc
Goto(s, state) == session' = [session EXCEPT ![s] = state]

Exists(r) == run[r] # NoRun
Active(r) == run[r].status \in ActiveStatus

\* Slip: the transaction does not take the lock.
LockNotTaken == TRUE

\* pg_advisory_xact_lock, held to the end of a transaction.
LockFree == \A s \in Callers : ~At(s, "planned")

Found(w) == owner \in {w, NULL}

\* The update that claims an unowned dataset, committed with the answer.
Claim(w) == owner' = w

\* Slip: only an active run is found by its key.
PriorIfActive(r, q) == Exists(r) /\ run[r].owner = q.workspace /\ run[r].key = q.key /\ Active(r)

\* source_run_key holds the workspace and the key.
Prior(r, q) == Exists(r) /\ run[r].owner = q.workspace /\ run[r].key = q.key

NoPrior(q) == q.key # NULL => \A r \in Runs : ~Prior(r, q)

\* Slip: a part starts where the plans of earlier runs ended.
StartOfLastPlan(p) ==
    LET cutoffs == {run[r].work[p].cutoff : r \in {x \in Runs :
                        Exists(x) /\ run[x].work[p] # NoWork}}
    IN IF cutoffs = {} THEN 0 ELSE CHOOSE n \in cutoffs : \A m \in cutoffs : m <= n

Start(p) == watermark[p]

\* has_work: a stream without documents has no cutoff, and one at its cutoff has
\* no work.  Python compares two numbers as the source does, and two different
\* texts in an order of its own.
MayHaveWork(p, cutoff) ==
    cutoff # 0 /\ (Start(p) < cutoff \/ (p \in Textual /\ Start(p) # cutoff))

MayHaveNone(p, cutoff) ==
    cutoff = 0 \/ (Start(p) # 0 /\ (cutoff <= Start(p) \/ p \in Textual))

PlanOf(cutoff, busy) ==
    [p \in Parts |->
        IF p \in busy
        THEN [status |-> "PENDING", start |-> Start(p), cutoff |-> cutoff[p]]
        ELSE NoWork]

\* Slip: a run without work gets the status of a part.
StatusOfPlanComplete(work) == IF \A p \in Parts : work[p] = NoWork THEN "COMPLETE" ELSE "PENDING"

StatusOfPlan(work) == IF \A p \in Parts : work[p] = NoWork THEN "SUCCEEDED" ELSE "PENDING"

-----------------------------------------------------------------------------
(* The request.                                                            *)

\* max() over what the source holds, null if it holds nothing.
IsLast(n, held) == IF held = {} THEN n = 0 ELSE n \in held /\ \A m \in held : m <= n

Discover(s, q, cutoff) ==
    /\ At(s, "idle")
    /\ \A p \in Parts : IsLast(cutoff[p], documents[p])
    /\ Goto(s, [pc |-> "discovered", request |-> q, cutoff |-> cutoff])
    /\ UNCHANGED <<owner, documents, watermark, done, late, run>>

\* The dataset of another workspace, or one that operators have deactivated,
\* as they may at any time.
NotFound(s) ==
    /\ At(s, "discovered")
    /\ LockFree
    /\ Goto(s, Idle)
    /\ UNCHANGED <<owner, documents, watermark, done, late, run>>

\* The run of the key is the answer, whatever has become of it.
Replay(s, r) ==
    /\ At(s, "discovered")
    /\ LockFree
    /\ LET q == session[s].request IN
        /\ Found(q.workspace)
        /\ q.key # NULL
        /\ Prior(r, q)
        /\ Claim(q.workspace)
        /\ Goto(s, [pc |-> "answered", request |-> q, run |-> r])
    /\ UNCHANGED <<documents, watermark, done, late, run>>

\* Slip: an active run is returned whoever owns it.
MayJoinAny(r) == TRUE

MayJoin(r) == run[r].owner # NULL

\* The active run is the answer; one without a workspace fails the request,
\* and the rollback undoes the claim.
JoinActive(s, r) ==
    /\ At(s, "discovered")
    /\ LockFree
    /\ LET q == session[s].request IN
        /\ Found(q.workspace)
        /\ NoPrior(q)
        /\ Active(r)
        /\ IF MayJoin(r)
           THEN Claim(q.workspace) /\ Goto(s, [pc |-> "answered", request |-> q, run |-> r])
           ELSE Goto(s, Idle) /\ UNCHANGED owner
    /\ UNCHANGED <<documents, watermark, done, late, run>>

\* busy are the parts with work.
Plan(s, busy) ==
    /\ At(s, "discovered")
    /\ LockFree
    /\ LET q == session[s].request IN
        /\ Found(q.workspace)
        /\ NoPrior(q)
        /\ \A r \in Runs : ~Active(r)
        /\ \A p \in Parts : LET cutoff == session[s].cutoff[p] IN
              IF p \in busy THEN MayHaveWork(p, cutoff) ELSE MayHaveNone(p, cutoff)
        /\ Goto(s, [pc |-> "planned", request |-> q, work |-> PlanOf(session[s].cutoff, busy)])
    /\ UNCHANGED <<owner, documents, watermark, done, late, run>>

\* The insert would be refused by the index of active runs per dataset.
PlanCommit(s, r) ==
    /\ At(s, "planned")
    /\ run[r] = NoRun
    /\ LET q == session[s].request IN
        IF \E x \in Runs : Active(x)
        THEN Goto(s, Idle) /\ UNCHANGED <<owner, run>>
        ELSE /\ run' = [run EXCEPT ![r] =
                  [owner |-> q.workspace, key |-> q.key,
                   status |-> StatusOfPlan(session[s].work), work |-> session[s].work]]
             /\ Claim(q.workspace)
             /\ Goto(s, [pc |-> "answered", request |-> q, run |-> r])
    /\ UNCHANGED <<documents, watermark, done, late>>

\* An error or a crash before the commit.
PlanFails(s) ==
    /\ At(s, "planned")
    /\ Goto(s, Idle)
    /\ UNCHANGED <<owner, documents, watermark, done, late, run>>

\* The caller has its answer and may send another request.
Return(s) ==
    /\ At(s, "answered")
    /\ Goto(s, Idle)
    /\ UNCHANGED <<owner, documents, watermark, done, late, run>>

-----------------------------------------------------------------------------
(* What goes on outside: the source and the workers.                       *)

Open(work) == work.status \in {"PENDING", "RUNNING"}

WorkOn(p) == {session[s].work[p] : s \in {t \in Callers : At(t, "planned")}}
               \cup {run[r].work[p] : r \in {x \in Runs : Exists(x)}}

\* No plan goes back below the watermark or a start, and a worker that has
\* begun may be past any place below its cutoff.
Overtaken(p, n) ==
    \/ n <= watermark[p]
    \/ \E work \in WorkOn(p) : Open(work) /\ n <= work.start
    \/ \E work \in WorkOn(p) : work.status = "RUNNING" /\ n <= work.cutoff

\* A document becomes visible, above or below those that are there.
Ingest(p, n) ==
    /\ n \in Source[p] \ documents[p]
    /\ documents' = [documents EXCEPT ![p] = @ \cup {n}]
    /\ late' = IF Overtaken(p, n) THEN [late EXCEPT ![p] = @ \cup {n}] ELSE late
    /\ UNCHANGED <<owner, watermark, done, run, session>>

WorkBegin(r, p) ==
    /\ Active(r)
    /\ run[r].work[p].status = "PENDING"
    /\ run' = [run EXCEPT ![r].work[p].status = "RUNNING", ![r].status = "RUNNING"]
    /\ UNCHANGED <<owner, documents, watermark, done, late, session>>

\* What a worker that began when all of them were there cannot have missed.
Read(p, work) == {n \in documents[p] \ late[p] : work.start < n /\ n <= work.cutoff}

\* A worker goes on although its run has failed meanwhile, and commits the
\* cutoff of its part, or leaves a watermark that is further on.
WorkEnd(r, p) ==
    /\ Exists(r)
    /\ run[r].work[p].status = "RUNNING"
    /\ LET work == run[r].work[p] IN
        \/ /\ run' = [run EXCEPT ![r].work[p].status = "COMPLETE"]
           /\ \/ watermark' = [watermark EXCEPT ![p] = work.cutoff]
              \/ watermark[p] > work.cutoff /\ UNCHANGED watermark
           /\ done' = [done EXCEPT ![p] = @ \cup Read(p, work)]
        \/ /\ run' = [run EXCEPT ![r].work[p].status = "FAILED"]
           /\ UNCHANGED <<watermark, done>>
    /\ UNCHANGED <<owner, documents, late, session>>

\* A run fails with its first part, the others may still be running.
RunEnd(r) ==
    /\ Active(r)
    /\ \/ /\ \A p \in Parts : run[r].work[p].status \in {"COMPLETE", "NONE"}
          /\ \E p \in Parts : run[r].work[p].status = "COMPLETE"
          /\ run' = [run EXCEPT ![r].status = "SUCCEEDED"]
       \/ /\ run[r].owner = NULL \/ \E p \in Parts : run[r].work[p].status = "FAILED"
          /\ run' = [run EXCEPT ![r].status = "FAILED"]
    /\ UNCHANGED <<owner, documents, watermark, done, late, session>>

Next ==
    \/ \E s \in Callers :
        \/ \E q \in Request, cutoff \in [Parts -> Cursor] : Discover(s, q, cutoff)
        \/ \E busy \in SUBSET Parts : Plan(s, busy)
        \/ NotFound(s) \/ PlanFails(s) \/ Return(s)
        \/ \E r \in Runs : Replay(s, r) \/ JoinActive(s, r) \/ PlanCommit(s, r)
    \/ \E p \in Parts, n \in Document : Ingest(p, n)
    \/ \E r \in Runs, p \in Parts : WorkBegin(r, p) \/ WorkEnd(r, p)
    \/ \E r \in Runs : RunEnd(r)

Spec == Init /\ [][Next]_vars

-----------------------------------------------------------------------------
\* "A repeated click returns the active run instead of duplicating work"
\* (README.md:231), also when the clicks overlap: a request that is about to
\* insert its run is the only one that has a plan, and no run is active.  The
\* unique index of active runs, which would fail the request, never bites.
InsertIsNeverRefused ==
    \A s \in Callers : At(s, "planned") =>
        /\ \A r \in Runs : ~Active(r)
        /\ \A t \in Callers : At(t, "planned") => t = s

\* A key makes one run, in whatever order its requests, failures and the end
\* of the run come: a retry is answered with it and never plans another.
OneRunPerKey ==
    \A r, x \in Runs :
        (Exists(r) /\ Exists(x) /\ run[r].key # NULL
           /\ run[r].key = run[x].key /\ run[r].owner = run[x].owner) => r = x

\* A caller is only told of a run of its own workspace: a dataset is claimed
\* with its first run, and a run left without a workspace is never adopted
\* (test_manual_run_never_adopts_null_workspace_legacy_run).
AnswerIsOwn ==
    \A s \in Callers : At(s, "answered") => run[session[s].run].owner = session[s].request.workspace

\* No plan passes over a document that was there when it could have been
\* read: everything up to the watermark of a part was standardized by some
\* run, though runs fail, are planned from an old inventory, and overlap with
\* workers of a run that has failed.  The exception is a document that became
\* visible where a plan or a worker had already been: no later plan goes back
\* to it (has_work, service.py:327), and nothing in the repository says so.
WatermarkIsEarned ==
    \A p \in Parts : \A n \in documents[p] \ late[p] : n <= watermark[p] => n \in done[p]
=============================================================================
