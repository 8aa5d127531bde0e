-------------------------- MODULE ConnectionSecrets --------------------------
(***************************************************************************)
(* The connections of one workspace and their credentials:                 *)
(* create_connection, update_credentials and update_connection of          *)
(* app/modules/connectors/service.py.  A row of connector.connection lives *)
(* in PostgreSQL, its credentials in AWS Secrets Manager under a name made *)
(* of the connection's id, and no transaction spans both: each function    *)
(* reads the row, calls the store, and commits.                            *)
(*                                                                         *)
(* A connection is named by its id, a fresh uuid of the request that       *)
(* creates it, so its creator is named by it too.  The connector worker    *)
(* that tests a connection is outside of the repository: it reads the      *)
(* stored credentials and some time later writes READY or ERROR.           *)
(***************************************************************************)
CONSTANTS
    Connections, Names, Sources,
    Credentials,     \* payloads a request may ask to store
    Callers,         \* requests that change an existing connection
    NULL

ASSUME NullAssumption == NULL \notin Credentials \cup Names

VARIABLES
    row,      \* rows of connector.connection
    secret,   \* the store: current value of each connection's secret
    creator,  \* where the request that creates each connection is
    session,  \* where each other request is
    test,     \* credentials the worker is testing
    tested,   \* credentials it last found good
    \* Faults that have happened, for the properties only.
    orphan,   \* creator stored a secret and died, or did not know, or failed to delete it
    lost,     \* the commit of the creator took place, its answer was lost
    raced     \* a test overlapped an update, or an update stopped half-way

vars == <<row, secret, creator, session, test, tested, orphan, lost, raced>>

-----------------------------------------------------------------------------
Engines == {"database", "file_upload"}
Status == {"DRAFT", "TESTING", "READY", "ERROR", "DISABLED"}

Row == [engine : Engines, name : Names, source : Sources,
        arn : BOOLEAN,        \* secret_arn is set
        status : Status]
NoRow == [engine |-> "none"]

\* ConnectionCreate: credentials for a database, none for uploads.
CreateRequest == [engine : {"database"}, name : Names, source : Sources, credentials : Credentials]
          \cup [engine : {"file_upload"}, name : Names, source : Sources, credentials : {NULL}]

Creator == [pc : {"none", "over"}]
            \cup [pc : {"checked", "flushed", "stored", "cleanup"}, request : CreateRequest]
Over == [pc |-> "over"]

Session == [pc : {"idle"}]
            \cup [pc : {"read", "put"}, connection : Connections, seen : Row,
                  credentials : Credentials]
            \cup [pc : {"changing"}, connection : Connections, seen : Row, new : Row]
Idle == [pc |-> "idle"]

TypeOK ==
    /\ row \in [Connections -> Row \cup {NoRow}]
    /\ secret \in [Connections -> Credentials \cup {NULL}]
    /\ creator \in [Connections -> Creator]
    /\ session \in [Callers -> Session]
    /\ test \in [Connections -> [running : BOOLEAN, with : Credentials \cup {NULL}]]
    /\ tested \in [Connections -> Credentials \cup {NULL}]
    /\ orphan \subseteq Connections
    /\ lost \subseteq Connections
    /\ raced \subseteq Connections

Init ==
    /\ row = [c \in Connections |-> NoRow]
    /\ secret = [c \in Connections |-> NULL]
    /\ creator = [c \in Connections |-> [pc |-> "none"]]
    /\ session = [s \in Callers |-> Idle]
    /\ test = [c \in Connections |-> [running |-> FALSE, with |-> NULL]]
    /\ tested = [c \in Connections |-> NULL]
    /\ orphan = {} /\ lost = {} /\ raced = {}

-----------------------------------------------------------------------------
Exists(c) == row[c] # NoRow

SameIdentity(a, b) == a.name = b.name \/ a.source = b.source

\* A row of another connection has the name or the source code.
Taken(c, r) == \E d \in Connections \ {c} : Exists(d) /\ SameIdentity(row[d], r)

\* Another request has inserted such a row and not yet committed: the unique
\* constraint makes this one wait for it.
Waits(c, r) ==
    \E d \in Connections \ {c} :
        creator[d].pc \in {"flushed", "stored"} /\ SameIdentity(creator[d].request, r)

NewRow(r) ==
    [engine |-> r.engine, name |-> r.name, source |-> r.source,
     arn |-> r.engine = "database",
     status |-> IF r.engine = "file_upload" THEN "READY" ELSE "DRAFT"]

CreatorAt(c, pc) == creator[c].pc = pc
CreatorTo(c, pc) == creator' = [creator EXCEPT ![c].pc = pc]
CreatorEnds(c) == creator' = [creator EXCEPT ![c] = Over]

(* create_connection.                                                      *)

CreateBegin(c) ==
    /\ CreatorAt(c, "none")
    /\ \E r \in CreateRequest :
        /\ ~Taken(c, r)
        /\ creator' = [creator EXCEPT ![c] = [pc |-> "checked", request |-> r]]
    /\ UNCHANGED <<row, secret, session, test, tested, orphan, lost, raced>>

\* A connection for uploads is committed at once, as READY.
CreateUpload(c) ==
    /\ CreatorAt(c, "checked")
    /\ LET r == creator[c].request IN
        /\ r.engine = "file_upload"
        /\ ~Waits(c, r)
        /\ row' = [row EXCEPT ![c] = IF Taken(c, r) THEN @ ELSE NewRow(r)]
    /\ CreatorEnds(c)
    /\ UNCHANGED <<secret, session, test, tested, orphan, lost, raced>>

\* The insert, which fails if the identity was taken since the check.
CreateFlush(c) ==
    /\ CreatorAt(c, "checked")
    /\ LET r == creator[c].request IN
        /\ r.engine = "database"
        /\ ~Waits(c, r)
        /\ IF Taken(c, r) THEN CreatorEnds(c) ELSE CreatorTo(c, "flushed")
    /\ UNCHANGED <<row, secret, session, test, tested, orphan, lost, raced>>

\* _put_secret: the id is new, so create_secret succeeds, or fails and leaves
\* nothing, or its answer is lost and the request does not know what it left.
CreateSecret(c) ==
    /\ CreatorAt(c, "flushed")
    /\ secret' = [secret EXCEPT ![c] = creator[c].request.credentials]
    /\ \/ CreatorTo(c, "stored") /\ UNCHANGED orphan
       \/ CreatorEnds(c) /\ orphan' = orphan \cup {c}
    /\ UNCHANGED <<row, session, test, tested, lost, raced>>

CreateSecretFails(c) ==
    /\ CreatorAt(c, "flushed")
    /\ CreatorEnds(c)
    /\ UNCHANGED <<row, secret, session, test, tested, orphan, lost, raced>>

CreateCommit(c) ==
    /\ CreatorAt(c, "stored")
    /\ row' = [row EXCEPT ![c] = NewRow(creator[c].request)]
    /\ CreatorEnds(c)
    /\ UNCHANGED <<secret, session, test, tested, orphan, lost, raced>>

\* Slip: the error of the commit is raised without cleaning up.
CommitErrorRaised(c) ==
    /\ CreatorAt(c, "stored")
    /\ UNCHANGED <<row, lost>>
    /\ CreatorEnds(c)
    /\ UNCHANGED <<secret, session, test, tested, orphan, raced>>

\* The commit raises: nothing was committed, or it was and the answer is lost.
CreateCommitFails(c) ==
    /\ CreatorAt(c, "stored")
    /\ \/ UNCHANGED <<row, lost>>
       \/ /\ row' = [row EXCEPT ![c] = NewRow(creator[c].request)]
          /\ lost' = lost \cup {c}
    /\ CreatorTo(c, "cleanup")
    /\ UNCHANGED <<secret, session, test, tested, orphan, raced>>

\* _delete_secret; an error of the store is logged and forgotten.
CleanUp(c) ==
    /\ CreatorAt(c, "cleanup")
    /\ \/ secret' = [secret EXCEPT ![c] = NULL] /\ UNCHANGED orphan
       \/ orphan' = orphan \cup {c} /\ UNCHANGED secret
    /\ CreatorEnds(c)
    /\ UNCHANGED <<row, session, test, tested, lost, raced>>

\* The process dies; its open transaction is rolled back.
CreatorCrash(c) ==
    /\ creator[c].pc \in {"checked", "flushed", "stored", "cleanup"}
    /\ CreatorEnds(c)
    /\ orphan' = IF secret[c] = NULL THEN orphan ELSE orphan \cup {c}
    /\ UNCHANGED <<row, secret, session, test, tested, lost, raced>>

-----------------------------------------------------------------------------
SessionAt(s, pc) == session[s].pc = pc
SessionTo(s, state) == session' = [session EXCEPT ![s] = state]

\* Some request is between its read and the end of update_credentials.
Updating(c) ==
    \E s \in Callers : session[s].pc \in {"read", "put"} /\ session[s].connection = c

\* Credentials of c are stored and the status is not yet reset.
Unsettled(c) == \E s \in Callers : session[s].pc = "put" /\ session[s].connection = c

RacedIf(c, overlap) == raced' = IF overlap THEN raced \cup {c} ELSE raced

\* The ORM updates the columns whose new value differs from the value read.
Flush(current, seen, new) ==
    [f \in DOMAIN current |-> IF new[f] # seen[f] THEN new[f] ELSE current[f]]

(* update_credentials, of any connection whatever its engine and status.   *)

UpdateBegin(s, c) ==
    /\ SessionAt(s, "idle")
    /\ Exists(c)
    /\ \E x \in Credentials :
        SessionTo(s, [pc |-> "read", connection |-> c, seen |-> row[c], credentials |-> x])
    /\ RacedIf(c, test[c].running)
    /\ UNCHANGED <<row, secret, creator, test, tested, orphan, lost>>

\* _put_secret: the secret is created, or given a new value.
UpdateSecret(s) ==
    /\ SessionAt(s, "read")
    /\ secret' = [secret EXCEPT ![session[s].connection] = session[s].credentials]
    /\ session' = [session EXCEPT ![s].pc = "put"]
    /\ UNCHANGED <<row, creator, test, tested, orphan, lost, raced>>

\* Slip: a secret is deleted when its update fails, as a new one would be.
UpdateFailsAndDeletes(s) ==
    /\ session[s].pc \in {"read", "put"}
    /\ secret' = [secret EXCEPT ![session[s].connection] = NULL]
    /\ raced' = raced \cup {session[s].connection}
    /\ SessionTo(s, Idle)
    /\ UNCHANGED <<row, creator, test, tested, orphan, lost>>

\* The request stops before its commit, by an error or by a crash; the store
\* may have taken the new credentials already.
UpdateFails(s) ==
    /\ session[s].pc \in {"read", "put"}
    /\ LET c == session[s].connection IN
        \/ UNCHANGED secret /\ RacedIf(c, SessionAt(s, "put"))
        \/ /\ SessionAt(s, "read")
           /\ secret' = [secret EXCEPT ![c] = session[s].credentials]
           /\ raced' = raced \cup {c}
    /\ SessionTo(s, Idle)
    /\ UNCHANGED <<row, creator, test, tested, orphan, lost>>

\* Slip: the status of the connection is kept.
ResetKept(seen) == [seen EXCEPT !.arn = TRUE]

\* New credentials have to be tested again.
Reset(seen) == [seen EXCEPT !.arn = TRUE, !.status = "DRAFT"]

UpdateCommit(s) ==
    /\ SessionAt(s, "put")
    /\ LET c == session[s].connection
           seen == session[s].seen
       IN row' = [row EXCEPT ![c] = Flush(@, seen, Reset(seen))]
    /\ SessionTo(s, Idle)
    /\ UNCHANGED <<secret, creator, test, tested, orphan, lost, raced>>

(* update_connection; DELETE of a connection disables it.                  *)

\* Slip: a connection that is enabled again gets the status of a dataset.
ToggleToActive(r, disabled) ==
    CASE disabled = "yes" -> [r EXCEPT !.status = "DISABLED"]
      [] disabled = "no" /\ r.status = "DISABLED" -> [r EXCEPT !.status = "ACTIVE"]
      [] OTHER -> r

Toggle(r, disabled) ==
    CASE disabled = "yes" -> [r EXCEPT !.status = "DISABLED"]
      [] disabled = "no" /\ r.status = "DISABLED" -> [r EXCEPT !.status = "DRAFT"]
      [] OTHER -> r

ChangeBegin(s, c) ==
    /\ SessionAt(s, "idle")
    /\ Exists(c)
    /\ \E disabled \in {"yes", "no", "unset"}, name \in Names :
        SessionTo(s, [pc |-> "changing", connection |-> c, seen |-> row[c],
                      new |-> Toggle([row[c] EXCEPT !.name = name], disabled)])
    /\ UNCHANGED <<row, secret, creator, test, tested, orphan, lost, raced>>

\* A name that is taken makes the commit fail.
ChangeCommit(s) ==
    /\ SessionAt(s, "changing")
    /\ LET c == session[s].connection
           new == Flush(row[c], session[s].seen, session[s].new)
       IN /\ ~Waits(c, new)
          /\ row' = [row EXCEPT ![c] = IF Taken(c, new) THEN @ ELSE new]
    /\ SessionTo(s, Idle)
    /\ UNCHANGED <<secret, creator, test, tested, orphan, lost, raced>>

-----------------------------------------------------------------------------
(* The connector worker, for a CONNECTION_TEST; queue_operation admits     *)
(* none for uploads or for a connection that is disabled.                  *)

Testable(c) == Exists(c) /\ row[c].engine = "database" /\ row[c].status # "DISABLED"

TestBegin(c) ==
    /\ Testable(c)
    /\ ~test[c].running
    /\ test' = [test EXCEPT ![c] = [running |-> TRUE, with |-> secret[c]]]
    /\ row' = [row EXCEPT ![c].status = "TESTING"]
    /\ RacedIf(c, Updating(c))
    /\ UNCHANGED <<secret, creator, session, tested, orphan, lost>>

\* Without a secret there is nothing that could pass.
TestEnd(c) ==
    /\ test[c].running
    /\ \/ /\ test[c].with # NULL
          /\ row' = [row EXCEPT ![c].status = "READY"]
          /\ tested' = [tested EXCEPT ![c] = test[c].with]
       \/ /\ row' = [row EXCEPT ![c].status = "ERROR"]
          /\ UNCHANGED tested
    /\ test' = [test EXCEPT ![c] = [running |-> FALSE, with |-> NULL]]
    /\ RacedIf(c, Updating(c))
    /\ UNCHANGED <<secret, creator, session, orphan, lost>>

Next ==
    \/ \E c \in Connections :
        \/ CreateBegin(c) \/ CreateUpload(c) \/ CreateFlush(c)
        \/ CreateSecret(c) \/ CreateSecretFails(c)
        \/ CreateCommit(c) \/ CreateCommitFails(c) \/ CleanUp(c) \/ CreatorCrash(c)
        \/ TestBegin(c) \/ TestEnd(c)
    \/ \E s \in Callers :
        \/ \E c \in Connections : UpdateBegin(s, c) \/ ChangeBegin(s, c)
        \/ UpdateSecret(s) \/ UpdateFails(s) \/ UpdateCommit(s)
        \/ ChangeCommit(s)

Spec == Init /\ [][Next]_vars

-----------------------------------------------------------------------------
\* No secret is left without an owner: it belongs to a connection, or to a
\* request that is still at work on one, unless that request, having stored it,
\* died, lost the answer of the store, or failed to delete it.
StoredSecretHasOwner ==
    \A c \in Connections :
        secret[c] # NULL =>
            \/ Exists(c)
            \/ creator[c].pc \in {"stored", "cleanup"}
            \/ c \in orphan

\* A connection with a database has credentials a worker can fetch: no error
\* path deletes the secret of a committed row, whatever requests interleave.
\* The one exception is a creation whose commit succeeded and was reported as
\* failed, which deletes the secret behind the row's secret_arn.
DatabaseHasSecret ==
    \A c \in Connections :
        Exists(c) /\ row[c].engine = "database" /\ c \notin lost =>
            row[c].arn /\ secret[c] # NULL

\* READY means that the stored credentials were tested, however requests that
\* store others, disable or enable interleave, except while an update is
\* between the store and its commit, and unless a test ran into an update or
\* an update stopped half-way: update_credentials resets the status only
\* after it has stored, and not at all if it had read DRAFT.
ReadyIsTested ==
    \A c \in Connections :
        /\ Exists(c) /\ row[c].engine = "database" /\ row[c].status = "READY"
        /\ c \notin lost \cup raced
        /\ ~Unsettled(c)
        => tested[c] = secret[c]
=============================================================================
