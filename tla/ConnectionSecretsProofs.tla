----------------------- MODULE ConnectionSecretsProofs -----------------------
(***************************************************************************)
(* For any number of connections, names, sources, credentials and callers: *)
(* secrets have owners, databases have secrets, and READY means tested, up *)
(* to the faults the properties of ConnectionSecrets name.                 *)
(***************************************************************************)
EXTENDS ConnectionSecrets, TLAPS

-----------------------------------------------------------------------------
\* The request that creates a connection has no row before its commit, stores
\* credentials for a database only, and deletes them only after a commit of
\* which it does not know.
CreatorInv ==
    \A c \in Connections :
        LET pc == creator[c].pc IN
        /\ pc \in {"none", "checked", "flushed", "stored"} => ~Exists(c)
        /\ pc \in {"flushed", "stored", "cleanup"} => creator[c].request.engine = "database"
        /\ pc = "stored" => secret[c] # NULL
        /\ pc = "cleanup" /\ Exists(c) => c \in lost

\* Requests and tests are about rows that exist, and no row is ever deleted.
OnRows ==
    /\ \A s \in Callers : session[s] # Idle => Exists(session[s].connection)
    /\ \A c \in Connections : test[c].running => Exists(c)

\* What update_connection writes never makes a connection READY, and neither
\* engine nor secret_arn is a column of it.
ChangeInv ==
    \A s \in Callers : SessionAt(s, "changing") =>
        LET seen == session[s].seen
            new == session[s].new
        IN /\ new.engine = seen.engine /\ new.arn = seen.arn
           /\ new.status \in {seen.status, "DISABLED", "DRAFT"}

\* ReadyIsTested alone is not inductive. A test that no update ran into tests
\* what is stored now, ...
TestIsCurrent ==
    \A c \in Connections \ (lost \cup raced) :
        test[c].running => test[c].with = secret[c] /\ ~Updating(c)

\* ... and an update that no test ran into has read READY if the connection is
\* READY, so that its commit resets it.
SeenReady ==
    \A s \in Callers :
        LET c == session[s].connection IN
        session[s].pc \in {"read", "put"} /\ row[c].status = "READY" /\ c \notin raced
            => session[s].seen.status = "READY"

IInv ==
    /\ TypeOK
    /\ CreatorInv
    /\ OnRows
    /\ ChangeInv
    /\ StoredSecretHasOwner
    /\ DatabaseHasSecret
    /\ TestIsCurrent
    /\ SeenReady
    /\ ReadyIsTested

-----------------------------------------------------------------------------
(* What the types say.                                                     *)

LEMMA RowTypes ==
    ASSUME TypeOK, NEW c \in Connections
    PROVE  Exists(c) <=> row[c] \in Row
BY DEF TypeOK, Exists, Row, NoRow, Engines

LEMMA SessionTypes ==
    ASSUME TypeOK, NEW s \in Callers
    PROVE  /\ session[s] \in Session
           /\ session[s] # Idle <=> session[s].pc # "idle"
           /\ session[s] # Idle => session[s].connection \in Connections /\ session[s].seen \in Row
           /\ session[s].pc \in {"read", "put"} =>
                /\ session[s].credentials \in Credentials
                /\ session[s] \in [pc : {"read", "put"}, connection : Connections, seen : Row,
                                   credentials : Credentials]
           /\ session[s].pc = "changing" => session[s].new \in Row
BY DEF TypeOK, Session, Idle

LEMMA CreatorTypes ==
    ASSUME TypeOK, NEW c \in Connections, creator[c].pc \in {"checked", "flushed", "stored", "cleanup"}
    PROVE  /\ creator[c] \in [pc : {"checked", "flushed", "stored", "cleanup"}, request : CreateRequest]
           /\ creator[c].request \in CreateRequest
BY DEF TypeOK, Creator

\* The creator goes on with its request, or ends.
LEMMA CreatorGoesOn ==
    ASSUME TypeOK, NEW c \in Connections, creator[c].pc \in {"checked", "flushed", "stored", "cleanup"},
           NEW pc \in {"flushed", "stored", "cleanup"}, CreatorTo(c, pc)
    PROVE  /\ creator' \in [Connections -> Creator]
           /\ \A d \in Connections \ {c} : creator'[d] = creator[d]
           /\ creator'[c].pc = pc /\ creator'[c].request = creator[c].request
<1>1. creator[c] \in [pc : {"checked", "flushed", "stored", "cleanup"}, request : CreateRequest]
  BY CreatorTypes
<1>2. creator'[c] = [creator[c] EXCEPT !.pc = pc] /\ \A d \in Connections \ {c} : creator'[d] = creator[d]
  BY DEF CreatorTo, TypeOK
<1>3. creator'[c] = [pc |-> pc, request |-> creator[c].request]
  BY <1>1, <1>2
<1>4. creator'[c] \in Creator
  BY <1>1, <1>3 DEF Creator
<1> QED
  BY <1>2, <1>3, <1>4 DEF CreatorTo, TypeOK

LEMMA CreatorIsOver ==
    ASSUME TypeOK, NEW c \in Connections, CreatorEnds(c)
    PROVE  /\ creator' \in [Connections -> Creator]
           /\ \A d \in Connections \ {c} : creator'[d] = creator[d]
           /\ creator'[c].pc = "over"
BY DEF CreatorEnds, Over, TypeOK, Creator

LEMMA RequestTypes ==
    ASSUME NEW r \in CreateRequest
    PROVE  /\ NewRow(r) \in Row
           /\ NewRow(r).engine = r.engine
           /\ r.engine = "database" => /\ NewRow(r).arn /\ NewRow(r).status = "DRAFT"
                                       /\ r.credentials \in Credentials
           /\ r.credentials \in Credentials \cup {NULL}
BY DEF CreateRequest, NewRow, Row, Engines, Status

\* The ORM writes the new value of a column or keeps the row's.
LEMMA FlushType ==
    ASSUME NEW current \in Row, NEW seen \in Row, NEW new \in Row
    PROVE  /\ Flush(current, seen, new) \in Row
           /\ Flush(current, seen, new).engine =
                IF new.engine # seen.engine THEN new.engine ELSE current.engine
           /\ Flush(current, seen, new).arn =
                IF new.arn # seen.arn THEN new.arn ELSE current.arn
           /\ Flush(current, seen, new).status =
                IF new.status # seen.status THEN new.status ELSE current.status
<1>1. DOMAIN current = {"engine", "name", "source", "arn", "status"}
  BY DEF Row
<1>2. Flush(current, seen, new) =
        [engine |-> IF new.engine # seen.engine THEN new.engine ELSE current.engine,
         name |-> IF new.name # seen.name THEN new.name ELSE current.name,
         source |-> IF new.source # seen.source THEN new.source ELSE current.source,
         arn |-> IF new.arn # seen.arn THEN new.arn ELSE current.arn,
         status |-> IF new.status # seen.status THEN new.status ELSE current.status]
  BY <1>1 DEF Flush
<1>3. Flush(current, seen, new) \in Row
  BY <1>2 DEF Row
<1> QED
  BY <1>2, <1>3

LEMMA ResetType ==
    ASSUME NEW seen \in Row
    PROVE  /\ Reset(seen) \in Row
           /\ Reset(seen).engine = seen.engine /\ Reset(seen).arn = TRUE
           /\ Reset(seen).status = "DRAFT"
BY DEF Reset, Row, Status

LEMMA FlushReset ==
    ASSUME NEW current \in Row, NEW seen \in Row
    PROVE  LET new == Flush(current, seen, Reset(seen))
           IN /\ new \in Row /\ new.engine = current.engine
              /\ current.arn => new.arn
              /\ new.status = IF seen.status # "DRAFT" THEN "DRAFT" ELSE current.status
<1> DEFINE x == Reset(seen)
           new == Flush(current, seen, x)
<1>1. x \in Row /\ x.engine = seen.engine /\ x.arn = TRUE /\ x.status = "DRAFT"
  BY ResetType
<1> HIDE DEF x
<1>2. /\ new \in Row
      /\ new.engine = IF x.engine # seen.engine THEN x.engine ELSE current.engine
      /\ new.arn = IF x.arn # seen.arn THEN x.arn ELSE current.arn
      /\ new.status = IF x.status # seen.status THEN x.status ELSE current.status
  BY <1>1, FlushType
<1> HIDE DEF new
<1>3. new.engine = current.engine /\ new.status = IF seen.status # "DRAFT" THEN "DRAFT" ELSE current.status
  BY <1>1, <1>2
<1>4. new.arn \in {x.arn, current.arn}
  BY <1>2
<1>5. current.arn => new.arn
  BY <1>1, <1>4
<1>6. new \in Row /\ new.engine = current.engine /\ (current.arn => new.arn)
      /\ new.status = IF seen.status # "DRAFT" THEN "DRAFT" ELSE current.status
  BY <1>2, <1>3, <1>5
<1> QED
  BY <1>6 DEF new, x

LEMMA ToggleType ==
    ASSUME NEW r \in Row, NEW name \in Names, NEW disabled \in {"yes", "no", "unset"}
    PROVE  LET new == Toggle([r EXCEPT !.name = name], disabled)
           IN /\ new \in Row
              /\ new.engine = r.engine /\ new.arn = r.arn
              /\ new.status \in {r.status, "DISABLED", "DRAFT"}
<1> DEFINE x == [r EXCEPT !.name = name]
<1>1. x \in Row /\ x.engine = r.engine /\ x.arn = r.arn /\ x.status = r.status
  BY DEF Row
<1> HIDE DEF x
<1>2. Toggle(x, disabled) \in {x, [x EXCEPT !.status = "DISABLED"], [x EXCEPT !.status = "DRAFT"]}
  BY DEF Toggle
<1>3. /\ Toggle(x, disabled) \in Row
      /\ Toggle(x, disabled).engine = r.engine /\ Toggle(x, disabled).arn = r.arn
      /\ Toggle(x, disabled).status \in {r.status, "DISABLED", "DRAFT"}
  BY <1>1, <1>2 DEF Row, Status
<1> QED
  BY <1>3 DEF x

-----------------------------------------------------------------------------
LEMMA InitHolds == Init => IInv
<1> SUFFICES ASSUME Init PROVE IInv
  OBVIOUS
<1>1. TypeOK
  BY DEF Init, TypeOK, Row, NoRow, Creator, Session, Idle
<1>2. \A c \in Connections : /\ ~Exists(c) /\ secret[c] = NULL /\ creator[c].pc = "none"
                             /\ ~test[c].running
  BY DEF Init, Exists
<1>3. \A s \in Callers : session[s] = Idle
  BY DEF Init
<1> QED
  BY <1>1, <1>2, <1>3
  DEF IInv, CreatorInv, OnRows, ChangeInv, StoredSecretHasOwner, DatabaseHasSecret, TestIsCurrent,
      SeenReady, ReadyIsTested, SessionAt, Idle

-----------------------------------------------------------------------------
(* The request that creates a connection.                                  *)

\* Steps that leave rows and secrets alone: the request looks, gives up or dies.
LEMMA CreatorMoves ==
    ASSUME IInv, NEW c \in Connections,
           CreateBegin(c) \/ CreateFlush(c) \/ CreateSecretFails(c) \/ CreatorCrash(c)
    PROVE  IInv'
<1>1. /\ row' = row /\ secret' = secret /\ session' = session /\ test' = test /\ tested' = tested
      /\ lost' = lost /\ raced' = raced
      /\ orphan \subseteq orphan' /\ orphan' \subseteq Connections
  BY DEF CreateBegin, CreateFlush, CreateSecretFails, CreatorCrash, IInv, TypeOK
<1>2. /\ creator' \in [Connections -> Creator]
      /\ \A d \in Connections \ {c} : creator'[d] = creator[d]
      /\ \/ creator'[c].pc = "over"
         \/ creator'[c].pc = "checked" /\ creator[c].pc = "none"
         \/ /\ creator'[c].pc = "flushed" /\ creator[c].pc = "checked"
            /\ creator'[c].request.engine = "database"
      /\ creator[c].pc \in {"stored", "cleanup"} /\ secret[c] # NULL => c \in orphan'
  <2>0. TypeOK
    BY DEF IInv
  <2>1. CASE CreateBegin(c)
    BY <2>0, <2>1 DEF CreateBegin, CreatorAt, TypeOK, Creator
  <2>2. CASE CreateFlush(c)
    <3>1. CASE CreatorTo(c, "flushed")
      BY <2>0, <2>2, <3>1, CreatorGoesOn DEF CreateFlush, CreatorAt
    <3>2. CASE CreatorEnds(c)
      BY <2>0, <2>2, <3>2, CreatorIsOver DEF CreateFlush, CreatorAt
    <3> QED
      BY <2>2, <3>1, <3>2 DEF CreateFlush
  <2>3. CASE CreateSecretFails(c)
    BY <2>0, <2>3, CreatorIsOver DEF CreateSecretFails, CreatorAt
  <2>4. CASE CreatorCrash(c)
    BY <2>0, <2>4, CreatorIsOver DEF CreatorCrash
  <2> QED
    BY <2>1, <2>2, <2>3, <2>4
<1>3. TypeOK'
  BY <1>1, <1>2 DEF IInv, TypeOK
<1>4. CreatorInv' /\ StoredSecretHasOwner'
  BY <1>1, <1>2 DEF IInv, CreatorInv, StoredSecretHasOwner, Exists
<1>5. OnRows' /\ ChangeInv' /\ DatabaseHasSecret'
  BY <1>1 DEF IInv, OnRows, ChangeInv, DatabaseHasSecret, Exists, SessionAt
<1>6. TestIsCurrent' /\ SeenReady' /\ ReadyIsTested'
  BY <1>1 DEF IInv, TestIsCurrent, SeenReady, ReadyIsTested, Exists, Updating, Unsettled
<1> QED
  BY <1>3, <1>4, <1>5, <1>6 DEF IInv

\* While there is no row, no request and no test is about it.
LEMMA NobodyElse ==
    ASSUME IInv, NEW c \in Connections, ~Exists(c)
    PROVE  /\ ~test[c].running /\ ~Updating(c) /\ ~Unsettled(c)
           /\ \A s \in Callers : session[s] # Idle => session[s].connection # c
<1>1. \A s \in Callers : session[s] # Idle => session[s].connection # c
  BY DEF IInv, OnRows
<1>2. ~Updating(c) /\ ~Unsettled(c)
  BY <1>1 DEF Updating, Unsettled, Idle
<1> QED
  BY <1>1, <1>2 DEF IInv, OnRows
\* Steps that change the row of a connection that is being created, or its
\* secret before there is a row.
LEMMA CreateUploadInv ==
    ASSUME IInv, NEW c \in Connections, CreateUpload(c)
    PROVE  IInv'
<1> DEFINE r == creator[c].request
<1>1. /\ TypeOK /\ ~Exists(c) /\ r \in CreateRequest /\ r.engine = "file_upload"
  BY CreatorTypes DEF CreateUpload, CreatorAt, IInv, CreatorInv
<1>2. NewRow(r) \in Row /\ NewRow(r).engine = "file_upload"
  BY <1>1, RequestTypes
<1>3. /\ \A d \in Connections \ {c} : row'[d] = row[d]
      /\ row'[c] = NoRow \/ row'[c] = NewRow(r)
      /\ row' \in [Connections -> Row \cup {NoRow}]
  BY <1>1, <1>2 DEF CreateUpload, Exists, TypeOK
<1>4. /\ secret' = secret /\ session' = session /\ test' = test /\ tested' = tested
      /\ orphan' = orphan /\ lost' = lost /\ raced' = raced
  BY DEF CreateUpload
<1>5. /\ creator' \in [Connections -> Creator]
      /\ \A d \in Connections \ {c} : creator'[d] = creator[d]
      /\ creator'[c].pc = "over" /\ creator[c].pc = "checked"
  BY <1>1, CreatorIsOver DEF CreateUpload, CreatorAt
<1>6. /\ \A d \in Connections : Exists(d) => Exists(d)' /\ d # c
      /\ \A d \in Connections \ {c} : Exists(d)' => Exists(d)
      /\ Exists(c)' => row'[c].engine # "database"
  BY <1>1, <1>2, <1>3 DEF Exists
<1>7. TypeOK'
  BY <1>1, <1>3, <1>4, <1>5 DEF TypeOK
<1>8. CreatorInv'
  BY <1>4, <1>5, <1>6 DEF IInv, CreatorInv
<1>9. OnRows' /\ ChangeInv'
  BY <1>1, <1>4, <1>6, SessionTypes DEF IInv, OnRows, ChangeInv, SessionAt
<1>10. StoredSecretHasOwner'
  BY <1>4, <1>5, <1>6 DEF IInv, StoredSecretHasOwner
<1>11. DatabaseHasSecret' /\ ReadyIsTested'
  BY <1>3, <1>4, <1>6 DEF IInv, DatabaseHasSecret, ReadyIsTested, Unsettled
<1>12. TestIsCurrent'
  BY <1>4 DEF IInv, TestIsCurrent, Updating
<1>13. SeenReady'
  <2>1. \A s \in Callers : session[s].pc \in {"read", "put"} =>
            session[s].connection \in Connections \ {c}
    BY <1>1, SessionTypes, NobodyElse
  <2> QED
    BY <1>3, <1>4, <2>1 DEF IInv, SeenReady
<1> QED
  BY <1>7, <1>8, <1>9, <1>10, <1>11, <1>12, <1>13 DEF IInv

LEMMA CreateSecretInv ==
    ASSUME IInv, NEW c \in Connections, CreateSecret(c)
    PROVE  IInv'
<1> DEFINE r == creator[c].request
<1>1. /\ TypeOK /\ ~Exists(c) /\ r \in CreateRequest /\ r.engine = "database"
  BY CreatorTypes DEF CreateSecret, CreatorAt, IInv, CreatorInv
<1>2. r.credentials \in Credentials /\ r.credentials # NULL
  BY <1>1, RequestTypes, NullAssumption
<1>3. /\ secret' \in [Connections -> Credentials \cup {NULL}]
      /\ secret'[c] # NULL
      /\ \A d \in Connections \ {c} : secret'[d] = secret[d]
  BY <1>1, <1>2 DEF CreateSecret, TypeOK
<1>4. /\ row' = row /\ session' = session /\ test' = test /\ tested' = tested
      /\ lost' = lost /\ raced' = raced
      /\ orphan \subseteq orphan' /\ orphan' \subseteq Connections
  BY <1>1 DEF CreateSecret, TypeOK
<1>5. /\ creator' \in [Connections -> Creator]
      /\ \A d \in Connections \ {c} : creator'[d] = creator[d]
      /\ \/ creator'[c].pc = "stored" /\ creator'[c].request = r
         \/ creator'[c].pc = "over" /\ c \in orphan'
  <2>1. CASE CreatorTo(c, "stored")
    BY <1>1, <2>1, CreatorGoesOn DEF CreateSecret, CreatorAt
  <2>2. CASE CreatorEnds(c) /\ orphan' = orphan \cup {c}
    BY <1>1, <2>2, CreatorIsOver
  <2> QED
    BY <2>1, <2>2 DEF CreateSecret
<1>6. /\ ~test[c].running
      /\ \A s \in Callers : session[s].pc \in {"read", "put"} => session[s].connection # c
  BY <1>1, NobodyElse, SessionTypes
<1>7. TypeOK'
  BY <1>1, <1>3, <1>4, <1>5 DEF TypeOK
<1>8. CreatorInv'
  BY <1>1, <1>3, <1>4, <1>5 DEF IInv, CreatorInv, Exists
<1>9. OnRows' /\ ChangeInv'
  BY <1>4 DEF IInv, OnRows, ChangeInv, SessionAt, Exists
<1>10. StoredSecretHasOwner'
  BY <1>3, <1>4, <1>5 DEF IInv, StoredSecretHasOwner, Exists
<1>11. DatabaseHasSecret' /\ ReadyIsTested'
  BY <1>1, <1>3, <1>4 DEF IInv, DatabaseHasSecret, ReadyIsTested, Unsettled, Exists
<1>12. TestIsCurrent' /\ SeenReady'
  BY <1>3, <1>4, <1>6 DEF IInv, TestIsCurrent, SeenReady, Updating
<1> QED
  BY <1>7, <1>8, <1>9, <1>10, <1>11, <1>12 DEF IInv

\* The commit, whether its answer arrives or is lost.
LEMMA CreateCommitInv ==
    ASSUME IInv, NEW c \in Connections, CreateCommit(c) \/ CreateCommitFails(c)
    PROVE  IInv'
<1> DEFINE r == creator[c].request
<1>1. /\ TypeOK /\ ~Exists(c) /\ r \in CreateRequest /\ r.engine = "database" /\ secret[c] # NULL
      /\ creator[c].pc = "stored"
  BY CreatorTypes DEF CreateCommit, CreateCommitFails, CreatorAt, IInv, CreatorInv
<1>2. NewRow(r) \in Row /\ NewRow(r).arn /\ NewRow(r).status = "DRAFT"
  BY <1>1, RequestTypes
<1>3. /\ secret' = secret /\ session' = session /\ test' = test /\ tested' = tested
      /\ orphan' = orphan /\ raced' = raced
      /\ lost \subseteq lost' /\ lost' \subseteq Connections
  BY <1>1 DEF CreateCommit, CreateCommitFails, TypeOK
<1>4. /\ creator' \in [Connections -> Creator]
      /\ \A d \in Connections \ {c} : creator'[d] = creator[d] /\ row'[d] = row[d]
      /\ row' \in [Connections -> Row \cup {NoRow}]
      /\ \/ creator'[c].pc = "over" /\ row'[c] = NewRow(r)
         \/ creator'[c].pc = "cleanup" /\ creator'[c].request = r /\ row'[c] = row[c]
         \/ creator'[c].pc = "cleanup" /\ creator'[c].request = r /\ row'[c] = NewRow(r) /\ c \in lost'
  <2>1. CASE CreateCommit(c)
    BY <1>1, <1>2, <2>1, CreatorIsOver DEF CreateCommit, TypeOK
  <2>2. CASE CreateCommitFails(c)
    <3>1. /\ creator' \in [Connections -> Creator]
          /\ \A d \in Connections \ {c} : creator'[d] = creator[d]
          /\ creator'[c].pc = "cleanup" /\ creator'[c].request = r
      BY <1>1, <2>2, CreatorGoesOn DEF CreateCommitFails
    <3>2. /\ \A d \in Connections \ {c} : row'[d] = row[d]
          /\ row' \in [Connections -> Row \cup {NoRow}]
          /\ row'[c] = row[c] \/ (row'[c] = NewRow(r) /\ c \in lost')
      BY <1>1, <1>2, <2>2 DEF CreateCommitFails, TypeOK
    <3> QED
      BY <3>1, <3>2
  <2> QED
    BY <2>1, <2>2
<1>5. /\ \A d \in Connections : Exists(d) => Exists(d)' /\ d # c
      /\ \A d \in Connections \ {c} : Exists(d)' => Exists(d)
      /\ Exists(c)' => row'[c] = NewRow(r)
  BY <1>1, <1>4 DEF Exists
<1>6. TypeOK'
  BY <1>1, <1>3, <1>4 DEF TypeOK
<1>7. CreatorInv'
  BY <1>1, <1>3, <1>4, <1>5 DEF IInv, CreatorInv, Exists
<1>8. OnRows' /\ ChangeInv'
  BY <1>1, <1>3, <1>5, SessionTypes DEF IInv, OnRows, ChangeInv, SessionAt
<1>9. StoredSecretHasOwner'
  <2>1. NewRow(r) # NoRow
    BY <1>2 DEF Row, NoRow, Engines
  <2> QED
    BY <1>1, <1>3, <1>4, <1>5, <2>1 DEF IInv, StoredSecretHasOwner, Exists
<1>10. DatabaseHasSecret' /\ ReadyIsTested'
  BY <1>1, <1>2, <1>3, <1>4, <1>5 DEF IInv, DatabaseHasSecret, ReadyIsTested, Unsettled
<1>11. TestIsCurrent'
  BY <1>3 DEF IInv, TestIsCurrent, Updating
<1>12. SeenReady'
  <2>1. \A s \in Callers : session[s].pc \in {"read", "put"} =>
            session[s].connection \in Connections \ {c}
    BY <1>1, SessionTypes, NobodyElse
  <2> QED
    BY <1>3, <1>4, <2>1 DEF IInv, SeenReady
<1> QED
  BY <1>6, <1>7, <1>8, <1>9, <1>10, <1>11, <1>12 DEF IInv

\* A request that cleans up has no row, or one whose commit it does not know.
LEMMA CleanUpInv ==
    ASSUME IInv, NEW c \in Connections, CleanUp(c)
    PROVE  IInv'
<1>1. TypeOK /\ creator[c].pc = "cleanup" /\ (Exists(c) => c \in lost)
  BY DEF CleanUp, CreatorAt, IInv, CreatorInv
<1>2. /\ secret' \in [Connections -> Credentials \cup {NULL}]
      /\ \A d \in Connections \ {c} : secret'[d] = secret[d]
      /\ secret'[c] = NULL \/ c \in orphan'
      /\ row' = row /\ session' = session /\ test' = test /\ tested' = tested
      /\ lost' = lost /\ raced' = raced
      /\ orphan \subseteq orphan' /\ orphan' \subseteq Connections
  BY <1>1 DEF CleanUp, TypeOK
<1>3. /\ creator' \in [Connections -> Creator]
      /\ \A d \in Connections \ {c} : creator'[d] = creator[d]
      /\ creator'[c].pc = "over"
  BY <1>1, CreatorIsOver DEF CleanUp
<1>4. TypeOK'
  BY <1>1, <1>2, <1>3 DEF TypeOK
<1>5. CreatorInv' /\ StoredSecretHasOwner'
  BY <1>2, <1>3 DEF IInv, CreatorInv, StoredSecretHasOwner, Exists
<1>6. OnRows' /\ ChangeInv'
  BY <1>2 DEF IInv, OnRows, ChangeInv, SessionAt, Exists
<1>7. DatabaseHasSecret' /\ ReadyIsTested'
  BY <1>1, <1>2 DEF IInv, DatabaseHasSecret, ReadyIsTested, Unsettled, Exists
<1>8. TestIsCurrent' /\ SeenReady'
  BY <1>1, <1>2 DEF IInv, OnRows, TestIsCurrent, SeenReady, Updating
<1> QED
  BY <1>4, <1>5, <1>6, <1>7, <1>8 DEF IInv
-----------------------------------------------------------------------------
(* The requests that change a connection.                                  *)

\* Nothing a request or a test does takes a row away or creates one.
RowsStay ==
    /\ row' \in [Connections -> Row \cup {NoRow}]
    /\ \A c \in Connections : Exists(c)' <=> Exists(c)

\* ... and the creators go on undisturbed, as long as no secret is deleted.
LEMMA CreatorsStay ==
    ASSUME IInv, RowsStay, creator' = creator, lost' = lost,
           \A c \in Connections : secret[c] # NULL => secret'[c] # NULL
    PROVE  CreatorInv'
BY DEF IInv, CreatorInv, RowsStay

LEMMA UpdateBeginInv ==
    ASSUME IInv, NEW s \in Callers, NEW c \in Connections, UpdateBegin(s, c)
    PROVE  IInv'
<1>1. PICK x \in Credentials :
        session' = [session EXCEPT
            ![s] = [pc |-> "read", connection |-> c, seen |-> row[c], credentials |-> x]]
  BY DEF UpdateBegin, SessionTo
<1>2. /\ TypeOK /\ Exists(c) /\ row[c] \in Row /\ session[s].pc = "idle"
      /\ row' = row /\ secret' = secret /\ creator' = creator /\ test' = test /\ tested' = tested
      /\ orphan' = orphan /\ lost' = lost
      /\ raced' = IF test[c].running THEN raced \cup {c} ELSE raced
  BY RowTypes DEF UpdateBegin, SessionAt, RacedIf, IInv
<1>3. /\ session' \in [Callers -> Session]
      /\ \A t \in Callers \ {s} : session'[t] = session[t]
      /\ session'[s] = [pc |-> "read", connection |-> c, seen |-> row[c], credentials |-> x]
  BY <1>1, <1>2 DEF TypeOK, Session
<1>4. TypeOK'
  BY <1>2, <1>3 DEF TypeOK
<1>5. CreatorInv' /\ StoredSecretHasOwner' /\ DatabaseHasSecret'
  BY <1>2 DEF IInv, CreatorInv, StoredSecretHasOwner, DatabaseHasSecret, Exists
<1>6. OnRows' /\ ChangeInv'
  BY <1>2, <1>3 DEF IInv, OnRows, ChangeInv, SessionAt, Exists
<1>7. \A d \in Connections : /\ Unsettled(d) => Unsettled(d)'
                             /\ Unsettled(d)' => Unsettled(d)
                             /\ Updating(d)' => Updating(d) \/ d = c
  BY <1>2, <1>3 DEF Unsettled, Updating
<1>8. TestIsCurrent'
  BY <1>2, <1>7 DEF IInv, TestIsCurrent
<1>9. SeenReady'
  BY <1>2, <1>3 DEF IInv, SeenReady
<1>10. ReadyIsTested'
  BY <1>2, <1>7 DEF IInv, ReadyIsTested, Exists
<1> QED
  BY <1>4, <1>5, <1>6, <1>8, <1>9, <1>10 DEF IInv

LEMMA UpdateSecretInv ==
    ASSUME IInv, NEW s \in Callers, UpdateSecret(s)
    PROVE  IInv'
<1> DEFINE c == session[s].connection
<1>1. /\ TypeOK /\ session[s].pc = "read" /\ c \in Connections /\ Exists(c) /\ Updating(c)
      /\ session[s].credentials \in Credentials /\ session[s].credentials # NULL
      /\ session[s] \in [pc : {"read", "put"}, connection : Connections, seen : Row,
                         credentials : Credentials]
  BY SessionTypes, NullAssumption DEF UpdateSecret, SessionAt, IInv, OnRows, Updating, Idle
<1>2. /\ row' = row /\ creator' = creator /\ test' = test /\ tested' = tested
      /\ orphan' = orphan /\ lost' = lost /\ raced' = raced
      /\ secret' \in [Connections -> Credentials \cup {NULL}] /\ secret'[c] # NULL
      /\ \A d \in Connections \ {c} : secret'[d] = secret[d]
  BY <1>1 DEF UpdateSecret, TypeOK
<1>3. session'[s] = [session[s] EXCEPT !.pc = "put"] /\ \A t \in Callers \ {s} : session'[t] = session[t]
  BY <1>1 DEF UpdateSecret, TypeOK
<1>4. session'[s] = [pc |-> "put", connection |-> c, seen |-> session[s].seen,
                     credentials |-> session[s].credentials]
  BY <1>1, <1>3
<1>5. session' \in [Callers -> Session]
  BY <1>1, <1>3, <1>4 DEF UpdateSecret, TypeOK, Session
<1>6. TypeOK'
  BY <1>1, <1>2, <1>5 DEF TypeOK
<1>7. CreatorInv' /\ StoredSecretHasOwner' /\ DatabaseHasSecret'
  BY <1>1, <1>2 DEF IInv, CreatorInv, StoredSecretHasOwner, DatabaseHasSecret, Exists
<1>8. OnRows' /\ ChangeInv'
  BY <1>1, <1>2, <1>3, <1>4 DEF IInv, OnRows, ChangeInv, SessionAt, Exists
<1>9. \A d \in Connections : /\ Unsettled(d) => Unsettled(d)'
                             /\ Updating(d)' => Updating(d)
  BY <1>1, <1>3, <1>4 DEF Unsettled, Updating
<1>10. \A d \in Connections : d = c => Unsettled(d)'
  BY <1>4 DEF Unsettled
<1>11. TestIsCurrent'
  BY <1>1, <1>2, <1>9 DEF IInv, TestIsCurrent
<1>12. SeenReady'
  BY <1>1, <1>2, <1>3, <1>4 DEF IInv, SeenReady
<1>13. ReadyIsTested'
  <2> SUFFICES ASSUME NEW d \in Connections,
                      Exists(d)', row'[d].engine = "database", row'[d].status = "READY",
                      d \notin lost' \cup raced', ~Unsettled(d)'
               PROVE  tested'[d] = secret'[d]
    BY DEF ReadyIsTested
  <2>1. d # c /\ ~Unsettled(d)
    BY <1>9, <1>10
  <2> QED
    BY <1>2, <2>1 DEF IInv, ReadyIsTested, Exists
<1> QED
  BY <1>6, <1>7, <1>8, <1>11, <1>12, <1>13 DEF IInv

\* A session that ends without a commit.
LEMMA SessionEnds ==
    ASSUME TypeOK, NEW s \in Callers, SessionTo(s, Idle)
    PROVE  /\ session' \in [Callers -> Session]
           /\ session'[s] = Idle
           /\ \A t \in Callers \ {s} : session'[t] = session[t]
           /\ \A d \in Connections : Updating(d)' => Updating(d)
           /\ \A d \in Connections :
                Unsettled(d) => Unsettled(d)' \/ (session[s].pc = "put" /\ session[s].connection = d)
<1>1. /\ session' \in [Callers -> Session]
      /\ session'[s] = Idle
      /\ \A t \in Callers \ {s} : session'[t] = session[t]
  BY DEF SessionTo, TypeOK, Session, Idle
<1> QED
  BY <1>1 DEF Updating, Unsettled, Idle

LEMMA UpdateFailsInv ==
    ASSUME IInv, NEW s \in Callers, UpdateFails(s)
    PROVE  IInv'
<1> DEFINE c == session[s].connection
<1>1. /\ TypeOK /\ session[s].pc \in {"read", "put"} /\ c \in Connections /\ Exists(c) /\ Updating(c)
      /\ session[s].credentials \in Credentials /\ session[s].credentials # NULL
  BY SessionTypes, NullAssumption DEF UpdateFails, IInv, OnRows, Updating, Idle
<1>2. /\ row' = row /\ creator' = creator /\ test' = test /\ tested' = tested
      /\ orphan' = orphan /\ lost' = lost
      /\ raced \subseteq raced' /\ raced' \subseteq Connections
      /\ secret' \in [Connections -> Credentials \cup {NULL}]
      /\ \A d \in Connections \ {c} : secret'[d] = secret[d]
      /\ \/ secret'[c] = secret[c] /\ (session[s].pc = "put" => c \in raced')
         \/ secret'[c] # NULL /\ c \in raced'
  <2>1. CASE secret' = secret /\ RacedIf(c, SessionAt(s, "put"))
    BY <1>1, <2>1 DEF UpdateFails, RacedIf, SessionAt, TypeOK
  <2>2. CASE secret' = [secret EXCEPT ![c] = session[s].credentials] /\ raced' = raced \cup {c}
    BY <1>1, <2>2 DEF UpdateFails, TypeOK
  <2> QED
    BY <2>1, <2>2 DEF UpdateFails
<1>3. /\ session' \in [Callers -> Session]
      /\ session'[s] = Idle
      /\ \A t \in Callers \ {s} : session'[t] = session[t]
      /\ \A d \in Connections : Updating(d)' => Updating(d)
      /\ \A d \in Connections : Unsettled(d) => Unsettled(d)' \/ (session[s].pc = "put" /\ c = d)
  BY <1>1, SessionEnds DEF UpdateFails
<1>4. TypeOK'
  BY <1>1, <1>2, <1>3 DEF TypeOK
<1>5. CreatorInv' /\ StoredSecretHasOwner' /\ DatabaseHasSecret'
  BY <1>1, <1>2 DEF IInv, CreatorInv, StoredSecretHasOwner, DatabaseHasSecret, Exists
<1>6. OnRows' /\ ChangeInv'
  BY <1>2, <1>3 DEF IInv, OnRows, ChangeInv, SessionAt, Exists, Idle
<1>7. TestIsCurrent'
  BY <1>1, <1>2, <1>3 DEF IInv, TestIsCurrent
<1>8. SeenReady'
  BY <1>2, <1>3 DEF IInv, SeenReady, Idle
<1>9. ReadyIsTested'
  BY <1>2, <1>3 DEF IInv, ReadyIsTested, Exists
<1> QED
  BY <1>4, <1>5, <1>6, <1>7, <1>8, <1>9 DEF IInv

\* The commit leaves the connection unless it had read DRAFT, and then the
\* connection is not READY.
LEMMA UpdateCommitInv ==
    ASSUME IInv, NEW s \in Callers, UpdateCommit(s)
    PROVE  IInv'
<1> DEFINE c == session[s].connection
           seen == session[s].seen
           new == Flush(row[c], seen, Reset(seen))
<1>1. /\ TypeOK /\ session[s].pc = "put" /\ c \in Connections /\ Exists(c) /\ Updating(c)
      /\ row[c] \in Row /\ seen \in Row
  BY SessionTypes, RowTypes DEF UpdateCommit, SessionAt, IInv, OnRows, Updating, Idle
<1>2. /\ new \in Row /\ new.engine = row[c].engine
      /\ row[c].arn => new.arn
      /\ new.status = IF seen.status # "DRAFT" THEN "DRAFT" ELSE row[c].status
  BY <1>1, FlushReset
<1>3. /\ row' = [row EXCEPT ![c] = new]
      /\ secret' = secret /\ creator' = creator /\ test' = test /\ tested' = tested
      /\ orphan' = orphan /\ lost' = lost /\ raced' = raced
  BY DEF UpdateCommit
<1> HIDE DEF new
<1>4. row'[c] = new /\ \A d \in Connections \ {c} : row'[d] = row[d]
  BY <1>1, <1>3 DEF TypeOK
<1>5. RowsStay
  BY <1>1, <1>2, <1>3, <1>4 DEF RowsStay, Exists, TypeOK, Row, NoRow, Engines
<1>6. /\ session' \in [Callers -> Session]
      /\ session'[s] = Idle
      /\ \A t \in Callers \ {s} : session'[t] = session[t]
      /\ \A d \in Connections : Updating(d)' => Updating(d)
      /\ \A d \in Connections : Unsettled(d) => Unsettled(d)' \/ c = d
  BY <1>1, SessionEnds DEF UpdateCommit
<1>7. c \notin raced => new.status # "READY"
  BY <1>1, <1>2 DEF IInv, SeenReady
<1>8. TypeOK'
  BY <1>1, <1>3, <1>5, <1>6 DEF TypeOK, RowsStay
<1>9. CreatorInv'
  BY <1>3, <1>5, CreatorsStay
<1>10. OnRows' /\ ChangeInv'
  <2>1. \A t \in Callers : session[t] # Idle => session[t].connection \in Connections
    BY <1>1, SessionTypes
  <2> QED
    BY <1>3, <1>5, <1>6, <2>1 DEF IInv, OnRows, ChangeInv, RowsStay, SessionAt, Idle
<1>11. StoredSecretHasOwner'
  BY <1>3, <1>5 DEF IInv, StoredSecretHasOwner, RowsStay
<1>12. DatabaseHasSecret'
  BY <1>1, <1>2, <1>3, <1>4, <1>5 DEF IInv, DatabaseHasSecret, RowsStay
<1>13. TestIsCurrent'
  BY <1>3, <1>6 DEF IInv, TestIsCurrent
<1>14. SeenReady'
  <2>1. \A t \in Callers : session[t].pc \in {"read", "put"} => session[t].connection \in Connections
    BY <1>1, SessionTypes DEF Idle
  <2> QED
    BY <1>3, <1>4, <1>6, <1>7, <2>1 DEF IInv, SeenReady, Idle
<1>15. ReadyIsTested'
  BY <1>3, <1>4, <1>5, <1>6, <1>7 DEF IInv, ReadyIsTested, RowsStay
<1> QED
  BY <1>8, <1>9, <1>10, <1>11, <1>12, <1>13, <1>14, <1>15 DEF IInv

LEMMA ChangeBeginInv ==
    ASSUME IInv, NEW s \in Callers, NEW c \in Connections, ChangeBegin(s, c)
    PROVE  IInv'
<1>1. TypeOK /\ Exists(c) /\ row[c] \in Row /\ session[s].pc = "idle"
  BY RowTypes DEF ChangeBegin, SessionAt, IInv
<1>2. PICK disabled \in {"yes", "no", "unset"}, name \in Names :
        session' = [session EXCEPT
            ![s] = [pc |-> "changing", connection |-> c, seen |-> row[c],
                    new |-> Toggle([row[c] EXCEPT !.name = name], disabled)]]
  BY DEF ChangeBegin, SessionTo
<1> DEFINE new == Toggle([row[c] EXCEPT !.name = name], disabled)
<1>3. /\ new \in Row
      /\ new.engine = row[c].engine /\ new.arn = row[c].arn
      /\ new.status \in {row[c].status, "DISABLED", "DRAFT"}
  BY <1>1, ToggleType
<1>4. /\ row' = row /\ secret' = secret /\ creator' = creator /\ test' = test /\ tested' = tested
      /\ orphan' = orphan /\ lost' = lost /\ raced' = raced
  BY DEF ChangeBegin
<1>5. session' = [session EXCEPT
            ![s] = [pc |-> "changing", connection |-> c, seen |-> row[c], new |-> new]]
  BY <1>2
<1> HIDE DEF new
<1>6. /\ session' \in [Callers -> Session]
      /\ \A t \in Callers \ {s} : session'[t] = session[t]
      /\ session'[s] = [pc |-> "changing", connection |-> c, seen |-> row[c], new |-> new]
  BY <1>1, <1>3, <1>5 DEF TypeOK, Session
<1>7. TypeOK'
  BY <1>1, <1>4, <1>6 DEF TypeOK
<1>8. CreatorInv' /\ StoredSecretHasOwner' /\ DatabaseHasSecret'
  BY <1>4 DEF IInv, CreatorInv, StoredSecretHasOwner, DatabaseHasSecret, Exists
<1>9. OnRows' /\ ChangeInv'
  BY <1>1, <1>3, <1>4, <1>6 DEF IInv, OnRows, ChangeInv, SessionAt, Exists
<1>10. \A d \in Connections : (Unsettled(d) => Unsettled(d)') /\ (Updating(d)' => Updating(d))
  BY <1>1, <1>6 DEF Unsettled, Updating
<1>11. TestIsCurrent' /\ ReadyIsTested'
  BY <1>4, <1>10 DEF IInv, TestIsCurrent, ReadyIsTested, Exists
<1>12. SeenReady'
  BY <1>4, <1>6 DEF IInv, SeenReady
<1> QED
  BY <1>7, <1>8, <1>9, <1>11, <1>12 DEF IInv

\* What is written is a name and a status, and the status is never READY
\* unless the connection is READY already.
LEMMA ChangeCommitInv ==
    ASSUME IInv, NEW s \in Callers, ChangeCommit(s)
    PROVE  IInv'
<1> DEFINE c == session[s].connection
           seen == session[s].seen
           wanted == session[s].new
           new == Flush(row[c], seen, wanted)
<1>1. /\ TypeOK /\ session[s].pc = "changing" /\ c \in Connections /\ Exists(c)
      /\ row[c] \in Row /\ seen \in Row /\ wanted \in Row
  BY SessionTypes, RowTypes DEF ChangeCommit, SessionAt, IInv, OnRows
<1>2. /\ wanted.engine = seen.engine /\ wanted.arn = seen.arn
      /\ wanted.status \in {seen.status, "DISABLED", "DRAFT"}
  BY <1>1 DEF IInv, ChangeInv, SessionAt
<1>3. /\ new \in Row /\ new.engine = row[c].engine /\ new.arn = row[c].arn
      /\ new.status \in {row[c].status, "DISABLED", "DRAFT"}
  BY <1>1, <1>2, FlushType
<1>4. /\ row' = row \/ row' = [row EXCEPT ![c] = new]
      /\ secret' = secret /\ creator' = creator /\ test' = test /\ tested' = tested
      /\ orphan' = orphan /\ lost' = lost /\ raced' = raced
  BY <1>1 DEF ChangeCommit, TypeOK
<1> HIDE DEF new
<1>5. /\ \A d \in Connections \ {c} : row'[d] = row[d]
      /\ row'[c] \in Row /\ row'[c].engine = row[c].engine /\ row'[c].arn = row[c].arn
      /\ row'[c].status \in {row[c].status, "DISABLED", "DRAFT"}
      /\ row' \in [Connections -> Row \cup {NoRow}]
  BY <1>1, <1>3, <1>4 DEF TypeOK
<1>6. RowsStay
  BY <1>1, <1>5 DEF RowsStay, Exists, Row, NoRow, Engines
<1>7. /\ session' \in [Callers -> Session]
      /\ session'[s] = Idle
      /\ \A t \in Callers \ {s} : session'[t] = session[t]
      /\ \A d \in Connections : Updating(d)' => Updating(d)
      /\ \A d \in Connections : Unsettled(d) => Unsettled(d)'
  BY <1>1, SessionEnds DEF ChangeCommit
<1>8. TypeOK'
  BY <1>1, <1>4, <1>6, <1>7 DEF TypeOK, RowsStay
<1>9. CreatorInv'
  BY <1>4, <1>6, CreatorsStay
<1>10. OnRows' /\ ChangeInv'
  <2>1. \A t \in Callers : session[t] # Idle => session[t].connection \in Connections
    BY <1>1, SessionTypes
  <2> QED
    BY <1>4, <1>6, <1>7, <2>1 DEF IInv, OnRows, ChangeInv, RowsStay, SessionAt, Idle
<1>11. StoredSecretHasOwner' /\ DatabaseHasSecret'
  BY <1>1, <1>4, <1>5, <1>6 DEF IInv, StoredSecretHasOwner, DatabaseHasSecret, RowsStay
<1>12. TestIsCurrent'
  BY <1>4, <1>7 DEF IInv, TestIsCurrent
<1>13. \A d \in Connections : row'[d].status = "READY" => row[d].status = "READY"
  BY <1>1, <1>5
<1>14. SeenReady'
  <2>1. \A t \in Callers : session[t].pc \in {"read", "put"} => session[t].connection \in Connections
    BY <1>1, SessionTypes DEF Idle
  <2> QED
    BY <1>4, <1>7, <1>13, <2>1 DEF IInv, SeenReady, Idle
<1>15. ReadyIsTested'
  BY <1>1, <1>4, <1>5, <1>6, <1>7, <1>13 DEF IInv, ReadyIsTested, RowsStay
<1> QED
  BY <1>8, <1>9, <1>10, <1>11, <1>12, <1>14, <1>15 DEF IInv

-----------------------------------------------------------------------------
(* The worker that tests.                                                  *)

\* A test writes the status and nothing else of a row.
LEMMA StatusWritten ==
    ASSUME TypeOK, NEW c \in Connections, Exists(c), NEW status \in Status,
           row' = [row EXCEPT ![c].status = status]
    PROVE  /\ RowsStay
           /\ \A d \in Connections \ {c} : row'[d] = row[d]
           /\ row'[c].status = status
           /\ row'[c].engine = row[c].engine /\ row'[c].arn = row[c].arn
<1>1. row[c] \in Row
  BY RowTypes
<1>2. row'[c] = [row[c] EXCEPT !.status = status] /\ \A d \in Connections \ {c} : row'[d] = row[d]
  BY DEF TypeOK
<1>3. /\ row'[c] \in Row /\ row'[c].status = status
      /\ row'[c].engine = row[c].engine /\ row'[c].arn = row[c].arn
  BY <1>1, <1>2 DEF Row
<1>4. row' \in [Connections -> Row \cup {NoRow}]
  BY <1>2, <1>3 DEF TypeOK
<1>5. \A d \in Connections : Exists(d)' <=> Exists(d)
  BY <1>1, <1>2, <1>3 DEF Exists, Row, NoRow, Engines
<1> QED
  BY <1>2, <1>3, <1>4, <1>5 DEF RowsStay

LEMMA TestBeginInv ==
    ASSUME IInv, NEW c \in Connections, TestBegin(c)
    PROVE  IInv'
<1>1. TypeOK /\ Exists(c)
  BY DEF IInv, TestBegin, Testable
<1>2. /\ secret' = secret /\ creator' = creator /\ session' = session /\ tested' = tested
      /\ orphan' = orphan /\ lost' = lost
      /\ raced' = IF Updating(c) THEN raced \cup {c} ELSE raced
      /\ \A d \in Connections \ {c} : test'[d] = test[d]
      /\ test'[c] = [running |-> TRUE, with |-> secret[c]]
      /\ test' \in [Connections -> [running : BOOLEAN, with : Credentials \cup {NULL}]]
  BY <1>1 DEF TestBegin, RacedIf, TypeOK
<1>3. /\ RowsStay
      /\ \A d \in Connections \ {c} : row'[d] = row[d]
      /\ row'[c].status = "TESTING"
      /\ row'[c].engine = row[c].engine /\ row'[c].arn = row[c].arn
  BY <1>1, StatusWritten DEF TestBegin, Status
<1>4. /\ raced \subseteq raced' /\ raced' \subseteq Connections
      /\ Updating(c) => c \in raced'
  BY <1>1, <1>2 DEF TypeOK
<1>5. TypeOK'
  BY <1>1, <1>2, <1>3, <1>4 DEF TypeOK, RowsStay
<1>6. CreatorInv'
  BY <1>2, <1>3, CreatorsStay
<1>7. \A t \in Callers : session[t] # Idle => session[t].connection \in Connections
  BY <1>1, SessionTypes
<1>8. OnRows' /\ ChangeInv'
  BY <1>1, <1>2, <1>3, <1>7 DEF IInv, OnRows, ChangeInv, RowsStay, SessionAt
<1>9. StoredSecretHasOwner' /\ DatabaseHasSecret'
  BY <1>2, <1>3 DEF IInv, StoredSecretHasOwner, DatabaseHasSecret, RowsStay
<1>10. TestIsCurrent'
  BY <1>2, <1>4 DEF IInv, TestIsCurrent, Updating
<1>11. SeenReady'
  BY <1>2, <1>3, <1>4, <1>7 DEF IInv, SeenReady, Idle
<1>12. ReadyIsTested'
  BY <1>2, <1>3, <1>4 DEF IInv, ReadyIsTested, RowsStay, Unsettled
<1> QED
  BY <1>5, <1>6, <1>8, <1>9, <1>10, <1>11, <1>12 DEF IInv

\* A test that no update ran into finds good what is stored now.
LEMMA TestEndInv ==
    ASSUME IInv, NEW c \in Connections, TestEnd(c)
    PROVE  IInv'
<1>1. TypeOK /\ Exists(c) /\ test[c].running /\ test[c].with \in Credentials \cup {NULL}
  BY DEF IInv, TestEnd, OnRows, TypeOK
<1>2. /\ secret' = secret /\ creator' = creator /\ session' = session
      /\ orphan' = orphan /\ lost' = lost
      /\ raced' = IF Updating(c) THEN raced \cup {c} ELSE raced
      /\ \A d \in Connections \ {c} : test'[d] = test[d]
      /\ ~test'[c].running
      /\ test' \in [Connections -> [running : BOOLEAN, with : Credentials \cup {NULL}]]
  BY <1>1 DEF TestEnd, RacedIf, TypeOK
<1>3. /\ RowsStay
      /\ \A d \in Connections \ {c} : row'[d] = row[d]
      /\ row'[c].engine = row[c].engine /\ row'[c].arn = row[c].arn
      /\ tested' \in [Connections -> Credentials \cup {NULL}]
      /\ \A d \in Connections \ {c} : tested'[d] = tested[d]
      /\ \/ row'[c].status = "READY" /\ tested'[c] = test[c].with
         \/ row'[c].status = "ERROR"
  <2>1. CASE row' = [row EXCEPT ![c].status = "READY"] /\ tested' = [tested EXCEPT ![c] = test[c].with]
    <3>1. /\ RowsStay
          /\ \A d \in Connections \ {c} : row'[d] = row[d]
          /\ row'[c].status = "READY"
          /\ row'[c].engine = row[c].engine /\ row'[c].arn = row[c].arn
      BY <1>1, <2>1, StatusWritten DEF Status
    <3>2. /\ tested' \in [Connections -> Credentials \cup {NULL}]
          /\ \A d \in Connections \ {c} : tested'[d] = tested[d]
          /\ tested'[c] = test[c].with
      BY <1>1, <2>1 DEF TypeOK
    <3> QED
      BY <3>1, <3>2
  <2>2. CASE row' = [row EXCEPT ![c].status = "ERROR"] /\ tested' = tested
    BY <1>1, <2>2, StatusWritten DEF Status, TypeOK
  <2> QED
    BY <2>1, <2>2 DEF TestEnd
<1>4. /\ raced \subseteq raced' /\ raced' \subseteq Connections
      /\ Updating(c) => c \in raced'
  BY <1>1, <1>2 DEF TypeOK
<1>5. TypeOK'
  BY <1>1, <1>2, <1>3, <1>4 DEF TypeOK, RowsStay
<1>6. CreatorInv'
  BY <1>2, <1>3, CreatorsStay
<1>7. \A t \in Callers : session[t] # Idle => session[t].connection \in Connections
  BY <1>1, SessionTypes
<1>8. OnRows' /\ ChangeInv'
  BY <1>1, <1>2, <1>3, <1>7 DEF IInv, OnRows, ChangeInv, RowsStay, SessionAt
<1>9. StoredSecretHasOwner' /\ DatabaseHasSecret'
  BY <1>2, <1>3 DEF IInv, StoredSecretHasOwner, DatabaseHasSecret, RowsStay
<1>10. TestIsCurrent'
  BY <1>2, <1>4 DEF IInv, TestIsCurrent, Updating
<1>11. SeenReady'
  <2>1. \A t \in Callers : session[t].pc \in {"read", "put"} /\ session[t].connection = c => Updating(c)
    BY DEF Updating
  <2> QED
    BY <1>2, <1>3, <1>4, <1>7, <2>1 DEF IInv, SeenReady, Idle
<1>12. ReadyIsTested'
  <2>1. c \notin lost \cup raced => test[c].with = secret[c]
    BY <1>1 DEF IInv, TestIsCurrent
  <2> QED
    BY <1>2, <1>3, <1>4, <2>1 DEF IInv, ReadyIsTested, RowsStay, Unsettled
<1> QED
  BY <1>5, <1>6, <1>8, <1>9, <1>10, <1>11, <1>12 DEF IInv

-----------------------------------------------------------------------------
LEMMA StutterInv == ASSUME IInv, UNCHANGED vars PROVE IInv'
<1>1. /\ row' = row /\ secret' = secret /\ creator' = creator /\ session' = session /\ test' = test
      /\ tested' = tested /\ orphan' = orphan /\ lost' = lost /\ raced' = raced
  BY DEF vars
<1>2. TypeOK' /\ CreatorInv' /\ OnRows' /\ ChangeInv'
  BY <1>1 DEF IInv, TypeOK, CreatorInv, OnRows, ChangeInv, Exists, SessionAt
<1>3. /\ StoredSecretHasOwner' /\ DatabaseHasSecret' /\ TestIsCurrent' /\ SeenReady' /\ ReadyIsTested'
  BY <1>1 DEF IInv, StoredSecretHasOwner, DatabaseHasSecret, TestIsCurrent, SeenReady, ReadyIsTested,
              Exists, Updating, Unsettled
<1> QED
  BY <1>2, <1>3 DEF IInv

LEMMA InductiveStep == IInv /\ [Next]_vars => IInv'
<1> SUFFICES ASSUME IInv, [Next]_vars PROVE IInv'
  OBVIOUS
<1>1. ASSUME NEW c \in Connections,
             \/ CreateBegin(c) \/ CreateUpload(c) \/ CreateFlush(c)
             \/ CreateSecret(c) \/ CreateSecretFails(c)
             \/ CreateCommit(c) \/ CreateCommitFails(c) \/ CleanUp(c) \/ CreatorCrash(c)
      PROVE  IInv'
  BY <1>1, CreatorMoves, CreateUploadInv, CreateSecretInv, CreateCommitInv, CleanUpInv
<1>2. ASSUME NEW c \in Connections, TestBegin(c) \/ TestEnd(c)
      PROVE  IInv'
  BY <1>2, TestBeginInv, TestEndInv
<1>3. ASSUME NEW s \in Callers, NEW c \in Connections, UpdateBegin(s, c) \/ ChangeBegin(s, c)
      PROVE  IInv'
  BY <1>3, UpdateBeginInv, ChangeBeginInv
<1>4. ASSUME NEW s \in Callers, UpdateSecret(s) \/ UpdateFails(s) \/ UpdateCommit(s) \/ ChangeCommit(s)
      PROVE  IInv'
  BY <1>4, UpdateSecretInv, UpdateFailsInv, UpdateCommitInv, ChangeCommitInv
<1>5. CASE UNCHANGED vars
  BY <1>5, StutterInv
<1> QED
  BY <1>1, <1>2, <1>3, <1>4, <1>5 DEF Next

LEMMA Invariance == Spec => []IInv
<1> QED
  BY InitHolds, InductiveStep, PTL DEF Spec

\* Every variable keeps its type: above all, a row that was written column by
\* column is still a row.
THEOREM TypeCorrect == Spec => []TypeOK
<1>1. IInv => TypeOK
  BY DEF IInv
<1> QED
  BY <1>1, Invariance, PTL

\* create_connection leaves no secret behind that nobody owns, whatever fails,
\* except where the process died or the store did not answer.
THEOREM SecretsHaveOwners == Spec => []StoredSecretHasOwner
<1>1. IInv => StoredSecretHasOwner
  BY DEF IInv
<1> QED
  BY <1>1, Invariance, PTL

\* A committed connection with a database always has credentials to fetch,
\* unless the answer of the commit that created it was lost.
THEOREM DatabasesHaveSecrets == Spec => []DatabaseHasSecret
<1>1. IInv => DatabaseHasSecret
  BY DEF IInv
<1> QED
  BY <1>1, Invariance, PTL

\* READY means that the stored credentials were tested, for any number of
\* requests that update, disable and rename at once, outside of the windows
\* update_credentials leaves open.
THEOREM ReadyMeansTested == Spec => []ReadyIsTested
<1>1. IInv => ReadyIsTested
  BY DEF IInv
<1> QED
  BY <1>1, Invariance, PTL
=============================================================================
