----------------------- MODULE EndpointEditing_proofs -----------------------
(***************************************************************************)
(* Proofs about EndpointEditing, for any number of users, clients,         *)
(* endpoints and paths and every duration and bound.                       *)
(***************************************************************************)
EXTENDS EndpointEditing, TLAPS

USE KindsAssumption, UserOfAssumption, StatusAssumption, DurationAssumption,
    BoundAssumption, WriteGapAssumption, NullAssumption

-----------------------------------------------------------------------------
(* Type correctness.  TypeOK is not inductive: a handler may use what the  *)
(* earlier steps of its route put in the request.                          *)

EndpointKinds == {"lock", "unlock", "put", "status", "delete"}
Leased == [userId : Users, expiresAt : Nat]

\* What a request has filled in by the time it gets to its pc.
Filled(q) ==
  /\ q.kind \in EndpointKinds => q.e \in Endpoints
  /\ q.kind \in {"put", "create"} => q.key \in Keys
  /\ q.pc = "match" => q.kind \in EndpointKinds
  /\ q.pc = "write" /\ q.kind \in {"put", "status"} => q.before \in Row
  /\ q.pc = "reply" /\ q.kind \in {"put", "status", "create"} =>
       q.e \in Endpoints /\ q.result \in Row
  /\ q.pc = "reply" /\ q.kind \in {"import", "save"} => q.result \in Version

WellFormed == TypeOK /\ \A c \in Clients : req[c] # Idle => Filled(req[c])

LEMMA InitWellFormed == Init => WellFormed
<1> SUFFICES ASSUME Init PROVE WellFormed
  OBVIOUS
<1>1. \A e \in Endpoints, k \in Keys : InitialRow(e, k) \in Row
  BY DEF InitialRow, Row
<1>2. row \in [Endpoints -> Row \cup NoRow]
  BY <1>1 DEF Init, NoRow
<1>3. project \in Version
  BY DEF Init, Version
<1>4. seen \in [Clients -> [rows : [Endpoints -> Row \cup NoRow],
                            project : Version \cup {Deleted}]]
  BY <1>2, <1>3 DEF Init
<1> QED
  BY <1>2, <1>3, <1>4 DEF Init, WellFormed, TypeOK

LEMMA RowsThere ==
  ASSUME TypeOK, NEW e \in Existing
  PROVE  e \in Endpoints /\ row[e] \in Row
BY DEF TypeOK, Existing, NoRow

\* A step that writes only the request of c.
LEMMA OnlyRequest ==
  ASSUME WellFormed, NEW c \in Clients, NEW q \in Request \cup {Idle},
         q # Idle => Filled(q),
         req' = [req EXCEPT ![c] = q],
         UNCHANGED <<now, lease, dbVars, seen>>
  PROVE  WellFormed'
BY DEF WellFormed, TypeOK, dbVars, Filled

LEMMA ReplyType ==
  ASSUME WellFormed, NEW c \in Clients, Reply(c)
  PROVE  WellFormed'
BY OnlyRequest DEF Reply

LEMMA GotoType ==
  ASSUME WellFormed, NEW c \in Clients, req[c] # Idle,
         NEW pc \in {"guard", "read", "handle"}, Goto(c, pc),
         UNCHANGED <<now, lease, dbVars, seen>>
  PROVE  WellFormed'
<1> DEFINE q == [req[c] EXCEPT !.pc = pc]
<1>1. req[c] \in Request /\ Filled(req[c])
  BY DEF WellFormed, TypeOK
<1>2. q \in Request /\ Filled(q)
  BY <1>1 DEF Request, Filled
<1>3. req' = [req EXCEPT ![c] = q]
  BY DEF Goto, WellFormed, TypeOK
<1> QED
  BY <1>2, <1>3, OnlyRequest

LEMMA BlankType ==
  ASSUME NEW kind \in AllKinds, NEW pc \in {"match", "write"}
  PROVE  Blank(kind, pc) \in Request
<1>1. [k \in Keys |-> Omitted] \in Specs
  BY DEF Specs
<1> QED
  BY <1>1 DEF Blank, Request

LEMMA SetFields ==
  ASSUME NEW q \in Request, NEW e \in Endpoints \cup {Unborn},
         NEW k \in Keys \cup {Omitted}, NEW s \in Statuses
  PROVE  /\ [q EXCEPT !.e = e, !.status = s] \in Request
         /\ [q EXCEPT !.key = k, !.status = s] \in Request
         /\ [q EXCEPT !.e = e, !.key = k, !.status = s] \in Request
BY DEF Request

LEMMA LoadType ==
  ASSUME WellFormed, NEW c \in Clients, Load(c)
  PROVE  WellFormed'
BY DEF Load, WellFormed, TypeOK, dbVars, Filled

LEMMA SendType ==
  ASSUME WellFormed, NEW c \in Clients, SendOnEndpoint(c) \/ SendOnProject(c)
  PROVE  WellFormed'
<1>1. ASSUME NEW q \in Request, Filled(q), Send(c, q)
      PROVE  WellFormed'
  BY <1>1, OnlyRequest DEF Send
<1>2. ASSUME NEW e \in Endpoints, NEW kind \in {"lock", "unlock", "delete"}
      PROVE  LET q == [Blank(kind, "match") EXCEPT !.e = e]
             IN  q \in Request /\ Filled(q)
  <2> DEFINE q == [Blank(kind, "match") EXCEPT !.e = e]
  <2>1. q \in Request
    BY BlankType DEF Request, AllKinds
  <2>2. q.kind = kind /\ q.pc = "match" /\ q.e = e
    BY DEF Blank
  <2> QED
    BY <2>1, <2>2 DEF Filled, EndpointKinds
<1>11. ASSUME NEW e \in Endpoints, NEW s \in Statuses
      PROVE  LET q == [Blank("status", "match") EXCEPT !.e = e, !.status = s]
             IN  q \in Request /\ Filled(q)
  <2> DEFINE q == [Blank("status", "match") EXCEPT !.e = e, !.status = s]
  <2>1. q \in Request
    BY BlankType, SetFields DEF AllKinds
  <2>2. q.kind = "status" /\ q.pc = "match" /\ q.e = e
    BY DEF Blank
  <2> QED
    BY <2>1, <2>2 DEF Filled, EndpointKinds
<1>10. ASSUME NEW e \in Endpoints, NEW k \in Keys, NEW s \in Statuses
      PROVE  LET q == [Blank("put", "match") EXCEPT !.e = e, !.key = k, !.status = s]
             IN  q \in Request /\ Filled(q)
  <2> DEFINE q == [Blank("put", "match") EXCEPT !.e = e, !.key = k, !.status = s]
  <2>1. q \in Request
    BY BlankType, SetFields DEF AllKinds
  <2>2. q.kind = "put" /\ q.pc = "match" /\ q.e = e /\ q.key = k
    BY DEF Blank
  <2> QED
    BY <2>1, <2>2 DEF Filled, EndpointKinds
<1>3. ASSUME NEW k \in Keys, NEW s \in Statuses
      PROVE  LET q == [Blank("create", "write") EXCEPT !.key = k, !.status = s]
             IN  q \in Request /\ Filled(q)
  <2> DEFINE q == [Blank("create", "write") EXCEPT !.key = k, !.status = s]
  <2>1. q \in Request
    BY BlankType, SetFields DEF AllKinds
  <2>2. q.kind = "create" /\ q.pc = "write" /\ q.key = k
    BY DEF Blank
  <2> QED
    BY <2>1, <2>2 DEF Filled, EndpointKinds
<1>4. ASSUME NEW spec \in Specs
      PROVE  LET q == [Blank("import", "write") EXCEPT !.spec = spec]
             IN  q \in Request /\ Filled(q)
  BY BlankType DEF Blank, Request, AllKinds, Filled, EndpointKinds
<1>5. ASSUME NEW kind \in {"save", "drop"}
      PROVE  Blank(kind, "write") \in Request /\ Filled(Blank(kind, "write"))
  BY BlankType DEF Blank, AllKinds, Filled, EndpointKinds
<1>6. ASSUME NEW K \in SUBSET Keys, NEW edited \in SUBSET K
      PROVE  [k \in Keys |-> IF k \notin K THEN Omitted
                             ELSE IF k \in edited \/ BodySeen(c, k) = {} THEN Fresh
                             ELSE CHOOSE b \in BodySeen(c, k) : TRUE] \in Specs
  <2>1. \A k \in Keys : BodySeen(c, k) \subseteq Nat
    BY DEF BodySeen, WellFormed, TypeOK, NoRow, Row
  <2>2. \A k \in Keys : BodySeen(c, k) # {} => (CHOOSE b \in BodySeen(c, k) : TRUE) \in Nat
    BY <2>1
  <2> QED
    BY <2>2 DEF Specs
<1>7. CASE SendOnEndpoint(c)
  BY <1>1, <1>2, <1>11, <1>10, <1>7 DEF SendOnEndpoint
<1>8. CASE SendOnProject(c)
  BY <1>1, <1>3, <1>4, <1>5, <1>6, <1>8 DEF SendOnProject
<1> QED
  BY <1>7, <1>8

\* The steps before the write.
LEMMA GuardType ==
  ASSUME WellFormed, NEW c \in Clients, GuardStep(c)
  PROVE  WellFormed'
<1>1. CASE MatchGuard(c)
  <2>1. req[c].kind \in EndpointKinds \ {"delete"} \/ req[c].kind = "delete"
    BY <1>1 DEF MatchGuard, WellFormed, Filled, EndpointKinds
  <2>2. CASE req[c].kind \in EndpointKinds \ {"delete"}
    <3>1. \E pc \in {"guard", "read", "handle"} : Goto(c, pc)
      BY <1>1, <2>2 DEF MatchGuard, EndpointKinds
    <3> QED
      BY <1>1, <3>1, GotoType DEF MatchGuard
  <2>3. CASE req[c].kind = "delete"
    <3> DEFINE q == [req[c] EXCEPT !.pc = "write"]
    <3>1. req' = [req EXCEPT ![c] = q]
      BY <1>1, <2>3 DEF MatchGuard, Goto, WellFormed, TypeOK
    <3>2. req[c] \in Request /\ Filled(req[c])
      BY <1>1 DEF MatchGuard, WellFormed, TypeOK
    <3>3. q \in Request /\ q.kind = "delete" /\ q.pc = "write" /\ q.e = req[c].e
      BY <2>3, <3>2 DEF Request
    <3>4. Filled(q)
      BY <2>3, <3>2, <3>3 DEF Filled
    <3> QED
      BY <1>1, <3>1, <3>3, <3>4, OnlyRequest DEF MatchGuard
  <2> QED
    BY <2>1, <2>2, <2>3
<1>2. CASE NotInProject(c) \/ LockMissing(c)
  BY <1>2, ReplyType DEF NotInProject, LockMissing
<1>3. CASE LockOwnerGuard(c)
  BY <1>3, GotoType DEF LockOwnerGuard, At
<1>4. ASSUME HandleLock(c) \/ HandleUnlock(c)
      PROVE  WellFormed'
  <2>1. lease' \in [Endpoints -> Leased \cup {NoLease}] /\ now' = now
    <3>1. req[c].e \in Endpoints
      BY <1>4 DEF HandleLock, HandleUnlock, At, WellFormed, Filled, EndpointKinds
    <3>2. UserOf[c] \in Users /\ now + LockDuration \in Nat
      BY DEF WellFormed, TypeOK
    <3> QED
      BY <1>4, <3>1, <3>2 DEF HandleLock, HandleUnlock, Lease!Grant, Lease!GiveUp,
         WellFormed, TypeOK, Leased
  <2>2. req' = [req EXCEPT ![c] = Idle] /\ UNCHANGED <<dbVars, seen>>
    BY <1>4 DEF HandleLock, HandleUnlock
  <2> QED
    BY <2>1, <2>2 DEF WellFormed, TypeOK, Leased, dbVars, Filled
<1> QED
  BY <1>1, <1>2, <1>3, <1>4 DEF GuardStep

\* A database write that leaves well-typed rows.
LEMMA CommitType ==
  ASSUME WellFormed, NEW c \in Clients, req[c] # Idle, req[c].kind # "create",
         NEW result \in Row \cup Version \cup {Unborn},
         req[c].kind \in {"put", "status"} => result \in Row,
         req[c].kind \in {"import", "save"} => result \in Version,
         row' \in [Endpoints -> Row \cup NoRow],
         project' \in Version \cup {Deleted},
         Commit(c, result)
  PROVE  WellFormed'
<1> DEFINE q == [req[c] EXCEPT !.pc = "reply", !.result = result]
<1>1. req[c] \in Request /\ Filled(req[c])
  BY DEF WellFormed, TypeOK
<1>2. /\ q \in Request
      /\ q.kind = req[c].kind /\ q.pc = "reply" /\ q.result = result
      /\ q.e = req[c].e /\ q.key = req[c].key
  BY <1>1 DEF Request
<1>3. Filled(q)
  BY <1>1, <1>2 DEF Filled, EndpointKinds
<1>4. req' = [req EXCEPT ![c] = q]
  BY DEF Commit
<1>5. commits' \in Nat /\ UNCHANGED <<now, lease, seen>>
  BY DEF Commit, WellFormed, TypeOK
<1> HIDE DEF q
<1>6. req' \in [Clients -> Request \cup {Idle}]
  BY <1>2, <1>4 DEF WellFormed, TypeOK
<1>7. \A d \in Clients : req'[d] # Idle => Filled(req'[d])
  BY <1>3, <1>4 DEF WellFormed, TypeOK
<1> QED
  BY <1>5, <1>6, <1>7 DEF WellFormed, TypeOK

LEMMA StampType ==
  ASSUME WellFormed, NEW r \in Row
  PROVE  /\ Stamp(r) \in Row /\ Stamp(r).updatedAt = now
         /\ Stamp(r).key = r.key /\ Stamp(r).status = r.status /\ Stamp(r).body = r.body
<1>1. commits + 1 \in Nat /\ now \in Nat
  BY DEF WellFormed, TypeOK
<1> QED
  BY <1>1 DEF Stamp, Row

LEMMA EndpointType ==
  ASSUME WellFormed, NEW c \in Clients, EndpointStep(c)
  PROVE  WellFormed'
<1>0. commits + 1 \in Nat
  BY DEF WellFormed, TypeOK
<1>1. ASSUME \/ Invalid(c) \/ ReadEnds(c) \/ PutRefused(c) \/ StatusRefused(c)
             \/ DeleteRefused(c) \/ CreateRefused(c)
      PROVE  WellFormed'
  BY <1>1, ReplyType DEF Invalid, ReadEnds, PutRefused, StatusRefused,
     DeleteRefused, CreateRefused
<1>2. CASE ReadRow(c)
  <2> DEFINE q == [req[c] EXCEPT !.pc = "write", !.before = row[req[c].e]]
  <2>1. /\ req[c] \in Request /\ Filled(req[c])
        /\ req[c].kind \in {"put", "status"} /\ row[req[c].e] \in Row
    BY <1>2, RowsThere DEF ReadRow, At, GoesOn, WellFormed, TypeOK
  <2>2. /\ q \in Request
        /\ q.kind = req[c].kind /\ q.pc = "write" /\ q.before \in Row
        /\ q.e = req[c].e /\ q.key = req[c].key
    BY <2>1 DEF Request
  <2>3. Filled(q)
    BY <2>1, <2>2 DEF Filled, EndpointKinds
  <2>4. req' = [req EXCEPT ![c] = q]
    BY <1>2 DEF ReadRow
  <2> QED
    BY <1>2, <2>2, <2>3, <2>4, OnlyRequest DEF ReadRow
<1>3. CASE PutCommit(c)
  <2> DEFINE q == req[c]
             old == [row[q.e] EXCEPT !.key = q.key, !.status = q.status, !.body = commits + 1]
  <2>1. /\ q # Idle /\ q.kind = "put"
        /\ q.e \in Endpoints /\ q.key \in Keys /\ q.status \in Statuses /\ row[q.e] \in Row
    BY <1>3, RowsThere DEF PutCommit, At, PutMatches, WellFormed, TypeOK, Filled, Request
  <2>2. old \in Row
    BY <2>1, <1>0 DEF Row
  <2>3. Stamp(old) \in Row
    BY <2>2, StampType
  <2>4. row' = [row EXCEPT ![q.e] = Stamp(old)] /\ Commit(c, Stamp(old)) /\ project' = project
    BY <1>3 DEF PutCommit
  <2>5. row' \in [Endpoints -> Row \cup NoRow] /\ project' \in Version \cup {Deleted}
    BY <2>3, <2>4 DEF WellFormed, TypeOK
  <2> QED
    BY <2>1, <2>3, <2>4, <2>5, CommitType
<1>4. CASE StatusCommit(c)
  <2> DEFINE q == req[c]
             old == [row[q.e] EXCEPT !.status = q.status]
  <2>1. /\ q # Idle /\ q.kind = "status"
        /\ q.e \in Endpoints /\ q.status \in Statuses /\ row[q.e] \in Row
    BY <1>4, RowsThere DEF StatusCommit, At, StatusMatches, WellFormed, TypeOK, Request
  <2>2. old \in Row
    BY <2>1 DEF Row
  <2>3. Stamp(old) \in Row
    BY <2>2, StampType
  <2>4. row' = [row EXCEPT ![q.e] = Stamp(old)] /\ Commit(c, Stamp(old)) /\ project' = project
    BY <1>4 DEF StatusCommit
  <2>5. row' \in [Endpoints -> Row \cup NoRow] /\ project' \in Version \cup {Deleted}
    BY <2>3, <2>4 DEF WellFormed, TypeOK
  <2> QED
    BY <2>1, <2>3, <2>4, <2>5, CommitType
<1>5. CASE DeleteCommit(c)
  <2>1. req[c] # Idle /\ req[c].kind = "delete" /\ Commit(c, Unborn)
    BY <1>5 DEF DeleteCommit, At
  <2>2. row' \in [Endpoints -> Row \cup NoRow] /\ project' \in Version \cup {Deleted}
    BY <1>5 DEF DeleteCommit, WellFormed, TypeOK, NoRow
  <2> QED
    BY <2>1, <2>2, CommitType
<1>6. CASE CreateCommit(c)
  <2> DEFINE new == NewRow(req[c].key, req[c].status)
  <2>1. req[c] \in Request /\ Filled(req[c]) /\ req[c].kind = "create"
    BY <1>6 DEF CreateCommit, At, WellFormed, TypeOK
  <2>2. req[c].key \in Keys /\ req[c].status \in Statuses
    BY <2>1 DEF Filled, Request
  <2>3. new \in Row
    <3>1. [key |-> req[c].key, status |-> req[c].status, body |-> commits + 1,
           rev |-> 0, updatedAt |-> 0] \in Row
      BY <1>0, <2>2 DEF Row
    <3> QED
      BY <3>1, StampType DEF NewRow
  <2>4. PICK e \in Endpoints :
          /\ row' = [row EXCEPT ![e] = new]
          /\ req' = [req EXCEPT ![c].pc = "reply", ![c].e = e, ![c].result = new]
    BY <1>6 DEF CreateCommit
  <2> DEFINE q == [req[c] EXCEPT !.pc = "reply", !.e = e, !.result = new]
  <2>5. /\ q \in Request
        /\ q.kind = "create" /\ q.pc = "reply" /\ q.result = new
        /\ q.e = e /\ q.key = req[c].key
    <3> HIDE DEF new
    <3> QED
      BY <2>1, <2>3 DEF Request
  <2>6. Filled(q)
    BY <2>1, <2>2, <2>3, <2>5 DEF Filled, EndpointKinds
  <2>7. req' = [req EXCEPT ![c] = q]
    BY <2>4 DEF WellFormed, TypeOK
  <2>8. row' \in [Endpoints -> Row \cup NoRow]
    BY <2>3, <2>4 DEF WellFormed, TypeOK
  <2> QED
    BY <1>0, <1>6, <2>5, <2>6, <2>7, <2>8 DEF CreateCommit, WellFormed, TypeOK
<1> QED
  BY <1>1, <1>2, <1>3, <1>4, <1>5, <1>6 DEF EndpointStep

LEMMA VersionType ==
  ASSUME WellFormed
  PROVE  NewVersion \in Version /\ NewVersion.updatedAt = now
BY DEF NewVersion, Version, WellFormed, TypeOK

\* What an import of spec, with these ids for its new rows, makes of each row.
ImportEffect(spec, id) ==
  /\ \A k, l \in ToCreate(spec) : id[k] = id[l] => k = l
  /\ \A e \in ToDelete(spec) : row'[e] = Deleted
  /\ \A e \in ToUpdate(spec) :
       /\ row'[e] \in Row /\ row'[e].updatedAt = now /\ Timely(row[e])
       /\ row'[e].key = row[e].key /\ row'[e].status = row[e].status
       /\ row'[e].body = Content(spec[row[e].key])
  /\ \A k \in ToCreate(spec) :
       row'[id[k]] \in Row /\ row'[id[k]].key = k /\ row'[id[k]].body = Content(spec[k])
  /\ \A e \in Endpoints :
       \/ e \in ToDelete(spec) \/ e \in ToUpdate(spec)
       \/ \E k \in ToCreate(spec) : id[k] = e
       \/ row'[e] = row[e]
  /\ row' = [e \in Endpoints |-> row'[e]]

LEMMA ImportRows ==
  ASSUME WellFormed, NEW c \in Clients, ImportCommit(c)
  PROVE  \E id \in [ToCreate(req[c].spec) -> {e \in Endpoints : row[e] = Unborn}] :
           ImportEffect(req[c].spec, id)
<1> DEFINE spec == req[c].spec
           Free == {e \in Endpoints : row[e] = Unborn}
           fresh(k) == [NewRow(k, Draft) EXCEPT !.body = Content(spec[k])]
           of(id, e) == CHOOSE k \in ToCreate(spec) : id[k] = e
           update(e) == Stamp([row[e] EXCEPT !.body = Content(spec[row[e].key])])
<1>1. PICK id \in [ToCreate(spec) -> Free] :
        /\ \A k, l \in ToCreate(spec) : id[k] = id[l] => k = l
        /\ row' = [e \in Endpoints |->
             CASE e \in ToDelete(spec) -> Deleted
               [] e \in ToUpdate(spec) -> update(e)
               [] \E k \in ToCreate(spec) : id[k] = e -> fresh(of(id, e))
               [] OTHER -> row[e]]
  BY DEF ImportCommit
<1> HIDE DEF update, fresh, of
<1>2. /\ spec \in Specs /\ commits + 1 \in Nat
      /\ \A e \in ToUpdate(spec) : Timely(row[e])
  BY DEF ImportCommit, At, WellFormed, TypeOK, Request
<1>3. \A k \in InSpec(spec) : k \in Keys /\ Content(spec[k]) \in Nat
  BY <1>2 DEF InSpec, Content, Specs
<1>4. ASSUME NEW e \in ToUpdate(spec)
      PROVE  /\ update(e) \in Row /\ update(e).updatedAt = now
             /\ update(e).key = row[e].key /\ update(e).status = row[e].status
             /\ update(e).body = Content(spec[row[e].key])
             /\ e \in Existing \ ToDelete(spec)
  <2>1. e \in Existing \ ToDelete(spec) /\ row[e].key \in InSpec(spec)
    BY DEF ToUpdate, ToDelete
  <2>2. row[e] \in Row /\ Content(spec[row[e].key]) \in Nat
    BY <2>1, <1>3, RowsThere DEF WellFormed
  <2> DEFINE b == Content(spec[row[e].key])
             r == [row[e] EXCEPT !.body = b]
  <2>3. r \in Row /\ r.key = row[e].key /\ r.status = row[e].status /\ r.body = b
    BY <2>2 DEF Row
  <2> QED
    BY <2>1, <2>3, StampType DEF update
<1>5. ASSUME NEW k \in ToCreate(spec)
      PROVE  fresh(k) \in Row /\ fresh(k).key = k /\ fresh(k).body = Content(spec[k])
  <2>1. k \in Keys /\ Content(spec[k]) \in Nat
    BY <1>3 DEF ToCreate
  <2> DEFINE blank == [key |-> k, status |-> Draft, body |-> commits + 1,
                       rev |-> 0, updatedAt |-> 0]
  <2>2. blank \in Row /\ blank.key = k
    BY <1>2, <2>1 DEF Row
  <2>3. NewRow(k, Draft) \in Row /\ NewRow(k, Draft).key = k
    BY <2>2, StampType DEF NewRow
  <2> QED
    BY <2>1, <2>3 DEF Row, fresh
<1>6. \A e \in ToDelete(spec) : e \in Endpoints /\ e \in Existing
  BY DEF ToDelete, Existing
<1>7. \A e \in Existing : e \in Endpoints /\ e \notin Free
  BY DEF Existing, NoRow
<1>8. ASSUME NEW k \in ToCreate(spec)
      PROVE  row'[id[k]] \in Row /\ row'[id[k]].key = k /\ row'[id[k]].body = Content(spec[k])
  <2>1. id[k] \in Free /\ id[k] \in Endpoints
    BY <1>1
  <2>2. id[k] \notin ToDelete(spec) /\ id[k] \notin ToUpdate(spec)
    BY <2>1, <1>4, <1>6, <1>7
  <2>3. row'[id[k]] = fresh(of(id, id[k]))
    BY <1>1, <2>1, <2>2
  <2>4. of(id, id[k]) = k
    BY <1>1 DEF of
  <2> QED
    BY <2>3, <2>4, <1>5
<1>9. \A e \in ToDelete(spec) : row'[e] = Deleted
  BY <1>1, <1>4, <1>6, <1>7
<1>10. \A e \in ToUpdate(spec) : row'[e] = update(e)
  BY <1>1, <1>4, <1>7
<1>11. \A e \in Endpoints :
         \/ e \in ToDelete(spec) \/ e \in ToUpdate(spec)
         \/ \E k \in ToCreate(spec) : id[k] = e
         \/ row'[e] = row[e]
  BY <1>1
<1>12. row' = [e \in Endpoints |-> row'[e]]
  BY <1>1
<1>13. \A e \in ToUpdate(spec) :
         /\ row'[e] \in Row /\ row'[e].updatedAt = now /\ Timely(row[e])
         /\ row'[e].key = row[e].key /\ row'[e].status = row[e].status
         /\ row'[e].body = Content(spec[row[e].key])
  BY <1>2, <1>4, <1>10
<1>14. \A k, l \in ToCreate(spec) : id[k] = id[l] => k = l
  BY <1>1
<1> QED
  BY <1>8, <1>9, <1>11, <1>12, <1>13, <1>14 DEF ImportEffect

LEMMA ProjectType ==
  ASSUME WellFormed, NEW c \in Clients, ProjectStep(c)
  PROVE  WellFormed'
<1>1. CASE ImportCommit(c)
  <2> DEFINE spec == req[c].spec
  <2>1. req[c] # Idle /\ req[c].kind = "import" /\ Commit(c, NewVersion) /\ project' = NewVersion
    BY <1>1 DEF ImportCommit, At
  <2>2. \A e \in Endpoints : row'[e] \in Row \cup NoRow
    BY <1>1, ImportRows DEF ImportEffect, WellFormed, TypeOK, NoRow
  <2>3. row' = [e \in Endpoints |-> row'[e]]
    BY <1>1, ImportRows DEF ImportEffect
  <2>4. row' \in [Endpoints -> Row \cup NoRow]
    BY <2>2, <2>3
  <2> QED
    BY <2>1, <2>4, VersionType, CommitType
<1>2. CASE SaveCommit(c)
  <2>1. /\ req[c] # Idle /\ req[c].kind = "save" /\ Commit(c, NewVersion)
        /\ project' = NewVersion /\ row' = row
    BY <1>2 DEF SaveCommit, At
  <2>2. row' \in [Endpoints -> Row \cup NoRow]
    BY <2>1 DEF WellFormed, TypeOK
  <2> QED
    BY <2>1, <2>2, VersionType, CommitType
<1>3. CASE DropCommit(c)
  <2>1. /\ req[c] # Idle /\ req[c].kind = "drop" /\ Commit(c, Unborn) /\ project' = Deleted
    BY <1>3 DEF DropCommit, At
  <2>2. row' \in [Endpoints -> Row \cup NoRow]
    BY <1>3 DEF DropCommit, WellFormed, TypeOK, NoRow
  <2> QED
    BY <2>1, <2>2, CommitType
<1>4. CASE ProjectRefused(c) \/ DropRefused(c)
  BY <1>4, ReplyType DEF ProjectRefused, DropRefused
<1> QED
  BY <1>1, <1>2, <1>3, <1>4 DEF ProjectStep

LEMMA FinishType ==
  ASSUME WellFormed, NEW c \in Clients, Finish(c)
  PROVE  WellFormed'
<1>1. req[c] \in Request /\ Filled(req[c]) /\ req[c].pc = "reply" /\ req' = [req EXCEPT ![c] = Idle]
  BY DEF Finish, WellFormed, TypeOK
<1>2. seen' \in [Clients -> [rows : [Endpoints -> Row \cup NoRow], project : Version \cup {Deleted}]]
  <2>1. CASE req[c].kind \in {"put", "status", "create"}
    <3>1. req[c].e \in Endpoints /\ req[c].result \in Row
      BY <1>1, <2>1 DEF Filled
    <3>2. seen' = [seen EXCEPT ![c].rows[req[c].e] = req[c].result]
      BY <2>1 DEF Finish
    <3> QED
      BY <3>1, <3>2 DEF WellFormed, TypeOK
  <2>2. CASE req[c].kind \in {"import", "save"}
    <3>1. req[c].result \in Version
      BY <1>1, <2>2 DEF Filled
    <3>2. seen' = [seen EXCEPT ![c].project = req[c].result]
      BY <2>2 DEF Finish
    <3> QED
      BY <3>1, <3>2 DEF WellFormed, TypeOK
  <2>3. CASE req[c].kind \notin {"put", "status", "create", "import", "save"}
    BY <2>3 DEF Finish, WellFormed, TypeOK
  <2> QED
    BY <2>1, <2>2, <2>3
<1>3. UNCHANGED <<now, lease, dbVars>>
  BY DEF Finish
<1> QED
  BY <1>1, <1>2, <1>3 DEF WellFormed, TypeOK, dbVars

LEMMA TickType ==
  ASSUME WellFormed, Tick \/ Restart
  PROVE  WellFormed'
<1>1. lease' \in [Endpoints -> Leased \cup {NoLease}] /\ now' \in Nat
  BY DEF Tick, Restart, Lease!Pass, Lease!Reset, WellFormed, TypeOK, Leased
<1>2. UNCHANGED <<dbVars, seen>> /\ (req' = req \/ req' = [c \in Clients |-> Idle])
  BY DEF Tick, Restart
<1> QED
  BY <1>1, <1>2 DEF WellFormed, TypeOK, dbVars, Leased

LEMMA NextWellFormed == WellFormed /\ [Next]_vars => WellFormed'
<1> SUFFICES ASSUME WellFormed, [Next]_vars PROVE WellFormed'
  OBVIOUS
<1>1. CASE UNCHANGED vars
  BY <1>1 DEF vars, WellFormed, TypeOK, Filled
<1>2. CASE Next
  BY <1>2, LoadType, SendType, GuardType, EndpointType, ProjectType, FinishType, TickType
  DEF Next, ClientStep
<1> QED
  BY <1>1, <1>2

\* Every variable keeps its type: rows, versions, leases and what requests
\* carry are never mixed up, whatever the requests do to each other.
THEOREM TypeCorrect == Spec => []TypeOK
<1>1. Spec => []WellFormed
  BY InitWellFormed, NextWellFormed, PTL DEF Spec
<1> QED
  BY <1>1, PTL DEF WellFormed

-----------------------------------------------------------------------------
(* What a step does to a row and to the project: only writes that find the *)
(* row in place touch it, and each gives it a later updatedAt.             *)

RowMoves(e) ==
  \/ row'[e] = row[e]
  \/ row[e] = Unborn /\ row'[e] \in Row
  \/ row[e] \in Row /\ row'[e] = Deleted
  \/ row[e] \in Row /\ row'[e] \in Row /\ row[e].updatedAt < row'[e].updatedAt

ProjectMoves ==
  \/ project' = project
  \/ project \in Version /\ project' = Deleted
  \/ project \in Version /\ project' \in Version /\ project.updatedAt < project'.updatedAt

\* The steps that write nothing to the database.
LEMMA Reading ==
  ASSUME NEW c \in Clients,
         \/ ClientStep(c) \/ GuardStep(c) \/ Finish(c)
         \/ Invalid(c) \/ ReadRow(c) \/ ReadEnds(c) \/ PutRefused(c) \/ StatusRefused(c)
         \/ DeleteRefused(c) \/ CreateRefused(c) \/ ProjectRefused(c) \/ DropRefused(c)
  PROVE  row' = row /\ project' = project
BY DEF ClientStep, Load, SendOnEndpoint, SendOnProject, Send, GuardStep, MatchGuard,
   NotInProject, HandleLock, HandleUnlock, LockOwnerGuard, LockMissing, Finish, Reply,
   Invalid, ReadRow, ReadEnds, PutRefused, StatusRefused, DeleteRefused, CreateRefused,
   ProjectRefused, DropRefused, dbVars

LEMMA EarlierThanNow ==
  ASSUME WellFormed, NEW r \in Row \cup Version, Timely(r)
  PROVE  r.updatedAt < now
BY DEF Timely, Row, Version, WellFormed, TypeOK

LEMMA CreatedRow ==
  ASSUME WellFormed, NEW c \in Clients, CreateCommit(c)
  PROVE  NewRow(req[c].key, req[c].status) \in Row
         /\ NewRow(req[c].key, req[c].status).key = req[c].key
<1>1. req[c].key \in Keys /\ req[c].status \in Statuses /\ commits + 1 \in Nat
  BY DEF CreateCommit, At, WellFormed, TypeOK, Filled, Request
<1> DEFINE blank == [key |-> req[c].key, status |-> req[c].status, body |-> commits + 1,
                     rev |-> 0, updatedAt |-> 0]
<1>2. blank \in Row /\ blank.key = req[c].key
  BY <1>1 DEF Row
<1> QED
  BY <1>2, StampType DEF NewRow

\* The row that a PUT or a status change finds, and the one it leaves.
LEMMA WrittenRow ==
  ASSUME WellFormed, NEW c \in Clients, PutCommit(c) \/ StatusCommit(c)
  PROVE  LET q == req[c] IN
         \E new \in Row :
           /\ q.e \in Existing /\ q.e \in Endpoints /\ row[q.e] \in Row
           /\ row' = [row EXCEPT ![q.e] = new] /\ project' = project
           /\ new.updatedAt = now /\ row[q.e].updatedAt < now
           /\ new.status = q.status
           /\ new.key = IF q.kind = "put" THEN q.key ELSE row[q.e].key
           /\ q # Idle /\ q.kind \in {"put", "status"}
           /\ req' = [req EXCEPT ![c].pc = "reply", ![c].result = new]
           /\ seen' = seen
<1> DEFINE q == req[c]
<1>0. commits + 1 \in Nat
  BY DEF WellFormed, TypeOK
<1>1. /\ q # Idle /\ q \in Request /\ Filled(q) /\ q.kind \in {"put", "status"}
      /\ q.e \in Existing
  BY DEF PutCommit, StatusCommit, At, PutMatches, StatusMatches, WellFormed, TypeOK
<1>2. q.e \in Endpoints /\ row[q.e] \in Row /\ q.status \in Statuses
  BY <1>1, RowsThere DEF WellFormed, Request
<1>3. row[q.e].updatedAt < now
  BY <1>2, EarlierThanNow DEF PutCommit, StatusCommit
<1>4. CASE PutCommit(c)
  <2> DEFINE old == [row[q.e] EXCEPT !.key = q.key, !.status = q.status, !.body = commits + 1]
  <2>1. q.kind = "put" /\ q.key \in Keys
    BY <1>1, <1>4 DEF PutCommit, At, Filled
  <2>2. old \in Row /\ old.key = q.key /\ old.status = q.status
    BY <1>0, <1>2, <2>1 DEF Row
  <2>3. Stamp(old) \in Row /\ Stamp(old).updatedAt = now
        /\ Stamp(old).key = q.key /\ Stamp(old).status = q.status
    BY <2>2, StampType
  <2>4. row' = [row EXCEPT ![q.e] = Stamp(old)] /\ Commit(c, Stamp(old)) /\ project' = project
    BY <1>4 DEF PutCommit
  <2> HIDE DEF old
  <2>5. req' = [req EXCEPT ![c].pc = "reply", ![c].result = Stamp(old)] /\ seen' = seen
    BY <2>4 DEF Commit
  <2> QED
    BY <1>1, <1>2, <1>3, <2>1, <2>3, <2>4, <2>5
<1>5. CASE StatusCommit(c)
  <2> DEFINE old == [row[q.e] EXCEPT !.status = q.status]
  <2>1. q.kind = "status"
    BY <1>5 DEF StatusCommit, At
  <2>2. old \in Row /\ old.key = row[q.e].key /\ old.status = q.status
    BY <1>2 DEF Row
  <2>3. Stamp(old) \in Row /\ Stamp(old).updatedAt = now
        /\ Stamp(old).key = row[q.e].key /\ Stamp(old).status = q.status
    BY <2>2, StampType
  <2>4. row' = [row EXCEPT ![q.e] = Stamp(old)] /\ Commit(c, Stamp(old)) /\ project' = project
    BY <1>5 DEF StatusCommit
  <2> HIDE DEF old
  <2>5. req' = [req EXCEPT ![c].pc = "reply", ![c].result = Stamp(old)] /\ seen' = seen
    BY <2>4 DEF Commit
  <2> QED
    BY <1>1, <1>2, <1>3, <2>1, <2>3, <2>4, <2>5
<1> QED
  BY <1>4, <1>5

LEMMA RowsMove ==
  ASSUME WellFormed, [Next]_vars
  PROVE  (\A e \in Endpoints : RowMoves(e)) /\ ProjectMoves
<1> DEFINE Moves == (\A e \in Endpoints : RowMoves(e)) /\ ProjectMoves
<1>1. row' = row /\ project' = project => Moves
  BY DEF RowMoves, ProjectMoves
<1>2. ASSUME NEW c \in Clients, PutCommit(c) \/ StatusCommit(c)
      PROVE  Moves
  <2>1. PICK new \in Row :
          /\ req[c].e \in Endpoints /\ row[req[c].e] \in Row
          /\ row' = [row EXCEPT ![req[c].e] = new] /\ project' = project
          /\ new.updatedAt = now /\ row[req[c].e].updatedAt < now
    BY <1>2, WrittenRow
  <2> QED
    BY <2>1 DEF RowMoves, ProjectMoves, WellFormed, TypeOK
<1>3. ASSUME NEW c \in Clients, DeleteCommit(c)
      PROVE  Moves
  BY <1>3, RowsThere DEF DeleteCommit, RowMoves, ProjectMoves, WellFormed, TypeOK
<1>4. ASSUME NEW c \in Clients, CreateCommit(c)
      PROVE  Moves
  <2> DEFINE new == NewRow(req[c].key, req[c].status)
  <2>1. new \in Row
    BY <1>4, CreatedRow
  <2> HIDE DEF new
  <2>2. PICK e \in Endpoints : row[e] = Unborn /\ row' = [row EXCEPT ![e] = new]
    BY <1>4 DEF CreateCommit, new
  <2>3. project' = project
    BY <1>4 DEF CreateCommit
  <2> QED
    BY <2>1, <2>2, <2>3 DEF RowMoves, ProjectMoves, WellFormed, TypeOK
<1>5. ASSUME NEW c \in Clients, ImportCommit(c)
      PROVE  Moves
  <2> DEFINE spec == req[c].spec
  <2>1. project \in Version /\ project.updatedAt < now /\ project' = NewVersion
    BY <1>5, EarlierThanNow DEF ImportCommit, ProjectMatches, WellFormed, TypeOK
  <2>2. ProjectMoves
    BY <2>1, VersionType DEF ProjectMoves
  <2>3. \A e \in ToDelete(spec) \cup ToUpdate(spec) : e \in Existing /\ row[e] \in Row
    BY RowsThere DEF ToDelete, ToUpdate, WellFormed
  <2>5. PICK id \in [ToCreate(spec) -> {e \in Endpoints : row[e] = Unborn}] :
          ImportEffect(spec, id)
    BY <1>5, ImportRows
  <2>6. \A e \in ToUpdate(spec) : row[e].updatedAt < now
    BY <2>3, <2>5, EarlierThanNow DEF ImportEffect
  <2>4. \A e \in Endpoints : RowMoves(e)
    BY <2>3, <2>5, <2>6 DEF ImportEffect, RowMoves
  <2> QED
    BY <2>2, <2>4
<1>6. ASSUME NEW c \in Clients, SaveCommit(c)
      PROVE  Moves
  <2>1. project \in Version /\ project.updatedAt < now /\ project' = NewVersion /\ row' = row
    BY <1>6, EarlierThanNow DEF SaveCommit, ProjectMatches, WellFormed, TypeOK
  <2> QED
    BY <2>1, VersionType DEF ProjectMoves, RowMoves
<1>7. ASSUME NEW c \in Clients, DropCommit(c)
      PROVE  Moves
  BY <1>7, RowsThere DEF DropCommit, ProjectMoves, RowMoves, WellFormed, TypeOK
<1>8. CASE Tick \/ Restart \/ UNCHANGED vars
  BY <1>1, <1>8 DEF Tick, Restart, vars, dbVars
<1> QED
  BY <1>1, <1>2, <1>3, <1>4, <1>5, <1>6, <1>7, <1>8, Reading
  DEF Next, EndpointStep, ProjectStep

-----------------------------------------------------------------------------
(* No lost update.  Whatever a client or a request remembers of a row is   *)
(* older than the row, or is the row: so a row with the updatedAt that was *)
(* seen is the row that was seen.                                          *)

Past(r, e) ==
  r \in Row =>
    /\ row[e] # Unborn
    /\ row[e] \in Row => /\ r.updatedAt <= row[e].updatedAt
                         /\ r.updatedAt = row[e].updatedAt => r = row[e]

PastVersion(v) ==
  project \in Version =>
    /\ v \in Version /\ v.updatedAt <= project.updatedAt
    /\ v.updatedAt = project.updatedAt => v = project

\* What client c remembers of the database, and its request with it.
Remembers(c) ==
  /\ \A e \in Endpoints : Past(seen[c].rows[e], e)
  /\ PastVersion(seen[c].project)

Carries(c, q) ==
  /\ q.kind = "put" => seen[c].rows[q.e] \in Row
  /\ q.pc = "write" /\ q.kind = "put" =>
       Past(q.before, q.e) /\ seen[c].rows[q.e].updatedAt <= q.before.updatedAt
  /\ q.pc = "write" /\ q.kind = "status" => q.before.status # q.status
  /\ q.pc = "reply" /\ q.kind \in {"put", "status", "create"} => Past(q.result, q.e)
  /\ q.pc = "reply" /\ q.kind \in {"import", "save"} => PastVersion(q.result)

Faithful(c) == Remembers(c) /\ (req[c] # Idle => Carries(c, req[c]))
Memory == WellFormed /\ \A c \in Clients : Faithful(c)

LEMMA PastStays ==
  ASSUME NEW e \in Endpoints, RowMoves(e), NEW r, Past(r, e)
  PROVE  Past(r, e)'
<1> SUFFICES ASSUME r \in Row PROVE Past(r, e)'
  BY DEF Past
<1>1. Unborn \notin Row /\ Deleted \notin Row /\ Unborn # Deleted
  OBVIOUS
<1>2. \A x \in Row : x.updatedAt \in Nat
  BY DEF Row
<1> QED
  BY <1>1, <1>2 DEF Past, RowMoves

LEMMA PastVersionStays ==
  ASSUME ProjectMoves, NEW v, PastVersion(v)
  PROVE  PastVersion(v)'
<1>1. \A x \in Version : x.updatedAt \in Nat
  BY DEF Version
<1> QED
  BY <1>1 DEF PastVersion, ProjectMoves

\* A client that only loses or keeps its request forgets nothing.
LEMMA Bystander ==
  ASSUME NEW c \in Clients, Faithful(c), WellFormed,
         \A e \in Endpoints : RowMoves(e), ProjectMoves,
         seen'[c] = seen[c], req'[c] = req[c] \/ req'[c] = Idle
  PROVE  Faithful(c)'
<1>1. Remembers(c)'
  BY PastStays, PastVersionStays DEF Faithful, Remembers
<1>2. ASSUME req'[c] # Idle PROVE Carries(c, req[c])'
  <2> DEFINE q == req[c]
  <2>1. q \in Request /\ Filled(q) /\ Carries(c, q)
    BY <1>2 DEF WellFormed, TypeOK, Faithful
  <2>2. q' = q
    BY <1>2
  <2>3. q.kind \in {"put", "status", "create"} /\ q.pc \in {"write", "reply"} /\ q.e \in Endpoints
          => (Past(q.before, q.e) => Past(q.before, q.e)') /\ (Past(q.result, q.e) => Past(q.result, q.e)')
    BY <2>2, PastStays
  <2>4. PastVersion(q.result) => PastVersion(q.result)'
    BY <2>2, PastVersionStays
  <2> QED
    BY <2>1, <2>2, <2>3, <2>4 DEF Carries, Filled, EndpointKinds
<1> QED
  BY <1>1, <1>2 DEF Faithful

LEMMA InitMemory == Init => Memory
<1> SUFFICES ASSUME Init PROVE Memory
  OBVIOUS
<1>1. WellFormed
  BY InitWellFormed
<1>2. \A c \in Clients : seen[c].rows = row /\ seen[c].project = project /\ req[c] = Idle
  BY DEF Init
<1>3. \A r \in Row : r.updatedAt \in Nat
  BY DEF Row
<1>4. \A v \in Version : v.updatedAt \in Nat
  BY DEF Version
<1>5. \A e \in Endpoints : Past(row[e], e)
  BY <1>3 DEF Past
<1> QED
  BY <1>1, <1>2, <1>4, <1>5 DEF Memory, Faithful, Remembers, PastVersion

ActsFor(c) ==
  ClientStep(c) \/ GuardStep(c) \/ EndpointStep(c) \/ ProjectStep(c) \/ Finish(c)

\* What c does leaves the other clients alone.
LEMMA Others ==
  ASSUME WellFormed, NEW c \in Clients, ActsFor(c), NEW d \in Clients \ {c}
  PROVE  seen'[d] = seen[d] /\ req'[d] = req[d]
<1>1. ASSUME Reply(c) PROVE seen' = seen /\ req'[d] = req[d]
  BY <1>1 DEF Reply, WellFormed, TypeOK
<1>2. ASSUME NEW x, Commit(c, x) PROVE seen' = seen /\ req'[d] = req[d]
  BY <1>2 DEF Commit, WellFormed, TypeOK
<1>3. ASSUME NEW pc, Goto(c, pc) PROVE req'[d] = req[d]
  BY <1>3 DEF Goto, WellFormed, TypeOK
<1>4. CASE ClientStep(c)
  BY <1>4 DEF ClientStep, Load, SendOnEndpoint, SendOnProject, Send, WellFormed, TypeOK
<1>5. CASE GuardStep(c)
  BY <1>1, <1>3, <1>5 DEF GuardStep, MatchGuard, NotInProject, HandleLock, HandleUnlock,
     LockOwnerGuard, LockMissing, WellFormed, TypeOK
<1>6. CASE EndpointStep(c)
  <2>1. ASSUME CreateCommit(c) PROVE seen' = seen /\ req'[d] = req[d]
    BY <2>1 DEF CreateCommit, WellFormed, TypeOK
  <2>2. ASSUME ReadRow(c) PROVE seen' = seen /\ req'[d] = req[d]
    BY <2>2 DEF ReadRow, WellFormed, TypeOK
  <2> QED
    BY <1>1, <1>2, <1>6, <2>1, <2>2 DEF EndpointStep, Invalid, ReadEnds, PutCommit,
       PutRefused, StatusCommit, StatusRefused, DeleteCommit, DeleteRefused, CreateRefused
<1>7. CASE ProjectStep(c)
  BY <1>1, <1>2, <1>7 DEF ProjectStep, ImportCommit, SaveCommit, ProjectRefused,
     DropCommit, DropRefused
<1>8. CASE Finish(c)
  BY <1>8 DEF Finish, WellFormed, TypeOK
<1> QED
  BY <1>4, <1>5, <1>6, <1>7, <1>8 DEF ActsFor

\* The refusals end a request.
LEMMA EndsRequest ==
  ASSUME WellFormed, NEW c \in Clients,
         \/ NotInProject(c) \/ HandleLock(c) \/ HandleUnlock(c) \/ LockMissing(c)
         \/ Invalid(c) \/ ReadEnds(c) \/ PutRefused(c) \/ StatusRefused(c)
         \/ DeleteRefused(c) \/ CreateRefused(c) \/ ProjectRefused(c) \/ DropRefused(c)
  PROVE  seen'[c] = seen[c] /\ req'[c] = Idle
BY DEF NotInProject, HandleLock, HandleUnlock, LockMissing, Invalid, ReadEnds, PutRefused,
   StatusRefused, DeleteRefused, CreateRefused, ProjectRefused, DropRefused, Reply,
   WellFormed, TypeOK

LEMMA ClientRemembers ==
  ASSUME Memory, NEW c \in Clients, ClientStep(c)
  PROVE  Faithful(c)'
<1>0. row' = row /\ project' = project
  BY Reading
<1>1. CASE Load(c)
  <2>1. seen'[c] = [rows |-> row, project |-> project] /\ req'[c] = Idle
    BY <1>1 DEF Load, Memory, WellFormed, TypeOK
  <2>2. \A e \in Endpoints : Past(row[e], e)
    BY DEF Past, Row
  <2>3. PastVersion(project)
    BY DEF PastVersion, Version
  <2> QED
    BY <1>0, <2>1, <2>2, <2>3 DEF Faithful, Remembers, Past, PastVersion
<1>2. ASSUME NEW q, Send(c, q), Carries(c, q)
      PROVE  Faithful(c)'
  <2>1. req'[c] = q /\ seen'[c] = seen[c] /\ seen' = seen
    BY <1>2 DEF Send, Memory, WellFormed, TypeOK
  <2>2. Remembers(c)'
    BY <1>0, <2>1 DEF Memory, Faithful, Remembers, Past, PastVersion
  <2>3. Carries(c, q)'
    BY <1>0, <1>2, <2>1 DEF Carries, Past, PastVersion
  <2> QED
    BY <2>1, <2>2, <2>3 DEF Faithful
<1>3. CASE SendOnEndpoint(c)
  <2>1. PICK e \in Endpoints, k \in Keys, s \in Statuses :
          /\ seen[c].rows[e] \notin NoRow
          /\ \/ \E kind \in {"lock", "unlock", "delete"} :
                  Send(c, [Blank(kind, "match") EXCEPT !.e = e])
             \/ Send(c, [Blank("status", "match") EXCEPT !.e = e, !.status = s])
             \/ Send(c, [Blank("put", "match") EXCEPT !.e = e, !.key = k, !.status = s])
    BY <1>3 DEF SendOnEndpoint
  <2>2. seen[c].rows[e] \in Row
    BY <2>1 DEF Memory, WellFormed, TypeOK, NoRow
  <2>3. PICK q : /\ Send(c, q) /\ q \in Request /\ q.pc = "match" /\ q.e = e
    <3>1. ASSUME NEW kind \in {"lock", "unlock", "delete"}
          PROVE  LET q == [Blank(kind, "match") EXCEPT !.e = e]
                 IN  q \in Request /\ q.pc = "match" /\ q.e = e
      BY BlankType DEF Request, AllKinds, Blank
    <3>2. LET q == [Blank("status", "match") EXCEPT !.e = e, !.status = s]
          IN  q \in Request /\ q.pc = "match" /\ q.e = e
      BY BlankType, SetFields DEF AllKinds, Blank
    <3>3. LET q == [Blank("put", "match") EXCEPT !.e = e, !.key = k, !.status = s]
          IN  q \in Request /\ q.pc = "match" /\ q.e = e
      BY BlankType, SetFields DEF AllKinds, Blank
    <3> QED
      BY <2>1, <3>1, <3>2, <3>3
  <2>4. Carries(c, q)
    BY <2>2, <2>3 DEF Carries
  <2> QED
    BY <1>2, <2>3, <2>4
<1>4. CASE SendOnProject(c)
  <2>1. \A kind \in {"create", "import", "save", "drop"} :
          Blank(kind, "write").pc = "write" /\ Blank(kind, "write").kind = kind
    BY DEF Blank
  <2>2. \A k, s, spec :
          /\ LET q == [Blank("create", "write") EXCEPT !.key = k, !.status = s]
             IN  q.pc = "write" /\ q.kind = "create"
          /\ LET q == [Blank("import", "write") EXCEPT !.spec = spec]
             IN  q.pc = "write" /\ q.kind = "import"
    BY DEF Blank
  <2>5. \/ \E k, s : Send(c, [Blank("create", "write") EXCEPT !.key = k, !.status = s])
        \/ \E spec : Send(c, [Blank("import", "write") EXCEPT !.spec = spec])
        \/ \E kind \in {"save", "drop"} : Send(c, Blank(kind, "write"))
    BY <1>4, Zenon DEF SendOnProject
  <2>3. PICK q : Send(c, q) /\ q.pc = "write" /\ q.kind \in {"create", "import", "save", "drop"}
    <3>1. ASSUME NEW k, NEW s, Send(c, [Blank("create", "write") EXCEPT !.key = k, !.status = s])
          PROVE  \E q : Send(c, q) /\ q.pc = "write" /\ q.kind = "create"
      <4> DEFINE q == [Blank("create", "write") EXCEPT !.key = k, !.status = s]
      <4>1. Send(c, q) /\ q.pc = "write" /\ q.kind = "create"
        BY <3>1 DEF Blank
      <4> HIDE DEF q
      <4> QED
        BY <4>1
    <3>2. ASSUME NEW spec, Send(c, [Blank("import", "write") EXCEPT !.spec = spec])
          PROVE  \E q : Send(c, q) /\ q.pc = "write" /\ q.kind = "import"
      BY <2>2, <3>2
    <3> QED
      BY <2>1, <2>5, <3>1, <3>2
  <2>4. Carries(c, q)
    BY <2>3 DEF Carries
  <2> QED
    BY <1>2, <2>3, <2>4
<1> QED
  BY <1>1, <1>3, <1>4 DEF ClientStep

\* Clients remember as much as they did when their request moves on.
LEMMA StillRemembers ==
  ASSUME Memory, NEW c \in Clients, \A e \in Endpoints : RowMoves(e), ProjectMoves,
         seen'[c] = seen[c]
  PROVE  Remembers(c)'
BY PastStays, PastVersionStays DEF Memory, Faithful, Remembers

LEMMA GuardRemembers ==
  ASSUME Memory, NEW c \in Clients, MatchGuard(c) \/ LockOwnerGuard(c)
  PROVE  Faithful(c)'
<1>1. /\ req[c] # Idle /\ req[c] \in Request /\ Filled(req[c]) /\ Carries(c, req[c])
      /\ row' = row /\ project' = project /\ seen' = seen
  BY Reading DEF GuardStep, MatchGuard, LockOwnerGuard, At, Memory, WellFormed, TypeOK, Faithful
<1>2. PICK pc : /\ Goto(c, pc) /\ pc # "reply"
                /\ pc = "write" => req[c].kind = "delete"
  <2>1. CASE MatchGuard(c)
    <3>1. req[c].kind \in EndpointKinds
      BY <2>1 DEF MatchGuard, Memory, WellFormed, Filled
    <3> QED
      BY <2>1, <3>1 DEF MatchGuard, EndpointKinds
  <2>2. CASE LockOwnerGuard(c)
    BY <2>2 DEF LockOwnerGuard
  <2> QED
    BY <2>1, <2>2
<1> DEFINE q == [req[c] EXCEPT !.pc = pc]
<1>3. req'[c] = q
  BY <1>2 DEF Goto, Memory, WellFormed, TypeOK
<1>4. q.kind = req[c].kind /\ q.e = req[c].e /\ q.pc = pc
  BY <1>1 DEF Request
<1> HIDE DEF q
<1>5. Carries(c, req[c])'
  BY <1>1, <1>2, <1>3, <1>4 DEF Carries
<1>6. Remembers(c)'
  BY <1>1 DEF Memory, Faithful, Remembers, Past, PastVersion
<1> QED
  BY <1>5, <1>6 DEF Faithful

LEMMA ReadRemembers ==
  ASSUME Memory, NEW c \in Clients, ReadRow(c)
  PROVE  Faithful(c)'
<1>1. /\ req[c] # Idle /\ req[c] \in Request /\ Filled(req[c]) /\ Carries(c, req[c])
      /\ row' = row /\ project' = project /\ seen' = seen
      /\ req[c].kind \in {"put", "status"} /\ req[c].e \in Existing
      /\ req[c].kind = "status" => row[req[c].e].status # req[c].status
  BY Reading DEF ReadRow, At, GoesOn, Memory, WellFormed, TypeOK, Faithful
<1>2. req[c].e \in Endpoints /\ row[req[c].e] \in Row
  BY <1>1, RowsThere DEF Memory, WellFormed
<1> DEFINE q == [req[c] EXCEPT !.pc = "write", !.before = row[req[c].e]]
<1>3. req'[c] = q
  BY DEF ReadRow, Memory, WellFormed, TypeOK
<1>4. /\ q.kind = req[c].kind /\ q.e = req[c].e /\ q.pc = "write"
      /\ q.before = row[q.e] /\ q.status = req[c].status
  BY <1>1 DEF Request
<1> HIDE DEF q
<1>5. q.kind = "put" => /\ Past(q.before, q.e)
                        /\ seen[c].rows[q.e].updatedAt <= q.before.updatedAt
  <2>1. Past(row[q.e], q.e)
    BY <1>1, <1>2, <1>4 DEF Past, Row
  <2>2. q.kind = "put" => Past(seen[c].rows[q.e], q.e) /\ seen[c].rows[q.e] \in Row
    BY <1>1, <1>2, <1>4 DEF Memory, Faithful, Remembers, Carries
  <2> QED
    BY <1>2, <1>4, <2>1, <2>2 DEF Past
<1>6. Carries(c, q)
  BY <1>1, <1>4, <1>5 DEF Carries
<1>7. Carries(c, req[c])'
  BY <1>1, <1>3, <1>6 DEF Carries, Past, PastVersion
<1>8. Remembers(c)'
  BY <1>1 DEF Memory, Faithful, Remembers, Past, PastVersion
<1> QED
  BY <1>7, <1>8 DEF Faithful

\* A write answers with what it wrote.
LEMMA CommitRemembers ==
  ASSUME Memory, NEW c \in Clients, \A e \in Endpoints : RowMoves(e), ProjectMoves,
         seen'[c] = seen[c], req[c] # Idle, NEW q, req'[c] = q, q.pc = "reply",
         q.kind = req[c].kind, q.kind = "put" => q.e = req[c].e,
         q.kind \in {"put", "status", "create"} => q.e \in Endpoints /\ q.result = row'[q.e],
         q.kind \in {"import", "save"} => q.result = project'
  PROVE  Faithful(c)'
<1>1. Remembers(c)'
  BY StillRemembers
<1>2. Carries(c, req[c])
  BY DEF Memory, Faithful
<1>3. (\A e \in Endpoints : Past(row[e], e))' /\ PastVersion(project)'
  BY DEF Past, PastVersion, Row, Version
<1>4. q.kind \in {"put", "status", "create"} => Past(q.result, q.e)'
  BY <1>3
<1>5. q.kind \in {"import", "save"} => PastVersion(q.result)'
  BY <1>3
<1>6. Carries(c, q)'
  BY <1>2, <1>4, <1>5 DEF Carries
<1> QED
  BY <1>1, <1>6 DEF Faithful

LEMMA WriteRemembers ==
  ASSUME Memory, NEW c \in Clients, \A e \in Endpoints : RowMoves(e), ProjectMoves,
         \/ PutCommit(c) \/ StatusCommit(c) \/ DeleteCommit(c) \/ CreateCommit(c)
         \/ ImportCommit(c) \/ SaveCommit(c) \/ DropCommit(c)
  PROVE  Faithful(c)'
<1>0. WellFormed /\ (req[c] # Idle => req[c] \in Request)
  BY DEF Memory, WellFormed, TypeOK
<1>1. CASE PutCommit(c) \/ StatusCommit(c)
  <2>1. PICK new \in Row :
          /\ req[c].e \in Endpoints /\ row' = [row EXCEPT ![req[c].e] = new]
          /\ req[c] # Idle /\ req[c].kind \in {"put", "status"}
          /\ req' = [req EXCEPT ![c].pc = "reply", ![c].result = new]
          /\ seen' = seen
    BY <1>0, <1>1, WrittenRow
  <2> DEFINE q == [req[c] EXCEPT !.pc = "reply", !.result = new]
  <2>2. req'[c] = q /\ row'[req[c].e] = new
    BY <2>1 DEF Memory, WellFormed, TypeOK
  <2>3. q.pc = "reply" /\ q.kind = req[c].kind /\ q.e = req[c].e /\ q.result = new
    BY <1>0, <2>1 DEF Request
  <2> HIDE DEF q
  <2> QED
    BY <2>1, <2>2, <2>3, CommitRemembers
<1>2. ASSUME NEW result, Commit(c, result), req[c] # Idle,
             \/ req[c].kind \in {"delete", "drop"}
             \/ req[c].kind \in {"import", "save"} /\ project' = result
      PROVE  Faithful(c)'
  <2> DEFINE q == [req[c] EXCEPT !.pc = "reply", !.result = result]
  <2>1. req'[c] = q /\ seen' = seen
    BY <1>2 DEF Commit, Memory, WellFormed, TypeOK
  <2>2. q.pc = "reply" /\ q.kind = req[c].kind /\ q.e = req[c].e /\ q.result = result
    BY <1>0, <1>2 DEF Request
  <2> HIDE DEF q
  <2> QED
    BY <1>2, <2>1, <2>2, CommitRemembers
<1>3. CASE DeleteCommit(c) \/ ImportCommit(c) \/ SaveCommit(c) \/ DropCommit(c)
  <2>1. CASE DeleteCommit(c)
    BY <1>2, <2>1 DEF DeleteCommit, At
  <2>2. CASE DropCommit(c)
    BY <1>2, <2>2 DEF DropCommit, At
  <2>3. CASE SaveCommit(c)
    BY <1>2, <2>3 DEF SaveCommit, At
  <2>4. CASE ImportCommit(c)
    BY <1>2, <2>4 DEF ImportCommit, At
  <2> QED
    BY <1>3, <2>1, <2>2, <2>3, <2>4
<1>4. CASE CreateCommit(c)
  <2> DEFINE new == NewRow(req[c].key, req[c].status)
  <2>1. PICK e \in Endpoints :
          /\ row' = [row EXCEPT ![e] = new]
          /\ req' = [req EXCEPT ![c].pc = "reply", ![c].e = e, ![c].result = new]
    BY <1>4 DEF CreateCommit
  <2>2. req[c] # Idle /\ req[c].kind = "create" /\ seen' = seen
    BY <1>4 DEF CreateCommit, At
  <2> HIDE DEF new
  <2> DEFINE q == [req[c] EXCEPT !.pc = "reply", !.e = e, !.result = new]
  <2>3. req'[c] = q /\ row'[e] = new
    BY <2>1 DEF Memory, WellFormed, TypeOK
  <2>4. q.pc = "reply" /\ q.kind = "create" /\ q.e = e /\ q.result = new
    BY <1>0, <2>2 DEF Request
  <2> HIDE DEF q
  <2> QED
    BY <2>2, <2>3, <2>4, CommitRemembers
<1> QED
  BY <1>1, <1>3, <1>4

LEMMA FinishRemembers ==
  ASSUME Memory, NEW c \in Clients, Finish(c)
  PROVE  Faithful(c)'
<1>1. /\ req[c] # Idle /\ req[c].pc = "reply" /\ req'[c] = Idle
      /\ row' = row /\ project' = project
      /\ Filled(req[c]) /\ Carries(c, req[c]) /\ Remembers(c)
  BY Reading DEF Finish, Memory, WellFormed, TypeOK, Faithful
<1>2. Remembers(c)'
  <2>1. CASE req[c].kind \in {"put", "status", "create"}
    <3>1. seen' = [seen EXCEPT ![c].rows[req[c].e] = req[c].result]
      BY <2>1 DEF Finish
    <3>2. Past(req[c].result, req[c].e)
      BY <1>1, <2>1 DEF Carries
    <3>3. /\ \A e \in Endpoints :
               IF e = req[c].e THEN seen'[c].rows[e] = req[c].result
                               ELSE seen'[c].rows[e] = seen[c].rows[e]
          /\ seen'[c].project = seen[c].project
      <4>1. seen'[c] = [seen[c] EXCEPT !.rows = [seen[c].rows EXCEPT ![req[c].e] = req[c].result]]
        BY <3>1 DEF Memory, WellFormed, TypeOK
      <4>2. seen[c] \in [rows : [Endpoints -> Row \cup NoRow], project : Version \cup {Deleted}]
        BY DEF Memory, WellFormed, TypeOK
      <4>3. /\ seen'[c].rows = [seen[c].rows EXCEPT ![req[c].e] = req[c].result]
            /\ seen'[c].project = seen[c].project
        BY <4>1, <4>2
      <4>4. seen[c].rows \in [Endpoints -> Row \cup NoRow]
        BY <4>2
      <4>5. ASSUME NEW e \in Endpoints
            PROVE  IF e = req[c].e THEN seen'[c].rows[e] = req[c].result
                                   ELSE seen'[c].rows[e] = seen[c].rows[e]
        BY <4>3, <4>4
      <4> QED
        BY <4>3, <4>5
    <3> QED
      BY <1>1, <3>2, <3>3 DEF Remembers, Past, PastVersion
  <2>2. CASE req[c].kind \in {"import", "save"}
    <3>1. seen' = [seen EXCEPT ![c].project = req[c].result]
      BY <2>2 DEF Finish
    <3>2. PastVersion(req[c].result)
      BY <1>1, <2>2 DEF Carries
    <3>3. seen'[c].rows = seen[c].rows /\ seen'[c].project = req[c].result
      BY <3>1 DEF Memory, WellFormed, TypeOK
    <3> QED
      BY <1>1, <3>2, <3>3 DEF Remembers, Past, PastVersion
  <2>3. CASE req[c].kind \notin {"put", "status", "create", "import", "save"}
    <3>1. seen' = seen
      BY <2>3 DEF Finish
    <3> QED
      BY <1>1, <3>1 DEF Remembers, Past, PastVersion
  <2> QED
    BY <2>1, <2>2, <2>3
<1> QED
  BY <1>1, <1>2 DEF Faithful

LEMMA NextMemory == Memory /\ [Next]_vars => Memory'
<1> SUFFICES ASSUME Memory, [Next]_vars PROVE Memory'
  OBVIOUS
<1>1. WellFormed /\ WellFormed'
  BY NextWellFormed DEF Memory
<1>2. (\A e \in Endpoints : RowMoves(e)) /\ ProjectMoves
  BY <1>1, RowsMove
<1>3. ASSUME NEW d \in Clients, seen'[d] = seen[d], req'[d] = req[d] \/ req'[d] = Idle
      PROVE  Faithful(d)'
  BY <1>1, <1>2, <1>3, Bystander DEF Memory
<1>4. ASSUME NEW c \in Clients, ActsFor(c)
      PROVE  \A d \in Clients : Faithful(d)'
  <2>1. Faithful(c)'
    <3>1. CASE ClientStep(c)
      BY <3>1, ClientRemembers
    <3>2. CASE MatchGuard(c) \/ LockOwnerGuard(c)
      BY <3>2, GuardRemembers
    <3>3. CASE ReadRow(c)
      BY <3>3, ReadRemembers
    <3>4. CASE \/ PutCommit(c) \/ StatusCommit(c) \/ DeleteCommit(c) \/ CreateCommit(c)
               \/ ImportCommit(c) \/ SaveCommit(c) \/ DropCommit(c)
      BY <1>2, <3>4, WriteRemembers
    <3>5. CASE Finish(c)
      BY <3>5, FinishRemembers
    <3>6. CASE \/ NotInProject(c) \/ HandleLock(c) \/ HandleUnlock(c) \/ LockMissing(c)
               \/ Invalid(c) \/ ReadEnds(c) \/ PutRefused(c) \/ StatusRefused(c)
               \/ DeleteRefused(c) \/ CreateRefused(c) \/ ProjectRefused(c) \/ DropRefused(c)
      BY <1>1, <1>3, <3>6, EndsRequest
    <3> QED
      BY <1>4, <3>1, <3>2, <3>3, <3>4, <3>5, <3>6
      DEF ActsFor, GuardStep, EndpointStep, ProjectStep
  <2>2. \A d \in Clients \ {c} : Faithful(d)'
    BY <1>1, <1>3, <1>4, Others
  <2> QED
    BY <2>1, <2>2
<1>5. CASE Tick \/ Restart \/ UNCHANGED vars
  <2>1. \A d \in Clients : seen'[d] = seen[d] /\ (req'[d] = req[d] \/ req'[d] = Idle)
    BY <1>5 DEF Tick, Restart, vars
  <2> QED
    BY <1>1, <1>3, <2>1 DEF Memory
<1>6. Next => Tick \/ Restart \/ \E c \in Clients : ActsFor(c)
  BY DEF Next, ActsFor
<1> QED
  BY <1>1, <1>4, <1>5, <1>6 DEF Memory

\* Each kind of request reaches the database in one action only.
LEMMA WhoCommits ==
  ASSUME WellFormed, [Next]_vars, NEW c \in Clients, NEW kind \in AllKinds, Commits(c, kind)
  PROVE  /\ kind = "put" => PutCommit(c)
         /\ kind = "status" => StatusCommit(c)
         /\ kind = "import" => ImportCommit(c)
         /\ kind = "save" => SaveCommit(c)
<1>1. /\ req[c] # Idle /\ req[c].pc = "write" /\ req[c].kind = kind
      /\ req'[c] # Idle /\ req'[c].pc = "reply"
  BY DEF Commits, At
<1>2. req'[c] # req[c] /\ req'[c] # Idle
  BY <1>1
<1>3. ActsFor(c)
  <2>1. ~ (Tick \/ Restart \/ UNCHANGED vars)
    BY <1>2 DEF Tick, Restart, vars
  <2>2. \A d \in Clients \ {c} : ~ActsFor(d)
    BY <1>2, Others
  <2> QED
    BY <2>1, <2>2 DEF Next, ActsFor
<1>4. ~ClientStep(c) /\ ~Finish(c)
  BY <1>1 DEF ClientStep, Load, SendOnEndpoint, SendOnProject, Send, Finish
<1>5. ~MatchGuard(c) /\ ~LockOwnerGuard(c) /\ ~ReadRow(c)
  BY <1>1 DEF MatchGuard, LockOwnerGuard, ReadRow, At
<1>6. \/ PutCommit(c) \/ StatusCommit(c) \/ DeleteCommit(c) \/ CreateCommit(c)
      \/ ImportCommit(c) \/ SaveCommit(c) \/ DropCommit(c)
  BY <1>2, <1>3, <1>4, <1>5, EndsRequest DEF ActsFor, GuardStep, EndpointStep, ProjectStep
<1>7. /\ PutCommit(c) => kind = "put"
      /\ StatusCommit(c) => kind = "status"
      /\ DeleteCommit(c) => kind = "delete"
      /\ CreateCommit(c) => kind = "create"
      /\ ImportCommit(c) => kind = "import"
      /\ SaveCommit(c) => kind = "save"
      /\ DropCommit(c) => kind = "drop"
  BY <1>1 DEF PutCommit, StatusCommit, DeleteCommit, CreateCommit, ImportCommit,
     SaveCommit, DropCommit, At
<1> QED
  BY <1>6, <1>7

LEMMA MemoryAlways == Spec => []Memory
BY InitMemory, NextMemory, PTL DEF Spec

LEMMA PutIsSafe ==
  ASSUME Memory, NEW c \in Clients, PutCommit(c)
  PROVE  /\ row[req[c].e] = seen[c].rows[req[c].e]
         /\ row[req[c].e] = req[c].before
<1> DEFINE q == req[c]
           e == q.e
           s == seen[c].rows[e]
<1>1. /\ q # Idle /\ q.kind = "put" /\ q.pc = "write" /\ e \in Endpoints /\ row[e] \in Row
      /\ row[e].updatedAt = s.updatedAt /\ Filled(q)
  BY RowsThere DEF PutCommit, At, PutMatches, Memory, WellFormed
<1>2. /\ Past(s, e) /\ s \in Row
      /\ Past(q.before, e) /\ s.updatedAt <= q.before.updatedAt
  BY <1>1 DEF Memory, Faithful, Remembers, Carries
<1>3. q.before \in Row
  BY <1>1 DEF Filled
<1>4. \A r \in Row : r.updatedAt \in Nat
  BY DEF Row
<1>5. row[e] = s
  BY <1>1, <1>2 DEF Past
<1>6. q.before.updatedAt <= row[e].updatedAt
  BY <1>1, <1>2, <1>3 DEF Past
<1>7. q.before.updatedAt = row[e].updatedAt
  BY <1>1, <1>2, <1>3, <1>4, <1>6
<1> QED
  BY <1>1, <1>2, <1>3, <1>5, <1>7 DEF Past

\* No lost update, for any number of clients and any timing of the lease.
THEOREM NoLostUpdate == Spec => PutReplacesWhatWasSeen
<1>1. Memory /\ [Next]_vars =>
        \A c \in Clients : Commits(c, "put") =>
          row[req[c].e].rev = seen[c].rows[req[c].e].rev
  BY WhoCommits, PutIsSafe DEF Memory, AllKinds
<1> QED
  BY <1>1, MemoryAlways, PTL DEF Spec, PutReplacesWhatWasSeen

\* The UPDATED event carries the row that the update replaced.
THEOREM UpdatedEventsAreExact == Spec => UpdatedEventIsExact
<1>1. Memory /\ [Next]_vars =>
        \A c \in Clients : Commits(c, "put") => req[c].before = row[req[c].e]
  BY WhoCommits, PutIsSafe DEF Memory, AllKinds
<1> QED
  BY <1>1, MemoryAlways, PTL DEF Spec, UpdatedEventIsExact

\* The STATUS_UPDATED event names the status that was really replaced.
THEOREM StatusEventsAreTrue == Spec => StatusEventIsTrue
<1>1. ASSUME Memory, [Next]_vars, NEW c \in Clients, Commits(c, "status")
      PROVE  /\ req[c].before.status = row[req[c].e].status
             /\ row[req[c].e].status # row'[req[c].e].status
  <2>1. StatusCommit(c) /\ WellFormed
    BY <1>1, WhoCommits DEF Memory, AllKinds
  <2>2. req[c].before.status = row[req[c].e].status
    BY <2>1 DEF StatusCommit, StatusMatches
  <2>3. req[c].before.status # req[c].status
    BY <2>1, <1>1 DEF StatusCommit, At, Memory, Faithful, Carries
  <2>4. row'[req[c].e].status = req[c].status
    BY <2>1, WrittenRow DEF WellFormed, TypeOK
  <2> QED
    BY <2>2, <2>3, <2>4
<1>2. Memory /\ [Next]_vars =>
        \A c \in Clients : Commits(c, "status") =>
          /\ req[c].before.status = row[req[c].e].status
          /\ row[req[c].e].status # row'[req[c].e].status
  BY <1>1
<1> QED
  BY <1>2, MemoryAlways, PTL DEF Spec, StatusEventIsTrue

\* Imports and project updates never overwrite a version of the project that
\* their client has not loaded.
THEOREM NoLostProjectVersion == Spec => ProjectWriteReplacesWhatWasSeen
<1>1. ASSUME Memory, [Next]_vars, NEW c \in Clients, Commits(c, "import") \/ Commits(c, "save")
      PROVE  project.rev = seen[c].project.rev
  <2>1. ImportCommit(c) \/ SaveCommit(c)
    BY <1>1, WhoCommits DEF Memory, AllKinds
  <2>2. project \in Version /\ project.updatedAt = seen[c].project.updatedAt
    BY <1>1, <2>1 DEF ImportCommit, SaveCommit, ProjectMatches, Memory, WellFormed, TypeOK
  <2>3. PastVersion(seen[c].project)
    BY <1>1 DEF Memory, Faithful, Remembers
  <2> QED
    BY <2>2, <2>3 DEF PastVersion
<1>2. Memory /\ [Next]_vars =>
        \A c \in Clients : Commits(c, "import") \/ Commits(c, "save") =>
          project.rev = seen[c].project.rev
  BY <1>1
<1> QED
  BY <1>2, MemoryAlways, PTL DEF Spec, ProjectWriteReplacesWhatWasSeen

-----------------------------------------------------------------------------
(* What the unique index and the foreign keys keep up. *)

\* A dropped project has no endpoint: the part of DeletedForGood that the
\* steps after the drop need.
Gone == project = Deleted => Existing = {}

LEMMA RowsLeft ==
  ASSUME TypeOK, NEW c \in Clients, DeleteCommit(c) \/ DropCommit(c)
  PROVE  \A e \in Existing' : e \in Existing /\ row'[e] = row[e]
BY DEF DeleteCommit, DropCommit, Existing, NoRow, TypeOK

LEMMA CreatedAlone ==
  ASSUME WellFormed, NEW c \in Clients, CreateCommit(c)
  PROVE  \E e \in Endpoints :
           /\ row[e] = Unborn /\ row'[e] \in Row /\ row'[e].key = req[c].key
           /\ \A x \in Endpoints \ {e} : row'[x] = row[x]
           /\ project' = project /\ project # Deleted
           /\ \A x \in Existing : row[x].key # req[c].key
<1> DEFINE new == NewRow(req[c].key, req[c].status)
<1>1. new \in Row /\ new.key = req[c].key
  BY CreatedRow
<1> HIDE DEF new
<1>2. PICK e \in Endpoints : row[e] = Unborn /\ row' = [row EXCEPT ![e] = new]
  BY DEF CreateCommit, new
<1>3. /\ project' = project /\ project # Deleted
      /\ \A x \in Existing : row[x].key # req[c].key
  BY DEF CreateCommit, CanCreate, KeyFree, Existing
<1> QED
  BY <1>1, <1>2, <1>3 DEF WellFormed, TypeOK

\* The steps that change no row, and those that can.
LEMMA RowSteps ==
  ASSUME [Next]_vars
  PROVE  \/ row' = row /\ project' = project
         \/ \E c \in Clients :
              \/ PutCommit(c) \/ StatusCommit(c) \/ DeleteCommit(c) \/ CreateCommit(c)
              \/ ImportCommit(c) \/ SaveCommit(c) \/ DropCommit(c)
BY Reading DEF Next, EndpointStep, ProjectStep, Tick, Restart, vars, dbVars

LEMMA GoneStays ==
  ASSUME WellFormed, Gone, [Next]_vars
  PROVE  /\ Gone'
         /\ \A e \in Endpoints : row[e] = Deleted => row'[e] = Deleted
         /\ project = Deleted => project' = Deleted /\ Existing' = {}
<1>1. ProjectMoves /\ \A e \in Endpoints : RowMoves(e)
  BY RowsMove
<1>2. /\ \A e \in Endpoints : row[e] = Deleted => row'[e] = Deleted
      /\ project = Deleted => project' = Deleted
  BY <1>1 DEF RowMoves, ProjectMoves
<1>3. Gone'
  <2>1. CASE row' = row /\ project' = project
    BY <2>1 DEF Gone, Existing
  <2>2. ASSUME NEW c \in Clients, PutCommit(c) \/ StatusCommit(c)
        PROVE  Gone'
    BY <2>2, WrittenRow DEF Gone
  <2>3. ASSUME NEW c \in Clients, DeleteCommit(c)
        PROVE  Gone'
    <3>1. \A e \in Existing' : e \in Existing
      BY <2>3, RowsLeft DEF WellFormed
    <3>2. project' = project
      BY <2>3 DEF DeleteCommit
    <3> QED
      BY <3>1, <3>2 DEF Gone
  <2>4. ASSUME NEW c \in Clients, DropCommit(c)
        PROVE  Gone'
    BY <2>4 DEF DropCommit, Gone, Existing, NoRow
  <2>5. ASSUME NEW c \in Clients, CreateCommit(c)
        PROVE  Gone'
    BY <2>5, CreatedAlone DEF Gone
  <2>6. ASSUME NEW c \in Clients, ImportCommit(c) \/ SaveCommit(c)
        PROVE  Gone'
    <3>1. project' = NewVersion
      BY <2>6 DEF ImportCommit, SaveCommit
    <3> QED
      BY <3>1, VersionType DEF Gone
  <2> QED
    BY <2>1, <2>2, <2>3, <2>4, <2>5, <2>6, RowSteps
<1> QED
  BY <1>2, <1>3 DEF Gone

\* Nothing that is deleted comes back.
THEOREM NothingComesBack == Spec => DeletedForGood
<1>1. Init => WellFormed /\ Gone
  BY InitWellFormed DEF Init, Gone, Version
<1>2. WellFormed /\ Gone /\ [Next]_vars => (WellFormed /\ Gone)'
  BY NextWellFormed, GoneStays
<1>3. WellFormed /\ Gone /\ [Next]_vars =>
        /\ \A e \in Endpoints : row[e] = Deleted => row'[e] = Deleted
        /\ project = Deleted => project' = Deleted /\ Existing' = {}
  BY GoneStays
<1> QED
  BY <1>1, <1>2, <1>3, PTL DEF Spec, DeletedForGood

LEMMA KeysStayUnique ==
  ASSUME WellFormed, KeysUnique, [Next]_vars
  PROVE  KeysUnique'
<1>0. \A e \in Existing : e \in Endpoints /\ row[e] \in Row
  BY RowsThere DEF WellFormed
<1>1. CASE row' = row /\ project' = project
  BY <1>1 DEF KeysUnique, Existing
<1>2. ASSUME NEW c \in Clients, PutCommit(c) \/ StatusCommit(c)
      PROVE  KeysUnique'
  <2> DEFINE w == req[c].e
  <2>1. PICK new \in Row :
          /\ w \in Existing /\ row' = [row EXCEPT ![w] = new]
          /\ new.key = IF req[c].kind = "put" THEN req[c].key ELSE row[w].key
    BY <1>2, WrittenRow
  <2>2. \A x \in Existing \ {w} : row[x].key # new.key
    <3>1. CASE PutCommit(c)
      BY <2>1, <3>1 DEF PutCommit, At, KeyFree
    <3>2. CASE StatusCommit(c)
      BY <2>1, <3>2 DEF StatusCommit, At, KeysUnique
    <3> QED
      BY <1>2, <3>1, <3>2
  <2>3. row'[w] = new /\ \A x \in Endpoints \ {w} : row'[x] = row[x]
    BY <1>0, <2>1 DEF WellFormed, TypeOK
  <2>4. \A x \in Existing' : x \in Existing
    BY <2>1, <2>3 DEF Existing
  <2> QED
    BY <1>0, <2>2, <2>3, <2>4 DEF KeysUnique
<1>3. ASSUME NEW c \in Clients, DeleteCommit(c) \/ DropCommit(c)
      PROVE  KeysUnique'
  BY <1>3, RowsLeft DEF KeysUnique, WellFormed
<1>4. ASSUME NEW c \in Clients, CreateCommit(c)
      PROVE  KeysUnique'
  <2>1. PICK e \in Endpoints :
          /\ row'[e].key = req[c].key
          /\ \A x \in Endpoints \ {e} : row'[x] = row[x]
          /\ \A x \in Existing : row[x].key # req[c].key
    BY <1>4, CreatedAlone
  <2>2. \A x \in Existing' : x = e \/ x \in Existing
    BY <2>1 DEF Existing
  <2> QED
    BY <1>0, <2>1, <2>2 DEF KeysUnique
<1>5. ASSUME NEW c \in Clients, ImportCommit(c)
      PROVE  KeysUnique'
  <2> DEFINE spec == req[c].spec
  <2>1. PICK id \in [ToCreate(spec) -> {e \in Endpoints : row[e] = Unborn}] :
          ImportEffect(spec, id)
    BY <1>5, ImportRows
  <2>2. ASSUME NEW x \in Existing'
        PROVE  \/ x \in Existing /\ row'[x].key = row[x].key
               \/ \E k \in ToCreate(spec) : x = id[k] /\ row'[x].key = k
    <3>1. x \in Endpoints /\ x \notin ToDelete(spec)
      BY <2>1 DEF ImportEffect, Existing, NoRow
    <3>2. CASE x \in ToUpdate(spec)
      BY <2>1, <3>2 DEF ImportEffect, ToUpdate
    <3>3. CASE \E k \in ToCreate(spec) : id[k] = x
      BY <2>1, <3>3 DEF ImportEffect
    <3>4. CASE row'[x] = row[x]
      BY <3>1, <3>4 DEF Existing
    <3> QED
      BY <2>1, <3>1, <3>2, <3>3, <3>4 DEF ImportEffect
  <2>3. \A k \in ToCreate(spec), x \in Existing : row[x].key # k
    BY DEF ToCreate
  <2> QED
    BY <2>2, <2>3 DEF KeysUnique
<1>6. ASSUME NEW c \in Clients, SaveCommit(c)
      PROVE  KeysUnique'
  BY <1>6 DEF SaveCommit, KeysUnique, Existing
<1> QED
  BY <1>1, <1>2, <1>3, <1>4, <1>5, <1>6, RowSteps

\* Path and method identify an endpoint, through every import.
THEOREM KeysAreUnique == Spec => []KeysUnique
<1>1. Init => WellFormed /\ KeysUnique
  BY InitWellFormed DEF Init, KeysUnique, Existing, NoRow
<1>2. WellFormed /\ KeysUnique /\ [Next]_vars => (WellFormed /\ KeysUnique)'
  BY NextWellFormed, KeysStayUnique
<1> QED
  BY <1>1, <1>2, PTL DEF Spec

-----------------------------------------------------------------------------
(* What an import leaves behind. *)

\* The rows in place after an import, the rows it retains, and those it makes.
LEMMA ImportedRows ==
  ASSUME WellFormed, NEW c \in Clients, ImportCommit(c)
  PROVE  LET spec == req[c].spec IN
         /\ \A e \in Existing' :
              /\ row'[e].key \in InSpec(spec)
              /\ row'[e].body = Content(spec[row'[e].key])
         /\ \A e \in Existing : row[e].key \in InSpec(spec) =>
              e \in Existing' /\ row'[e].key = row[e].key /\ row'[e].status = row[e].status
         /\ \A k \in ToCreate(spec) : \E e \in Existing' : row'[e].key = k
<1> DEFINE spec == req[c].spec
           Free == {e \in Endpoints : row[e] = Unborn}
<1>1. PICK id \in [ToCreate(spec) -> Free] : ImportEffect(spec, id)
  BY ImportRows
<1>2. \A e \in Existing : e \in Endpoints /\ row[e] \in Row /\ e \notin Free
  BY RowsThere DEF WellFormed, Existing, NoRow
<1>3. \A e \in Endpoints : row'[e] \in Row => e \in Existing'
  BY NullAssumption DEF Existing, NoRow
<1>4. ASSUME NEW k \in ToCreate(spec)
      PROVE  /\ k \in InSpec(spec) /\ id[k] \in Existing'
             /\ row'[id[k]].key = k /\ row'[id[k]].body = Content(spec[k])
  <2>1. id[k] \in Endpoints /\ k \in InSpec(spec)
    BY <1>1 DEF ToCreate
  <2> QED
    BY <1>1, <1>3, <2>1 DEF ImportEffect
<1>5. ASSUME NEW e \in ToUpdate(spec)
      PROVE  /\ row[e].key \in InSpec(spec) /\ e \in Existing'
             /\ row'[e].key = row[e].key /\ row'[e].status = row[e].status
             /\ row'[e].body = Content(spec[row[e].key])
  <2>1. e \in Existing /\ row[e].key \in InSpec(spec)
    BY DEF ToUpdate, ToDelete
  <2> QED
    BY <1>1, <1>2, <1>3, <2>1 DEF ImportEffect
<1>6. ASSUME NEW e \in Existing, row[e].key \in InSpec(spec), e \notin ToUpdate(spec)
      PROVE  /\ e \in Existing' /\ row'[e] = row[e]
             /\ row[e].body = Content(spec[row[e].key])
  <2>1. e \notin ToDelete(spec)
    BY <1>6 DEF ToDelete
  <2>2. row[e].body = spec[row[e].key] /\ row[e].body \in Nat
    BY <1>2, <1>6, <2>1 DEF ToUpdate, Row
  <2>3. row'[e] = row[e]
    BY <1>1, <1>2, <1>6, <2>1 DEF ImportEffect
  <2>4. row[e].body = Content(spec[row[e].key])
    BY <2>2, FreshAssumption DEF Content
  <2> QED
    BY <1>2, <1>3, <2>3, <2>4
<1>7. ASSUME NEW e \in Existing'
      PROVE  /\ row'[e].key \in InSpec(spec)
             /\ row'[e].body = Content(spec[row'[e].key])
  <2>1. e \in Endpoints /\ e \notin ToDelete(spec) /\ row'[e] \notin NoRow
    BY <1>1 DEF ImportEffect, Existing, NoRow
  <2>2. CASE e \in ToUpdate(spec)
    BY <1>5, <2>2
  <2>3. CASE \E k \in ToCreate(spec) : id[k] = e
    BY <1>4, <2>3
  <2>4. CASE row'[e] = row[e] /\ e \notin ToUpdate(spec)
    <3>1. e \in Existing /\ row[e].key \in InSpec(spec)
      BY <2>1, <2>4 DEF Existing, ToDelete
    <3> QED
      BY <1>6, <2>4, <3>1
  <2> QED
    BY <1>1, <2>1, <2>2, <2>3, <2>4 DEF ImportEffect
<1> HIDE DEF spec
<1>8. \A e \in Existing : row[e].key \in InSpec(spec) =>
        e \in Existing' /\ row'[e].key = row[e].key /\ row'[e].status = row[e].status
  BY <1>5, <1>6
<1> QED
  BY <1>4, <1>7, <1>8 DEF spec

\* An import leaves exactly the document's endpoints, with its operations, and
\* retains the id, the key and the status of those that were there, whatever
\* happened to the rows since the client's export (reconcile and the
\* transaction of importOpenApiSpec).
THEOREM ImportsInstallSpec == Spec => ImportInstallsSpec
<1>1. ASSUME WellFormed, [Next]_vars, NEW c \in Clients, Commits(c, "import")
      PROVE  LET spec == req[c].spec IN
             /\ {row'[e].key : e \in Existing'} = InSpec(spec)
             /\ \A e \in Existing' :
                  /\ spec[row'[e].key] # Fresh => row'[e].body = spec[row'[e].key]
                  /\ spec[row'[e].key] = Fresh => row'[e].body = commits + 1
             /\ \A e \in Existing : row[e].key \in InSpec(spec) =>
                  e \in Existing' /\ row'[e].key = row[e].key /\ row'[e].status = row[e].status
  <2> DEFINE spec == req[c].spec
  <2>1. ImportCommit(c)
    BY <1>1, WhoCommits DEF AllKinds
  <2>2. /\ \A e \in Existing' :
             /\ row'[e].key \in InSpec(spec)
             /\ row'[e].body = Content(spec[row'[e].key])
        /\ \A e \in Existing : row[e].key \in InSpec(spec) =>
             e \in Existing' /\ row'[e].key = row[e].key /\ row'[e].status = row[e].status
        /\ \A k \in ToCreate(spec) : \E e \in Existing' : row'[e].key = k
    BY <1>1, <2>1, ImportedRows
  <2>3. \A k \in InSpec(spec) : \E e \in Existing' : row'[e].key = k
    BY <2>2 DEF ToCreate
  <2>4. {row'[e].key : e \in Existing'} = InSpec(spec)
    BY <2>2, <2>3
  <2>5. \A e \in Existing' :
          /\ spec[row'[e].key] # Fresh => row'[e].body = spec[row'[e].key]
          /\ spec[row'[e].key] = Fresh => row'[e].body = commits + 1
    BY <2>2 DEF Content
  <2> QED
    BY <2>2, <2>4, <2>5
<1>2. WellFormed /\ [Next]_vars =>
        \A c \in Clients : Commits(c, "import") =>
          LET spec == req[c].spec IN
          /\ {row'[e].key : e \in Existing'} = InSpec(spec)
          /\ \A e \in Existing' :
               /\ spec[row'[e].key] # Fresh => row'[e].body = spec[row'[e].key]
               /\ spec[row'[e].key] = Fresh => row'[e].body = commits + 1
          /\ \A e \in Existing : row[e].key \in InSpec(spec) =>
               e \in Existing' /\ row'[e].key = row[e].key /\ row'[e].status = row[e].status
  BY <1>1
<1> QED
  BY <1>2, InitWellFormed, NextWellFormed, PTL DEF Spec, ImportInstallsSpec

-----------------------------------------------------------------------------
(* The leases of deleted endpoints. *)

\* The lock requests on e whose guard has found the endpoint.
Acquiring(e) == {c \in Clients : At(c, "lock", "handle") /\ req[c].e = e}

\* Whoever gets to a lock route's handler was let in by the guard, for an
\* endpoint in place.
LEMMA JoinsAcquiring ==
  ASSUME WellFormed, [Next]_vars, NEW e \in Endpoints, NEW c \in Clients,
         c \in Acquiring(e)', c \notin Acquiring(e)
  PROVE  e \in Existing
<1>1. /\ req'[c] # Idle /\ req'[c].kind = "lock" /\ req'[c].pc = "handle" /\ req'[c].e = e
      /\ req'[c] # req[c]
  BY DEF Acquiring, At
<1>2. ActsFor(c)
  <2>1. ~ (Tick \/ Restart \/ UNCHANGED vars)
    BY <1>1 DEF Tick, Restart, vars
  <2>2. \A d \in Clients \ {c} : ~ActsFor(d)
    BY <1>1, Others
  <2> QED
    BY <2>1, <2>2 DEF Next, ActsFor
<1>3. MatchGuard(c)
  <2>1. ~ClientStep(c)
    <3>1. ~Load(c)
      BY <1>1 DEF Load
    <3>2. ASSUME NEW q, q.pc # "handle" PROVE ~Send(c, q)
      BY <1>1, <3>2 DEF Send, WellFormed, TypeOK
    <3>3. ~SendOnEndpoint(c)
      BY <3>2 DEF SendOnEndpoint, Blank
    <3>4. ~SendOnProject(c)
      BY <3>2 DEF SendOnProject, Blank
    <3> QED
      BY <3>1, <3>3, <3>4 DEF ClientStep
  <2>2. ~Finish(c)
    BY <1>1 DEF Finish, WellFormed, TypeOK
  <2>3. ~LockOwnerGuard(c) /\ ~ReadRow(c)
    <3>1. ASSUME LockOwnerGuard(c) PROVE FALSE
      <4>1. req[c] \in Request /\ req' = [req EXCEPT ![c] = [req[c] EXCEPT !.pc = "read"]]
        BY <3>1 DEF LockOwnerGuard, Goto, At, WellFormed, TypeOK
      <4>2. req'[c] = [req[c] EXCEPT !.pc = "read"]
        BY <4>1 DEF WellFormed, TypeOK
      <4> QED
        BY <1>1, <4>1, <4>2 DEF Request
    <3>2. ASSUME ReadRow(c) PROVE FALSE
      <4> DEFINE q == [req[c] EXCEPT !.pc = "write", !.before = row[req[c].e]]
      <4>1. req[c] \in Request /\ req' = [req EXCEPT ![c] = q]
        BY <3>2 DEF ReadRow, At, WellFormed, TypeOK
      <4>2. req'[c] = q
        BY <4>1 DEF WellFormed, TypeOK
      <4> QED
        BY <1>1, <4>1, <4>2 DEF Request
    <3> QED
      BY <3>1, <3>2
  <2>4. /\ ~PutCommit(c) /\ ~StatusCommit(c) /\ ~DeleteCommit(c) /\ ~CreateCommit(c)
        /\ ~ImportCommit(c) /\ ~SaveCommit(c) /\ ~DropCommit(c)
    <3>1. ASSUME NEW q, req[c] # Idle, req'[c] = q, q.pc = "reply" PROVE FALSE
      BY <1>1, <3>1
    <3>2. ASSUME NEW result, req[c] # Idle, Commit(c, result) PROVE FALSE
      <4> DEFINE q == [req[c] EXCEPT !.pc = "reply", !.result = result]
      <4>1. req[c] \in Request /\ req'[c] = q
        BY <3>2 DEF Commit, WellFormed, TypeOK
      <4>2. q.pc = "reply"
        BY <4>1 DEF Request
      <4> QED
        BY <3>1, <3>2, <4>1, <4>2
    <3>3. ASSUME CreateCommit(c) PROVE FALSE
      <4> DEFINE q(x) == [req[c] EXCEPT !.pc = "reply", !.e = x,
                            !.result = NewRow(req[c].key, req[c].status)]
      <4>1. PICK x : req[c] \in Request /\ req'[c] = q(x) /\ req[c] # Idle
        BY <3>3 DEF CreateCommit, At, WellFormed, TypeOK
      <4>2. q(x).pc = "reply"
        BY <4>1 DEF Request
      <4> QED
        BY <3>1, <4>1, <4>2
    <3> QED
      BY <3>2, <3>3 DEF PutCommit, StatusCommit, DeleteCommit,
         ImportCommit, SaveCommit, DropCommit, At
  <2> QED
    BY <1>1, <1>2, <2>1, <2>2, <2>3, <2>4, EndsRequest
       DEF ActsFor, GuardStep, EndpointStep, ProjectStep
<1>4. req[c] \in Request /\ req[c].e = e
  BY <1>1, <1>3 DEF MatchGuard, Goto, WellFormed, TypeOK
<1> QED
  BY <1>3, <1>4 DEF MatchGuard

\* A step leaves the lease of e as it is or ends it, unless it is a grant to one
\* of the requests that then leaves its handler.
LEMMA LeaseSteps ==
  ASSUME WellFormed, [Next]_vars, NEW e \in Endpoints
  PROVE  lease'[e] \in {lease[e], NoLease} \/ Acquiring(e)' # Acquiring(e)
<1>0. lease \in [Endpoints -> Leased \cup {NoLease}]
  BY DEF WellFormed, TypeOK, Leased
<1>1. CASE UNCHANGED lease
  BY <1>1
<1>2. CASE Tick
  BY <1>2 DEF Tick, Lease!Pass
<1>3. CASE Restart
  BY <1>3 DEF Restart, Lease!Reset
<1>4. ASSUME NEW c \in Clients, HandleUnlock(c)
      PROVE  lease'[e] \in {lease[e], NoLease}
  BY <1>0, <1>4 DEF HandleUnlock, Lease!GiveUp
<1>5. ASSUME NEW c \in Clients, HandleLock(c), lease'[e] # lease[e]
      PROVE  Acquiring(e)' # Acquiring(e)
  <2>1. req[c].e = e
    BY <1>0, <1>5 DEF HandleLock, Lease!Grant
  <2>2. c \in Acquiring(e) /\ req'[c] = Idle
    BY <1>5, <2>1 DEF HandleLock, Acquiring, WellFormed, TypeOK
  <2>3. c \notin Acquiring(e)'
    BY <2>2 DEF Acquiring, At
  <2> QED
    BY <2>2, <2>3
<1>6. ASSUME NEW c \in Clients, ActsFor(c), ~HandleLock(c), ~HandleUnlock(c)
      PROVE  UNCHANGED lease
  BY <1>6 DEF ActsFor, ClientStep, GuardStep, EndpointStep, ProjectStep, Finish,
     Load, SendOnEndpoint, SendOnProject, Send, MatchGuard, NotInProject, LockOwnerGuard,
     LockMissing, Invalid, ReadRow, ReadEnds, PutCommit, PutRefused, StatusCommit,
     StatusRefused, DeleteCommit, DeleteRefused, CreateCommit, CreateRefused,
     ImportCommit, SaveCommit, ProjectRefused, DropCommit, DropRefused, Commit, Reply
<1> QED
  BY <1>1, <1>2, <1>3, <1>4, <1>5, <1>6 DEF Next, ActsFor, vars

\* The lease of a deleted endpoint is only extended by lock requests that were
\* under way, and no request joins them: it runs out (the locks that
\* EndpointsService.delete and the import leave in the Map).
THEOREM OrphanLeasesRunOut == Spec => OrphanLeaseRunsOut
<1>1. ASSUME WellFormed, [Next]_vars, NEW e \in Endpoints, row[e] = Deleted
      PROVE  /\ Acquiring(e)' \subseteq Acquiring(e)
             /\ lease'[e] \in {lease[e], NoLease} \/ Acquiring(e)' # Acquiring(e)
  <2>1. e \notin Existing
    BY <1>1 DEF Existing, NoRow
  <2>2. \A c \in Acquiring(e)' : c \in Clients
    BY DEF Acquiring
  <2> QED
    BY <1>1, <2>1, <2>2, JoinsAcquiring, LeaseSteps
<1>2. WellFormed /\ [Next]_vars =>
        \A e \in Endpoints :
          LET acquiring == {c \in Clients : At(c, "lock", "handle") /\ req[c].e = e}
          IN  row[e] = Deleted =>
                /\ acquiring' \subseteq acquiring
                /\ lease'[e] \in {lease[e], NoLease} \/ acquiring' # acquiring
  BY <1>1 DEF Acquiring
<1> QED
  BY <1>2, InitWellFormed, NextWellFormed, PTL DEF Spec, OrphanLeaseRunsOut
=============================================================================
