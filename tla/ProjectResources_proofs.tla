----------------------- MODULE ProjectResources_proofs -----------------------
(***************************************************************************)
(* What holds of ProjectResources for all sets of users, names and values. *)
(*                                                                         *)
(* The argument rests on AUTOINCREMENT: every id in use is at most the     *)
(* largest one given, so a new row has an id no row and no request in its  *)
(* handler has; what a request's guard found out about an id stays true of *)
(* it while it is there.                                                   *)
(***************************************************************************)
EXTENDS ProjectResources, TLAPS

\* Ids in use have been given.
IdsGiven ==
  /\ \A r \in named : r.id <= born["named"]
  /\ \A s \in secrets : s.id <= born["secrets"]
  /\ \A n \in notes : n.id <= born["notes"]

NoteIdsUnique == \A n, m \in notes : n.id = m.id => n = m

\* Who is in the handler for a note found it, and it was his to touch.
HandlersMayTouch ==
  \A u \in Users : \A route \in {"update", "remove"} :
    followed = "note" /\ At(u, "handle", route) =>
      /\ req[u].id <= born["notes"]
      /\ \A n \in notes : n.id = req[u].id =>
           n.in = u \/ (route = "remove" /\ u \in Admins)

\* A request about a note gets to its handler through the look-up of the note.
NotesAreFound ==
  followed = "note" =>
    \A u \in Users : req[u] # None => req[u].pc \notin {"relation", "verify"}

IInv == /\ TypeOK /\ NoOrphans /\ NamesUnique /\ OnlyFailuresHideNames
        /\ IdsGiven /\ NoteIdsUnique /\ NotesAreFound /\ HandlersMayTouch

-----------------------------------------------------------------------------
(* Requests and rows. *)

LEMMA RequestThere ==
  ASSUME TypeOK, NEW u \in Users, req[u] # None
  PROVE  /\ req[u] \in Request /\ req[u].id \in 0..MaxIds /\ req[u].route \in Routes
         /\ \A pc \in {"guard", "relation", "verify", "find", "handle", "readback"} :
              LET q == [req[u] EXCEPT !.pc = pc]
              IN  /\ q \in Request /\ q.pc = pc /\ q.route = req[u].route
                  /\ q.id = req[u].id /\ q.name = req[u].name
  BY DEF TypeOK, Request

\* A request moves on within its route.
LEMMA Moves ==
  ASSUME TypeOK, NEW u \in Users, req[u] # None,
         NEW pc \in {"guard", "relation", "verify", "find", "handle", "readback"}, Goto(u, pc)
  PROVE  /\ req' \in [Users -> Request \cup {None}]
         /\ req'[u].pc = pc /\ req'[u].route = req[u].route /\ req'[u].id = req[u].id
         /\ \A v \in Users \ {u} : req'[v] = req[v]
  <1> DEFINE q == [req[u] EXCEPT !.pc = pc]
  <1>1. q \in Request /\ q.pc = pc /\ q.route = req[u].route /\ q.id = req[u].id
    BY RequestThere
  <1>2. req' = [req EXCEPT ![u] = q]
    BY DEF Goto
  <1> HIDE DEF q
  <1> QED
    BY <1>1, <1>2 DEF TypeOK

LEMMA Ends ==
  ASSUME TypeOK, NEW u \in Users, Done(u)
  PROVE  /\ req' \in [Users -> Request \cup {None}] /\ req'[u] = None
         /\ \A v \in Users \ {u} : req'[v] = req[v]
  BY DEF Done, TypeOK

LEMMA RowThere ==
  ASSUME NEW table, NEW id \in IdsOf(table)
  PROVE  Row(table, id) \in table /\ Row(table, id).id = id
  BY DEF IdsOf, Row

LEMMA RowIsIt ==
  ASSUME NEW table, NEW r \in table, \A x \in table : x.id = r.id => x = r
  PROVE  Row(table, r.id) = r
  BY DEF Row

\* What Born leaves.
LEMMA Borns ==
  ASSUME TypeOK, NEW t \in {"named", "secrets", "notes"}, Born(t, born[t] + 1)
  PROVE  /\ born[t] + 1 \in Ids
         /\ born' \in [{"named", "secrets", "notes"} -> 0..MaxIds]
         /\ born'[t] = born[t] + 1
         /\ \A x \in {"named", "secrets", "notes"} \ {t} : born'[x] = born[x]
  <1>1. born \in [{"named", "secrets", "notes"} -> 0..MaxIds] /\ born[t] \in 0..MaxIds
    BY DEF TypeOK
  <1>2. born[t] + 1 \in Ids /\ born' = [born EXCEPT ![t] = born[t] + 1]
    <2>1. born[t] + 1 <= MaxIds /\ born[t] < born[t] + 1
      BY <1>1, BoundAssumption DEF Born
    <2>2. born' = [born EXCEPT ![t] = IF born[t] < born[t] + 1 THEN born[t] + 1 ELSE born[t]]
      BY DEF Born
    <2> QED
      BY <1>1, <2>1, <2>2, BoundAssumption DEF Ids
  <1> QED
    BY <1>1, <1>2 DEF Ids

-----------------------------------------------------------------------------
(* What steps do to the named rows, the secrets and the notes. *)

NamedAdded(r) ==
  /\ r \in NamedRow /\ r.id = born["named"] + 1 /\ born'["named"] = born["named"] + 1
  /\ r.name \notin NamesOf(Without(named, r.id))
  /\ named' = named \cup {r} /\ project /\ project'
  /\ TellUnlessCut(r.id, r.name)
NamedEdited(r) ==
  /\ r \in NamedRow /\ r.id \in IdsOf(named) /\ born'["named"] = born["named"]
  /\ r.name \notin NamesOf(Without(named, r.id))
  /\ named' = Without(named, r.id) \cup {r} /\ secrets' = secrets
NamedRemoved(r) ==
  /\ r \in named /\ named' = named \ {r} /\ secrets' = Cascade(r.id)
  /\ UNCHANGED <<auditVars, born, project, endpoint, notes>>

LEMMA CreateNamedEffect ==
  ASSUME TypeOK, NEW u \in Users, CreateNamed(u)
  PROVE  /\ \E r : NamedAdded(r)
         /\ UNCHANGED <<followed, project, endpoint, secrets, notes>>
         /\ born' \in [{"named", "secrets", "notes"} -> 0..MaxIds]
         /\ born'["secrets"] = born["secrets"] /\ born'["notes"] = born["notes"]
         /\ followed # "note" /\ At(u, "handle", "create") /\ Done(u)
  <1> DEFINE id == born["named"] + 1
  <1>1. PICK n \in Names :
          /\ Unique(named, id, n) /\ Born("named", id)
          /\ named' = named \cup {[id |-> id, name |-> n]} /\ TellUnlessCut(id, n)
    BY DEF CreateNamed, NextId
  <1>2. /\ id \in Ids /\ born' \in [{"named", "secrets", "notes"} -> 0..MaxIds] /\ born'["named"] = id
        /\ born'["secrets"] = born["secrets"] /\ born'["notes"] = born["notes"]
    BY <1>1, Borns
  <1> DEFINE r == [id |-> id, name |-> n]
  <1>3. r \in NamedRow /\ r.id = id /\ r.name = n
    BY <1>1, <1>2 DEF NamedRow
  <1>4. project /\ UNCHANGED <<followed, project, endpoint, secrets, notes>>
        /\ followed # "note" /\ At(u, "handle", "create") /\ Done(u)
    BY DEF CreateNamed, rowVars
  <1>5. NamedAdded(r)
    BY <1>1, <1>2, <1>3, <1>4 DEF NamedAdded, Unique
  <1> QED
    BY <1>2, <1>4, <1>5

LEMMA UpdateEnvironmentEffect ==
  ASSUME TypeOK, NEW u \in Users, UpdateEnvironment(u)
  PROVE  /\ \E r : NamedEdited(r) /\ r.id = req[u].id
         /\ UNCHANGED <<followed, project, endpoint, notes, born, auditVars>>
         /\ followed = "environment" /\ At(u, "handle", "update") /\ Goto(u, "readback")
  <1>1. PICK n \in Names :
          /\ Unique(named, req[u].id, n)
          /\ named' = Without(named, req[u].id) \cup {[Row(named, req[u].id) EXCEPT !.name = n]}
    BY DEF UpdateEnvironment
  <1>2. /\ req[u].id \in IdsOf(named) /\ UNCHANGED <<followed, project, endpoint, secrets, notes, born, auditVars>>
        /\ followed = "environment" /\ At(u, "handle", "update") /\ Goto(u, "readback")
    BY DEF UpdateEnvironment, Handles, ReadsBack, rowVars
  <1> DEFINE old == Row(named, req[u].id)
             r == [old EXCEPT !.name = n]
  <1>3. old \in NamedRow /\ old.id = req[u].id
    BY <1>2, RowThere DEF TypeOK
  <1> HIDE DEF old
  <1>4. r \in NamedRow /\ r.id = req[u].id /\ r.name = n
    BY <1>3 DEF NamedRow
  <1>5. named' = Without(named, r.id) \cup {r}
    BY <1>1, <1>4 DEF old
  <1> HIDE DEF r
  <1>6. NamedEdited(r)
    BY <1>1, <1>2, <1>4, <1>5 DEF NamedEdited, Unique
  <1> QED
    BY <1>2, <1>4, <1>6

LEMMA UpdateComponentEffect ==
  ASSUME TypeOK, NEW u \in Users, UpdateComponent(u)
  PROVE  /\ \E r : NamedEdited(r) /\ TellUnlessCut(r.id, r.name)
         /\ UNCHANGED <<followed, project, endpoint, notes, born>>
         /\ followed = "component" /\ At(u, "handle", "update") /\ Done(u)
  <1>1. PICK old \in named, n \in Names :
          /\ Unique(named, old.id, n)
          /\ named' = Without(named, old.id) \cup {[old EXCEPT !.name = n]}
          /\ TellUnlessCut(old.id, n)
    BY DEF UpdateComponent
  <1>2. /\ UNCHANGED <<followed, project, endpoint, secrets, notes, born>>
        /\ followed = "component" /\ At(u, "handle", "update") /\ Done(u)
    BY DEF UpdateComponent, Handles, rowVars
  <1>3. old \in NamedRow
    BY DEF TypeOK
  <1> DEFINE r == [old EXCEPT !.name = n]
  <1>4. r \in NamedRow /\ r.id = old.id /\ r.name = n /\ old.id \in IdsOf(named)
    BY <1>3 DEF NamedRow, IdsOf
  <1>6. named' = Without(named, r.id) \cup {r}
    BY <1>1, <1>4
  <1> HIDE DEF r
  <1>7. NamedEdited(r)
    BY <1>1, <1>2, <1>4, <1>6 DEF NamedEdited, Unique
  <1> QED
    BY <1>1, <1>2, <1>4, <1>7

LEMMA RemoveNamedEffect ==
  ASSUME NEW u \in Users, RemoveNamed(u)
  PROVE  /\ \E r : NamedRemoved(r)
         /\ followed # "note" /\ UNCHANGED followed /\ Done(u) /\ req[u] # None
  BY DEF RemoveNamed, NamedRemoved, rowVars, At

SecretAdded(s) ==
  /\ s \in SecretRow /\ s.id = born["secrets"] + 1 /\ born'["secrets"] = born["secrets"] + 1
  /\ s.in \in IdsOf(named)
  /\ s.name \notin NamesOf(Without({x \in secrets : x.in = s.in}, s.id))
  /\ secrets' = secrets \cup {s}
SecretEdited(s, old) ==
  /\ s \in SecretRow /\ old \in secrets
  /\ s.id = old.id /\ s.in = old.in /\ s.name = old.name
  /\ secrets' = Without(secrets, s.id) \cup {s}

LEMMA CreateSecretEffect ==
  ASSUME TypeOK, NEW u \in Users, CreateSecret(u)
  PROVE  /\ \E s : SecretAdded(s)
         /\ UNCHANGED <<followed, project, endpoint, named, notes, auditVars>>
         /\ born' \in [{"named", "secrets", "notes"} -> 0..MaxIds]
         /\ born'["named"] = born["named"] /\ born'["notes"] = born["notes"]
         /\ req[u] # None /\ req[u].route = "createSecret" /\ Done(u)
  <1> DEFINE id == born["secrets"] + 1
  <1>1. PICK k \in Names, v \in Values :
          /\ Unique({x \in secrets : x.in = req[u].id}, id, k) /\ Born("secrets", id)
          /\ secrets' = secrets \cup {[id |-> id, in |-> req[u].id, name |-> k, value |-> v]}
    BY DEF CreateSecret, NextId
  <1>2. /\ id \in Ids /\ born' \in [{"named", "secrets", "notes"} -> 0..MaxIds] /\ born'["secrets"] = id
        /\ born'["named"] = born["named"] /\ born'["notes"] = born["notes"]
    BY <1>1, Borns
  <1>3. /\ req[u].id \in IdsOf(named) /\ UNCHANGED <<followed, project, endpoint, named, notes, auditVars>>
        /\ req[u] # None /\ req[u].route = "createSecret" /\ Done(u)
    BY DEF CreateSecret, At, rowVars
  <1>4. req[u].id \in Ids
    BY <1>3 DEF TypeOK, NamedRow, IdsOf
  <1> DEFINE s == [id |-> id, in |-> req[u].id, name |-> k, value |-> v]
  <1>5. s \in SecretRow /\ s.id = id /\ s.in = req[u].id /\ s.name = k
    BY <1>1, <1>2, <1>4 DEF SecretRow
  <1>6. secrets' = secrets \cup {s}
    BY <1>1
  <1> HIDE DEF s
  <1>7. SecretAdded(s)
    BY <1>1, <1>2, <1>3, <1>5, <1>6 DEF SecretAdded, Unique
  <1> QED
    BY <1>2, <1>3, <1>7

LEMMA UpdateSecretEffect ==
  ASSUME TypeOK, NEW u \in Users, UpdateSecret(u)
  PROVE  /\ \E s, old : SecretEdited(s, old)
         /\ UNCHANGED <<followed, project, endpoint, named, notes, born, auditVars>>
         /\ At(u, "handle", "updateSecret") /\ Goto(u, "readback")
  <1>1. PICK v \in Values :
          secrets' = Without(secrets, req[u].id) \cup {[Row(secrets, req[u].id) EXCEPT !.value = v]}
    BY DEF UpdateSecret
  <1>2. /\ req[u].id \in IdsOf(secrets) /\ UNCHANGED <<followed, project, endpoint, named, notes, born, auditVars>>
        /\ At(u, "handle", "updateSecret") /\ Goto(u, "readback")
    BY DEF UpdateSecret, ReadsBack, rowVars
  <1> DEFINE old == Row(secrets, req[u].id)
             s == [old EXCEPT !.value = v]
  <1>3. old \in SecretRow /\ old \in secrets /\ old.id = req[u].id
    BY <1>2, RowThere DEF TypeOK
  <1> HIDE DEF old
  <1>4. s \in SecretRow /\ s.id = old.id /\ s.in = old.in /\ s.name = old.name
    BY <1>3 DEF SecretRow
  <1>5. secrets' = Without(secrets, s.id) \cup {s}
    BY <1>1, <1>3, <1>4 DEF old
  <1> HIDE DEF s
  <1>6. SecretEdited(s, old)
    BY <1>3, <1>4, <1>5 DEF SecretEdited
  <1> QED
    BY <1>2, <1>6

NoteAdded(n, u) ==
  /\ n \in NoteRow /\ n.id = born["notes"] + 1 /\ born'["notes"] = born["notes"] + 1
  /\ n.in = u /\ endpoint /\ notes' = notes \cup {n}
NoteEdited(n, old) ==
  /\ n \in NoteRow /\ old \in notes /\ n.id = old.id /\ n.in = old.in
  /\ notes' = Without(notes, n.id) \cup {n}

LEMMA CreateNoteEffect ==
  ASSUME TypeOK, NEW u \in Users, CreateNote(u)
  PROVE  /\ \E n : NoteAdded(n, u)
         /\ UNCHANGED <<followed, project, endpoint, named, secrets, auditVars>>
         /\ born' \in [{"named", "secrets", "notes"} -> 0..MaxIds]
         /\ born'["named"] = born["named"] /\ born'["secrets"] = born["secrets"]
         /\ followed = "note" /\ At(u, "handle", "create") /\ Done(u)
  <1> DEFINE id == born["notes"] + 1
  <1>1. PICK v \in Values :
          Born("notes", id) /\ notes' = notes \cup {[id |-> id, in |-> u, value |-> v]}
    BY DEF CreateNote, NextId
  <1>2. /\ id \in Ids /\ born' \in [{"named", "secrets", "notes"} -> 0..MaxIds] /\ born'["notes"] = id
        /\ born'["named"] = born["named"] /\ born'["secrets"] = born["secrets"]
    BY <1>1, Borns
  <1>3. /\ endpoint /\ UNCHANGED <<followed, project, endpoint, named, secrets, auditVars>>
        /\ followed = "note" /\ At(u, "handle", "create") /\ Done(u)
    BY DEF CreateNote, Handles, rowVars
  <1> DEFINE n == [id |-> id, in |-> u, value |-> v]
  <1>4. n \in NoteRow /\ n.id = id /\ n.in = u
    BY <1>1, <1>2 DEF NoteRow
  <1>5. NoteAdded(n, u)
    BY <1>1, <1>2, <1>3, <1>4 DEF NoteAdded
  <1> QED
    BY <1>2, <1>3, <1>5

LEMMA UpdateNoteEffect ==
  ASSUME TypeOK, NEW u \in Users, UpdateNote(u)
  PROVE  /\ \E n, old : NoteEdited(n, old) /\ n.id = req[u].id
         /\ UNCHANGED <<followed, project, endpoint, named, secrets, born, auditVars>>
         /\ followed = "note" /\ At(u, "handle", "update") /\ Done(u)
  <1>1. PICK v \in Values :
          notes' = Without(notes, req[u].id) \cup {[Row(notes, req[u].id) EXCEPT !.value = v]}
    BY DEF UpdateNote
  <1>2. /\ req[u].id \in IdsOf(notes) /\ UNCHANGED <<followed, project, endpoint, named, secrets, born, auditVars>>
        /\ followed = "note" /\ At(u, "handle", "update") /\ Done(u)
    BY DEF UpdateNote, Handles, rowVars
  <1> DEFINE old == Row(notes, req[u].id)
             n == [old EXCEPT !.value = v]
  <1>3. old \in NoteRow /\ old \in notes /\ old.id = req[u].id
    BY <1>2, RowThere DEF TypeOK
  <1> HIDE DEF old
  <1>4. n \in NoteRow /\ n.id = old.id /\ n.in = old.in
    BY <1>3 DEF NoteRow
  <1>5. notes' = Without(notes, n.id) \cup {n}
    BY <1>1, <1>3, <1>4 DEF old
  <1> HIDE DEF n
  <1>6. NoteEdited(n, old)
    BY <1>3, <1>4, <1>5 DEF NoteEdited
  <1> QED
    BY <1>2, <1>3, <1>4, <1>6

-----------------------------------------------------------------------------
(* Type correctness. *)

\* What has been told, is about to be, or could not be.
Heard == events \cup audited \cup lost
AuditTyped == events \subseteq Ids \X Names /\ audited \subseteq Ids \X Names /\ lost \subseteq Ids \X Names

\* Nothing said is forgotten, but for what the log has anyway.
LEMMA LosesKeeps ==
  ASSUME AuditTyped, NEW names, names \subseteq Ids \X Names, Loses(names), UNCHANGED <<events, audited>>
  PROVE  AuditTyped' /\ Heard \subseteq Heard' /\ names \subseteq Heard'
  BY DEF AuditTyped, Heard, Loses

LEMMA TellKeeps ==
  ASSUME AuditTyped, NEW id \in Ids, NEW name \in Names, Tell(id, name)
  PROVE  AuditTyped' /\ Heard \subseteq Heard' /\ <<id, name>> \in Heard'
  BY DEF AuditTyped, Heard, Tell

LEMMA TellUnlessCutKeeps ==
  ASSUME AuditTyped, NEW id \in Ids, NEW name \in Names, TellUnlessCut(id, name)
  PROVE  AuditTyped' /\ Heard \subseteq Heard' /\ <<id, name>> \in Heard'
  <1>1. {<<id, name>>} \subseteq Ids \X Names
    OBVIOUS
  <1> QED
    BY <1>1, LosesKeeps, TellKeeps DEF TellUnlessCut

LEMMA ListenerKeeps ==
  ASSUME AuditTyped, NEW e \in events, Write(e) \/ FailToWrite(e)
  PROVE  AuditTyped' /\ Heard \subseteq Heard' /\ UNCHANGED <<followed, rowVars, tableVars, req>>
  BY DEF AuditTyped, Heard, Write, FailToWrite, Loses

LEMMA RefuseKeeps ==
  ASSUME TypeOK, NEW u \in Users, Refuse(u)
  PROVE  AuditTyped' /\ Heard \subseteq Heard' /\ Untold(u) \subseteq Heard'
  <1>1. AuditTyped /\ Untold(u) \subseteq Ids \X Names
    BY DEF TypeOK, AuditTyped, Untold, NamedRow
  <1> QED
    BY <1>1, LosesKeeps DEF Refuse

LEMMA TypeInit == Init => TypeOK
  BY BoundAssumption DEF Init, TypeOK

\* A route's request, sent or moved on.
LEMMA RequestTypes ==
  ASSUME TypeOK, NEW u \in Users, RequestStep(u)
  PROVE  /\ req' \in [Users -> Request \cup {None}]
         /\ \A v \in Users \ {u} : req'[v] = req[v]
         /\ UNCHANGED <<followed, rowVars, tableVars>>
         /\ AuditTyped' /\ Heard \subseteq Heard'
  <1> DEFINE Own == req' \in [Users -> Request \cup {None}] /\ \A v \in Users \ {u} : req'[v] = req[v]
  <1>1. ASSUME NEW route \in Routes, Send(u, route)
        PROVE  Own
    <2>1. PICK x \in Targets(route) :
            req' = [req EXCEPT ![u] = [pc |-> "guard", route |-> route, id |-> x[1], name |-> x[2]]]
      BY <1>1 DEF Send
    <2>2. x[1] \in 0..MaxIds /\ x[2] \in Names \cup {None}
      BY BoundAssumption DEF Targets, Ids
    <2>3. [pc |-> "guard", route |-> route, id |-> x[1], name |-> x[2]] \in Request
      BY <2>2 DEF Request
    <2> QED
      BY <2>1, <2>3 DEF TypeOK
  <1>2. AfterGuard(u) \in {"find", "verify", "handle", "relation"}
    BY DEF AfterGuard
  <1>3. ASSUME Guard(u)
        PROVE  Own
    BY <1>2, <1>3, Moves DEF Guard
  <1>4. ASSUME Relation(u)
        PROVE  Own
    BY <1>4, Moves DEF Relation
  <1>5. ASSUME Verify(u)
        PROVE  Own
    BY <1>5, Moves DEF Verify
  <1>6. ASSUME Find(u)
        PROVE  Own
    BY <1>6, Moves DEF Find
  <1>7. ASSUME Refuse(u)
        PROVE  Own
    BY <1>7, Ends DEF Refuse
  <1>8. UNCHANGED <<followed, rowVars, tableVars>>
    BY DEF RequestStep, Send, Guard, Relation, Verify, Find, Refuse
  <1>9. AuditTyped' /\ Heard \subseteq Heard'
    <2>1. CASE Refuse(u)
      BY <2>1, RefuseKeeps
    <2>2. CASE ~Refuse(u)
      <3>1. UNCHANGED <<events, audited, lost>>
        BY <2>2 DEF RequestStep, Send, Guard, Relation, Verify, Find, auditVars
      <3> QED
        BY <3>1 DEF AuditTyped, Heard, TypeOK
    <2> QED
      BY <2>1, <2>2
  <1> QED
    BY <1>1, <1>3, <1>4, <1>5, <1>6, <1>7, <1>8, <1>9 DEF RequestStep

\* A request goes on to read back what it wrote.
LEMMA GoesToReadBack ==
  ASSUME TypeOK, NEW u \in Users, req[u] # None, Goto(u, "readback")
  PROVE  /\ req' \in [Users -> Request \cup {None}]
         /\ \A v \in Users \ {u} : req'[v] = req[v]
         /\ req'[u] # None /\ req'[u].pc = "readback"
         /\ req'[u].route = req[u].route /\ req'[u].id = req[u].id
  <1>1. req' = [req EXCEPT ![u] = [req[u] EXCEPT !.pc = "readback"]]
    BY DEF Goto
  <1>2. [req[u] EXCEPT !.pc = "readback"] \in Request /\ req'[u] = [req[u] EXCEPT !.pc = "readback"]
    BY <1>1, RequestThere DEF TypeOK
  <1> QED
    BY <1>2, Moves, NoRequestAssumption

\* Every handler's step is its own request's.
LEMMA HandlerRequests ==
  ASSUME TypeOK, NEW u \in Users, HandlerStep(u)
  PROVE  /\ req' \in [Users -> Request \cup {None}]
         /\ \A v \in Users \ {u} : req'[v] = req[v]
         /\ UNCHANGED followed /\ req[u] # None
         /\ req'[u] # None => req'[u].pc = "readback"
  <1>1. CASE UpdateEnvironment(u) \/ UpdateSecret(u)
    <2>1. req[u] # None /\ Goto(u, "readback") /\ UNCHANGED followed
      BY <1>1, UpdateEnvironmentEffect, UpdateSecretEffect DEF At
    <2> QED
      BY <2>1, GoesToReadBack
  <1>2. CASE ~(UpdateEnvironment(u) \/ UpdateSecret(u))
    <2>1. Done(u) /\ UNCHANGED followed /\ req[u] # None
      BY <1>2 DEF HandlerStep, NamedStep, CreateNamed, ReadBack, ReadBackSecret, UpdateComponent, RemoveNamed,
                  CreateSecret, RemoveSecret, CreateNote, UpdateNote, RemoveNote, At, Handles
    <2> QED
      BY <2>1, Ends
  <1> QED
    BY <1>1, <1>2

\* The tables keep their shape.
TablesTyped ==
  /\ named \subseteq NamedRow /\ secrets \subseteq SecretRow /\ notes \subseteq NoteRow
  /\ born \in [{"named", "secrets", "notes"} -> 0..MaxIds]
  /\ AuditTyped

LEMMA HandlerTypes ==
  ASSUME TypeOK, NEW u \in Users, HandlerStep(u)
  PROVE  TablesTyped' /\ UNCHANGED <<project, endpoint>> /\ Heard \subseteq Heard'
  <1> USE DEF TablesTyped
  <1>0. TablesTyped
    BY DEF TypeOK, AuditTyped
  <1>a. UNCHANGED auditVars => AuditTyped' /\ Heard \subseteq Heard'
    BY <1>0 DEF auditVars, AuditTyped, Heard
  <1>1. CASE CreateNamed(u)
    <2>1. PICK r : NamedAdded(r)
      BY <1>1, CreateNamedEffect
    <2>2. named' \subseteq NamedRow /\ r.id \in Ids /\ r.name \in Names /\ TellUnlessCut(r.id, r.name)
      BY <1>0, <2>1 DEF NamedAdded, NamedRow
    <2>3. AuditTyped' /\ Heard \subseteq Heard'
      BY <1>0, <2>2, TellUnlessCutKeeps
    <2> QED
      BY <1>0, <1>1, <2>2, <2>3, CreateNamedEffect
  <1>2. CASE UpdateEnvironment(u)
    <2>1. PICK r : NamedEdited(r)
      BY <1>2, UpdateEnvironmentEffect
    <2>2. named' \subseteq NamedRow /\ secrets' = secrets
      BY <1>0, <2>1 DEF NamedEdited, Without
    <2> QED
      BY <1>0, <1>a, <1>2, <2>2, UpdateEnvironmentEffect
  <1>3. CASE ReadBack(u)
    <2>1. /\ req[u].id \in IdsOf(named) /\ Tell(req[u].id, Row(named, req[u].id).name)
          /\ UNCHANGED <<project, endpoint, named, secrets, notes, born>>
      BY <1>3 DEF ReadBack, rowVars, tableVars
    <2>2. Row(named, req[u].id) \in NamedRow /\ Row(named, req[u].id).id = req[u].id
      BY <1>0, <2>1, RowThere
    <2>3. req[u].id \in Ids /\ Row(named, req[u].id).name \in Names
      BY <2>2 DEF NamedRow
    <2>4. AuditTyped' /\ Heard \subseteq Heard'
      BY <1>0, <2>1, <2>3, TellKeeps
    <2> QED
      BY <1>0, <2>1, <2>4
  <1>4. CASE UpdateComponent(u)
    <2>1. PICK r : NamedEdited(r) /\ TellUnlessCut(r.id, r.name)
      BY <1>4, UpdateComponentEffect
    <2>2. named' \subseteq NamedRow /\ secrets' = secrets /\ r.id \in Ids /\ r.name \in Names
      BY <1>0, <2>1 DEF NamedEdited, Without, NamedRow
    <2>3. AuditTyped' /\ Heard \subseteq Heard'
      BY <1>0, <2>1, <2>2, TellUnlessCutKeeps
    <2> QED
      BY <1>0, <1>4, <2>2, <2>3, UpdateComponentEffect
  <1>5. CASE RemoveNamed(u)
    BY <1>0, <1>a, <1>5, RemoveNamedEffect DEF NamedRemoved, Cascade
  <1>6. CASE CreateSecret(u)
    <2>1. PICK s : SecretAdded(s)
      BY <1>6, CreateSecretEffect
    <2>2. secrets' \subseteq SecretRow
      BY <1>0, <2>1 DEF SecretAdded
    <2> QED
      BY <1>0, <1>a, <1>6, <2>2, CreateSecretEffect
  <1>7. CASE UpdateSecret(u)
    <2>1. PICK s, old : SecretEdited(s, old)
      BY <1>7, UpdateSecretEffect
    <2>2. secrets' \subseteq SecretRow
      BY <1>0, <2>1 DEF SecretEdited, Without
    <2> QED
      BY <1>0, <1>a, <1>7, <2>2, UpdateSecretEffect
  <1>8. CASE RemoveSecret(u)
    BY <1>0, <1>a, <1>8 DEF RemoveSecret, Without, rowVars
  <1>9. CASE CreateNote(u)
    <2>1. PICK n : NoteAdded(n, u)
      BY <1>9, CreateNoteEffect
    <2>2. notes' \subseteq NoteRow
      BY <1>0, <2>1 DEF NoteAdded
    <2> QED
      BY <1>0, <1>a, <1>9, <2>2, CreateNoteEffect
  <1>10. CASE UpdateNote(u)
    <2>1. PICK n, old : NoteEdited(n, old)
      BY <1>10, UpdateNoteEffect
    <2>2. notes' \subseteq NoteRow
      BY <1>0, <2>1 DEF NoteEdited, Without
    <2> QED
      BY <1>0, <1>a, <1>10, <2>2, UpdateNoteEffect
  <1>11. CASE RemoveNote(u)
    BY <1>0, <1>a, <1>11 DEF RemoveNote, Without, rowVars
  <1>12. CASE ReadBackSecret(u)
    BY <1>0, <1>a, <1>12 DEF ReadBackSecret, rowVars, tableVars
  <1> HIDE DEF TablesTyped
  <1> QED
    BY <1>1, <1>2, <1>3, <1>4, <1>5, <1>6, <1>7, <1>8, <1>9, <1>10, <1>11, <1>12 DEF HandlerStep, NamedStep

LEMMA TypeStep ==
  ASSUME TypeOK, [Next]_vars
  PROVE  TypeOK'
  <1>1. CASE UNCHANGED vars
    BY <1>1 DEF TypeOK, vars, rowVars, tableVars, auditVars
  <1>2. ASSUME NEW u \in Users, RequestStep(u)
        PROVE  TypeOK'
    BY <1>2, RequestTypes DEF TypeOK, rowVars, tableVars, AuditTyped
  <1>3. ASSUME NEW u \in Users, HandlerStep(u)
        PROVE  TypeOK'
    <2>1. TablesTyped' /\ UNCHANGED <<project, endpoint>>
      BY <1>3, HandlerTypes
    <2>2. req' \in [Users -> Request \cup {None}] /\ UNCHANGED followed
      BY <1>3, HandlerRequests
    <2> QED
      BY <2>1, <2>2 DEF TypeOK, TablesTyped, AuditTyped
  <1>4. CASE DropEndpoint
    BY <1>4 DEF DropEndpoint, TypeOK, auditVars
  <1>5. CASE DropProject
    BY <1>5 DEF DropProject, TypeOK, auditVars
  <1>6. ASSUME NEW e \in events, Write(e) \/ FailToWrite(e)
        PROVE  TypeOK'
    <2>1. AuditTyped
      BY DEF TypeOK, AuditTyped
    <2> QED
      BY <1>6, <2>1, ListenerKeeps DEF TypeOK, rowVars, tableVars, AuditTyped
  <1> QED
    BY <1>1, <1>2, <1>3, <1>4, <1>5, <1>6 DEF Next

-----------------------------------------------------------------------------
(* Ids. *)

\* What a step may do to the ids in use: a new one is the next, and counted.
LEMMA IdsStep ==
  ASSUME TypeOK, IdsGiven, [Next]_vars
  PROVE  IdsGiven' /\ born["notes"] <= born'["notes"]
  <1> USE DEF IdsGiven
  <1>0. /\ born["named"] \in Nat /\ born["secrets"] \in Nat /\ born["notes"] \in Nat
        /\ \A r \in named : r.id \in Nat
        /\ \A x \in secrets : x.id \in Nat
        /\ \A n \in notes : n.id \in Nat
    BY BoundAssumption DEF TypeOK, NamedRow, SecretRow, NoteRow, Ids
  <1>1. ASSUME born' = born, IdsOf(named') \subseteq IdsOf(named),
               IdsOf(secrets') \subseteq IdsOf(secrets), IdsOf(notes') \subseteq IdsOf(notes)
        PROVE  IdsGiven' /\ born["notes"] <= born'["notes"]
    <2>1. \A r \in named' : r.id \in IdsOf(named)
      BY <1>1 DEF IdsOf
    <2>2. \A r \in secrets' : r.id \in IdsOf(secrets)
      BY <1>1 DEF IdsOf
    <2>3. \A r \in notes' : r.id \in IdsOf(notes)
      BY <1>1 DEF IdsOf
    <2> QED
      BY <1>0, <1>1, <2>1, <2>2, <2>3 DEF IdsOf
  <1>2. ASSUME NEW u \in Users, CreateNamed(u)
        PROVE  IdsGiven' /\ born["notes"] <= born'["notes"]
    <2>1. PICK r : NamedAdded(r)
      BY <1>2, CreateNamedEffect
    <2>2. \A x \in named' : x.id <= born'["named"]
      BY <1>0, <2>1 DEF NamedAdded
    <2> QED
      BY <1>0, <1>2, <2>2, CreateNamedEffect
  <1>3. ASSUME NEW u \in Users, CreateSecret(u)
        PROVE  IdsGiven' /\ born["notes"] <= born'["notes"]
    <2>1. PICK s : SecretAdded(s)
      BY <1>3, CreateSecretEffect
    <2>2. \A x \in secrets' : x.id <= born'["secrets"]
      BY <1>0, <2>1 DEF SecretAdded
    <2> QED
      BY <1>0, <1>3, <2>2, CreateSecretEffect
  <1>4. ASSUME NEW u \in Users, CreateNote(u)
        PROVE  IdsGiven' /\ born["notes"] <= born'["notes"]
    <2>1. PICK n : NoteAdded(n, u)
      BY <1>4, CreateNoteEffect
    <2>2. \A x \in notes' : x.id <= born'["notes"]
      BY <1>0, <2>1 DEF NoteAdded
    <2>3. born["notes"] <= born'["notes"]
      <3>1. born'["notes"] = born["notes"] + 1
        BY <2>1 DEF NoteAdded
      <3> QED
        BY <1>0, <3>1
    <2>4. /\ named' = named /\ secrets' = secrets
          /\ born'["named"] = born["named"] /\ born'["secrets"] = born["secrets"]
      BY <1>4, CreateNoteEffect
    <2> QED
      BY <1>0, <2>2, <2>3, <2>4
  <1>5. ASSUME NEW r, NamedEdited(r)
        PROVE  IdsOf(named') \subseteq IdsOf(named)
    BY <1>5 DEF NamedEdited, IdsOf, Without
  <1>6. ASSUME NEW s, NEW old, SecretEdited(s, old)
        PROVE  IdsOf(secrets') \subseteq IdsOf(secrets)
    BY <1>6 DEF SecretEdited, IdsOf, Without
  <1>7. ASSUME NEW n, NEW old, NoteEdited(n, old)
        PROVE  IdsOf(notes') \subseteq IdsOf(notes)
    BY <1>7 DEF NoteEdited, IdsOf, Without
  <1> HIDE DEF IdsGiven
  <1>8. ASSUME NEW u \in Users, UpdateEnvironment(u) \/ UpdateComponent(u)
        PROVE  IdsGiven' /\ born["notes"] <= born'["notes"]
    <2>1. (\E r : NamedEdited(r)) /\ UNCHANGED <<born, notes>>
      BY <1>8, UpdateEnvironmentEffect, UpdateComponentEffect
    <2>2. UNCHANGED secrets
      BY <2>1 DEF NamedEdited
    <2> QED
      BY <2>1, <2>2, <1>1, <1>5
  <1>9. ASSUME NEW u \in Users, UpdateSecret(u)
        PROVE  IdsGiven' /\ born["notes"] <= born'["notes"]
    BY <1>9, <1>1, <1>6, UpdateSecretEffect
  <1>10. ASSUME NEW u \in Users, UpdateNote(u)
         PROVE  IdsGiven' /\ born["notes"] <= born'["notes"]
    <2>1. (\E n, old : NoteEdited(n, old)) /\ UNCHANGED <<named, secrets, born>>
      BY <1>10, UpdateNoteEffect
    <2> QED
      BY <2>1, <1>1, <1>7
  <1>11. ASSUME NEW u \in Users, RequestStep(u) \/ ReadBack(u) \/ ReadBackSecret(u) \/ RemoveNamed(u) \/ RemoveSecret(u) \/ RemoveNote(u)
         PROVE  born' = born /\ named' \subseteq named /\ secrets' \subseteq secrets /\ notes' \subseteq notes
    BY <1>11, RequestTypes, RemoveNamedEffect
       DEF tableVars, ReadBack, ReadBackSecret, NamedRemoved, Cascade, RemoveSecret, RemoveNote, Without
  <1>12. DropEndpoint \/ DropProject \/ UNCHANGED vars \/ (\E e \in events : Write(e) \/ FailToWrite(e)) =>
           born' = born /\ named' \subseteq named /\ secrets' \subseteq secrets /\ notes' \subseteq notes
    BY DEF DropEndpoint, DropProject, vars, tableVars, Write, FailToWrite
  <1>13. ASSUME born' = born, named' \subseteq named, secrets' \subseteq secrets, notes' \subseteq notes
         PROVE  IdsGiven' /\ born["notes"] <= born'["notes"]
    BY <1>13, <1>1 DEF IdsOf
  <1> QED
    BY <1>2, <1>3, <1>4, <1>8, <1>9, <1>10, <1>11, <1>12, <1>13 DEF Next, HandlerStep, NamedStep

-----------------------------------------------------------------------------
(* Steps, by what they do to the tables. *)

\* Every other step leaves some rows out, and adds or edits none.
Shrinks == named' \subseteq named /\ secrets' \subseteq secrets /\ notes' \subseteq notes

LEMMA OthersShrink ==
  ASSUME NEW u \in Users,
         RequestStep(u) \/ ReadBack(u) \/ ReadBackSecret(u) \/ RemoveNamed(u) \/ RemoveSecret(u) \/ RemoveNote(u), TypeOK
  PROVE  Shrinks
  BY RequestTypes, RemoveNamedEffect
     DEF Shrinks, tableVars, ReadBack, ReadBackSecret, NamedRemoved, Cascade, RemoveSecret, RemoveNote, Without

LEMMA DropsShrink ==
  ASSUME DropEndpoint \/ DropProject \/ UNCHANGED vars \/ (\E e \in events : Write(e) \/ FailToWrite(e))
  PROVE  Shrinks
  BY DEF Shrinks, DropEndpoint, DropProject, vars, tableVars, Write, FailToWrite

-----------------------------------------------------------------------------
(* No orphans. *)

LEMMA OrphansStep ==
  ASSUME TypeOK, NoOrphans, [Next]_vars
  PROVE  NoOrphans'
  <1> USE DEF NoOrphans
  <1>1. ASSUME UNCHANGED vars
        PROVE  NoOrphans'
    BY <1>1 DEF vars, rowVars, tableVars
  <1>2. ASSUME NEW u \in Users, RequestStep(u)
        PROVE  NoOrphans'
    BY <1>2, RequestTypes DEF rowVars, tableVars
  <1>3. ASSUME NEW u \in Users, CreateNamed(u)
        PROVE  NoOrphans'
    <2>1. PICK r : NamedAdded(r)
      BY <1>3, CreateNamedEffect
    <2>2. UNCHANGED <<project, endpoint, secrets, notes>>
      BY <1>3, CreateNamedEffect
    <2> QED
      BY <2>1, <2>2 DEF NamedAdded, IdsOf
  <1>4. ASSUME NEW u \in Users, UpdateEnvironment(u) \/ UpdateComponent(u)
        PROVE  NoOrphans'
    <2>1. PICK r : NamedEdited(r)
      BY <1>4, UpdateEnvironmentEffect, UpdateComponentEffect
    <2>2. UNCHANGED <<project, endpoint, notes>>
      BY <1>4, UpdateEnvironmentEffect, UpdateComponentEffect
    <2>3. \A x \in IdsOf(named) : x \in IdsOf(named')
      BY <2>1 DEF NamedEdited, Without, IdsOf
    <2>4. secrets' = secrets /\ named # {}
      BY <2>1 DEF NamedEdited, IdsOf
    <2> QED
      BY <2>2, <2>3, <2>4 DEF IdsOf
  <1>5. ASSUME NEW u \in Users, RemoveNamed(u)
        PROVE  NoOrphans'
    <2>1. PICK r : NamedRemoved(r)
      BY <1>5, RemoveNamedEffect
    <2>2. \A s \in secrets' : s.in \in IdsOf(named')
      BY <2>1 DEF NamedRemoved, Cascade, IdsOf
    <2> QED
      BY <2>1, <2>2 DEF NamedRemoved
  <1>6. ASSUME NEW u \in Users, CreateSecret(u)
        PROVE  NoOrphans'
    <2>1. PICK s : SecretAdded(s)
      BY <1>6, CreateSecretEffect
    <2>2. UNCHANGED <<project, endpoint, named, notes>>
      BY <1>6, CreateSecretEffect
    <2>3. \A x \in secrets' : x.in \in IdsOf(named)
      BY <2>1 DEF SecretAdded
    <2> QED
      BY <2>2, <2>3 DEF IdsOf
  <1>7. ASSUME NEW u \in Users, UpdateSecret(u)
        PROVE  NoOrphans'
    <2>1. PICK s, old : SecretEdited(s, old)
      BY <1>7, UpdateSecretEffect
    <2>2. UNCHANGED <<project, endpoint, named, notes>>
      BY <1>7, UpdateSecretEffect
    <2>3. \A x \in secrets' : x.in \in IdsOf(named)
      BY <2>1 DEF SecretEdited, Without
    <2> QED
      BY <2>2, <2>3 DEF IdsOf
  <1>8. ASSUME NEW u \in Users, CreateNote(u)
        PROVE  NoOrphans'
    <2>1. PICK n : NoteAdded(n, u)
      BY <1>8, CreateNoteEffect
    <2>2. UNCHANGED <<project, endpoint, named, secrets>>
      BY <1>8, CreateNoteEffect
    <2>3. endpoint
      BY <2>1 DEF NoteAdded
    <2> QED
      BY <2>2, <2>3 DEF IdsOf
  <1>9. ASSUME NEW u \in Users, UpdateNote(u)
        PROVE  NoOrphans'
    <2>1. PICK n, old : NoteEdited(n, old)
      BY <1>9, UpdateNoteEffect
    <2>2. UNCHANGED <<project, endpoint, named, secrets>>
      BY <1>9, UpdateNoteEffect
    <2>3. endpoint
      BY <2>1 DEF NoteEdited
    <2> QED
      BY <2>2, <2>3 DEF IdsOf
  <1>10. ASSUME NEW u \in Users, ReadBack(u) \/ ReadBackSecret(u) \/ RemoveSecret(u) \/ RemoveNote(u)
         PROVE  NoOrphans'
    <2>1. UNCHANGED <<project, endpoint, named>>
      BY <1>10 DEF ReadBack, ReadBackSecret, RemoveSecret, RemoveNote, rowVars, tableVars
    <2>2. secrets' \subseteq secrets /\ notes' \subseteq notes
      BY <1>10, OthersShrink DEF Shrinks
    <2> QED
      BY <2>1, <2>2 DEF IdsOf
  <1>11. ASSUME DropEndpoint
         PROVE  NoOrphans'
    BY <1>11 DEF DropEndpoint, IdsOf
  <1>12. ASSUME DropProject
         PROVE  NoOrphans'
    BY <1>12 DEF DropProject
  <1>13. ASSUME NEW e \in events, Write(e) \/ FailToWrite(e)
         PROVE  NoOrphans'
    BY <1>13 DEF Write, FailToWrite, rowVars, tableVars
  <1> HIDE DEF NoOrphans
  <1> QED
    BY <1>1, <1>2, <1>3, <1>4, <1>5, <1>6, <1>7, <1>8, <1>9, <1>10, <1>11, <1>12, <1>13
       DEF Next, HandlerStep, NamedStep

-----------------------------------------------------------------------------
(* Unique names and keys. *)

NamedUnique == \A r, x \in named : r.id = x.id \/ r.name = x.name => r = x
SecretsUnique == \A s, x \in secrets : s.id = x.id \/ (s.in = x.in /\ s.name = x.name) => s = x

LEMMA AddedUnique ==
  ASSUME TypeOK, IdsGiven, NamedUnique, NEW r, NamedAdded(r)
  PROVE  NamedUnique'
  <1>1. \A x \in named : x.id # r.id
    <2>1. /\ born["named"] \in Nat /\ r.id = born["named"] + 1
          /\ \A x \in named : x.id \in Nat /\ x.id <= born["named"]
      BY BoundAssumption DEF TypeOK, NamedRow, Ids, IdsGiven, NamedAdded
    <2> QED
      BY <2>1
  <1>2. \A x \in named : x.name # r.name
    BY <1>1 DEF NamedAdded, NamesOf, Without
  <1>3. named' = named \cup {r}
    BY DEF NamedAdded
  <1> QED
    BY <1>1, <1>2, <1>3 DEF NamedUnique

LEMMA EditedUnique ==
  ASSUME NamedUnique, NEW r, NamedEdited(r)
  PROVE  NamedUnique'
  BY DEF NamedUnique, NamedEdited, NamesOf, Without

LEMMA SecretAddedUnique ==
  ASSUME TypeOK, IdsGiven, SecretsUnique, NEW s, SecretAdded(s)
  PROVE  SecretsUnique'
  <1>1. \A x \in secrets : x.id # s.id
    <2>1. /\ born["secrets"] \in Nat /\ s.id = born["secrets"] + 1
          /\ \A x \in secrets : x.id \in Nat /\ x.id <= born["secrets"]
      BY BoundAssumption DEF TypeOK, SecretRow, Ids, IdsGiven, SecretAdded
    <2> QED
      BY <2>1
  <1>2. \A x \in secrets : x.in = s.in => x.name # s.name
    BY <1>1 DEF SecretAdded, NamesOf, Without
  <1>3. secrets' = secrets \cup {s}
    BY DEF SecretAdded
  <1> QED
    BY <1>1, <1>2, <1>3 DEF SecretsUnique

LEMMA SecretEditedUnique ==
  ASSUME SecretsUnique, NEW s, NEW old, SecretEdited(s, old)
  PROVE  SecretsUnique'
  <1>1. \A x \in Without(secrets, s.id) : x \in secrets /\ x.id # s.id
    BY DEF Without
  <1>2. \A x \in Without(secrets, s.id) : ~(x.in = s.in /\ x.name = s.name)
    BY <1>1 DEF SecretsUnique, SecretEdited
  <1>3. secrets' = Without(secrets, s.id) \cup {s}
    BY DEF SecretEdited
  <1> QED
    BY <1>1, <1>2, <1>3 DEF SecretsUnique

LEMMA UniqueStep ==
  ASSUME TypeOK, NamesUnique, IdsGiven, [Next]_vars
  PROVE  NamesUnique'
  <1>0. NamedUnique /\ SecretsUnique
    BY DEF NamesUnique, NamedUnique, SecretsUnique
  <1>1. ASSUME Shrinks
        PROVE  NamedUnique' /\ SecretsUnique'
    BY <1>0, <1>1 DEF Shrinks, NamedUnique, SecretsUnique
  <1>2. ASSUME NEW u \in Users, CreateNamed(u)
        PROVE  NamedUnique' /\ SecretsUnique'
    <2>1. (\E r : NamedAdded(r)) /\ secrets' = secrets
      BY <1>2, CreateNamedEffect
    <2>2. SecretsUnique'
      BY <1>0, <2>1 DEF SecretsUnique
    <2> QED
      BY <1>0, <2>1, <2>2, AddedUnique
  <1>3. ASSUME NEW u \in Users, UpdateEnvironment(u) \/ UpdateComponent(u)
        PROVE  NamedUnique' /\ SecretsUnique'
    <2>1. PICK r : NamedEdited(r)
      BY <1>3, UpdateEnvironmentEffect, UpdateComponentEffect
    <2>2. SecretsUnique'
      BY <1>0, <2>1 DEF SecretsUnique, NamedEdited
    <2> QED
      BY <1>0, <2>1, <2>2, EditedUnique
  <1>4. ASSUME NEW u \in Users, CreateSecret(u)
        PROVE  NamedUnique' /\ SecretsUnique'
    <2>1. (\E s : SecretAdded(s)) /\ named' = named
      BY <1>4, CreateSecretEffect
    <2>2. NamedUnique'
      BY <1>0, <2>1 DEF NamedUnique
    <2> QED
      BY <1>0, <2>1, <2>2, SecretAddedUnique
  <1>5. ASSUME NEW u \in Users, UpdateSecret(u)
        PROVE  NamedUnique' /\ SecretsUnique'
    <2>1. (\E s, old : SecretEdited(s, old)) /\ named' = named
      BY <1>5, UpdateSecretEffect
    <2>2. NamedUnique'
      BY <1>0, <2>1 DEF NamedUnique
    <2> QED
      BY <1>0, <2>1, <2>2, SecretEditedUnique
  <1>6. ASSUME NEW u \in Users, CreateNote(u) \/ UpdateNote(u)
        PROVE  NamedUnique' /\ SecretsUnique'
    <2>1. UNCHANGED <<named, secrets>>
      BY <1>6, CreateNoteEffect, UpdateNoteEffect
    <2> QED
      BY <1>0, <2>1 DEF NamedUnique, SecretsUnique
  <1>7. NamedUnique' /\ SecretsUnique'
    BY <1>1, <1>2, <1>3, <1>4, <1>5, <1>6, OthersShrink, DropsShrink DEF Next, HandlerStep, NamedStep
  <1> QED
    BY <1>7 DEF NamesUnique, NamedUnique, SecretsUnique

-----------------------------------------------------------------------------
(* Notes. *)

LEMMA NewNoteIsNew ==
  ASSUME TypeOK, IdsGiven, NEW u, NEW n, NoteAdded(n, u)
  PROVE  \A m \in notes : m.id # n.id
  <1>1. /\ born["notes"] \in Nat /\ n.id = born["notes"] + 1
        /\ \A m \in notes : m.id \in Nat /\ m.id <= born["notes"]
    BY BoundAssumption DEF TypeOK, NoteRow, Ids, IdsGiven, NoteAdded
  <1> QED
    BY <1>1

LEMMA NoteIdsStep ==
  ASSUME TypeOK, IdsGiven, NoteIdsUnique, [Next]_vars
  PROVE  NoteIdsUnique'
  <1>1. ASSUME notes' \subseteq notes
        PROVE  NoteIdsUnique'
    BY <1>1 DEF NoteIdsUnique
  <1>2. ASSUME NEW u \in Users, CreateNote(u)
        PROVE  NoteIdsUnique'
    <2>1. PICK n : NoteAdded(n, u)
      BY <1>2, CreateNoteEffect
    <2>2. \A m \in notes : m.id # n.id
      BY <2>1, NewNoteIsNew
    <2> QED
      BY <2>1, <2>2 DEF NoteAdded, NoteIdsUnique
  <1>3. ASSUME NEW u \in Users, UpdateNote(u)
        PROVE  NoteIdsUnique'
    <2>1. PICK n, old : NoteEdited(n, old)
      BY <1>3, UpdateNoteEffect
    <2> QED
      BY <2>1 DEF NoteEdited, NoteIdsUnique, Without
  <1>4. ASSUME NEW u \in Users, HandlerStep(u), ~CreateNote(u), ~UpdateNote(u)
        PROVE  notes' \subseteq notes
    BY <1>4, OthersShrink, CreateNamedEffect, UpdateEnvironmentEffect, UpdateComponentEffect,
       CreateSecretEffect, UpdateSecretEffect DEF HandlerStep, NamedStep, Shrinks
  <1> QED
    BY <1>1, <1>2, <1>3, <1>4, OthersShrink, DropsShrink DEF Next, Shrinks

LEMMA GuardFinds ==
  ASSUME TypeOK, NEW u \in Users, Guard(u), followed = "note"
  PROVE  req'[u].pc = "find"
  <1>1. AfterGuard(u) = "find"
    BY DEF AfterGuard
  <1>2. req[u] # None /\ Goto(u, "find")
    BY <1>1 DEF Guard
  <1> QED
    BY <1>2, Moves

LEMMA FoundStep ==
  ASSUME TypeOK, NotesAreFound, [Next]_vars
  PROVE  NotesAreFound'
  <1> USE DEF NotesAreFound
  <1>1. CASE UNCHANGED vars
    BY <1>1 DEF vars
  <1>2. ASSUME NEW u \in Users, RequestStep(u)
        PROVE  NotesAreFound'
    <2>1. UNCHANGED followed /\ \A v \in Users \ {u} : req'[v] = req[v]
      BY <1>2, RequestTypes
    <2>2. followed = "note" /\ req'[u] # None => req'[u].pc \in {"guard", "find", "handle"}
      <3>1. ASSUME NEW route \in Routes, Send(u, route)
            PROVE  req'[u].pc = "guard"
        BY <3>1 DEF Send, TypeOK
      <3>2. ASSUME Guard(u), followed = "note"
            PROVE  req'[u].pc = "find"
        BY <3>2, GuardFinds
      <3>3. ASSUME Relation(u) \/ Verify(u), followed = "note"
            PROVE  FALSE
        BY <3>3 DEF Relation, Verify
      <3>4. ASSUME Find(u)
            PROVE  req'[u].pc = "handle"
        BY <3>4, Moves DEF Find
      <3>5. ASSUME Refuse(u)
            PROVE  req'[u] = None
        BY <3>5, Ends DEF Refuse
      <3> QED
        BY <1>2, <3>1, <3>2, <3>3, <3>4, <3>5 DEF RequestStep
    <2> QED
      BY <2>1, <2>2
  <1>3. ASSUME NEW u \in Users, HandlerStep(u)
        PROVE  NotesAreFound'
    <2>1. /\ UNCHANGED followed /\ \A v \in Users \ {u} : req'[v] = req[v]
          /\ req'[u] # None => req'[u].pc = "readback"
      BY <1>3, HandlerRequests
    <2> QED
      BY <2>1
  <1>4. CASE DropEndpoint \/ DropProject \/ \E e \in events : Write(e) \/ FailToWrite(e)
    BY <1>4 DEF DropEndpoint, DropProject, Write, FailToWrite
  <1> QED
    BY <1>1, <1>2, <1>3, <1>4 DEF Next

\* What a step may do to the notes with an id that was given: they keep their author.
LEMMA AuthorsStay ==
  ASSUME TypeOK, IdsGiven, [Next]_vars
  PROVE  /\ UNCHANGED followed
         /\ \A m \in notes' : m.id <= born["notes"] =>
              \E n \in notes : n.id = m.id /\ n.in = m.in
  <1>1. ASSUME notes' \subseteq notes
        PROVE  \A m \in notes' : \E n \in notes : n.id = m.id /\ n.in = m.in
    BY <1>1
  <1>2. ASSUME NEW u \in Users, CreateNote(u)
        PROVE  \A m \in notes' : m.id <= born["notes"] =>
                 \E n \in notes : n.id = m.id /\ n.in = m.in
    <2>1. PICK n : NoteAdded(n, u)
      BY <1>2, CreateNoteEffect
    <2>2. notes' = notes \cup {n} /\ n.id = born["notes"] + 1 /\ born["notes"] \in Nat
      BY <2>1, BoundAssumption DEF NoteAdded, TypeOK
    <2>3. ~(n.id <= born["notes"])
      BY <2>2
    <2> QED
      BY <2>2, <2>3
  <1>3. ASSUME NEW u \in Users, UpdateNote(u)
        PROVE  \A m \in notes' : \E n \in notes : n.id = m.id /\ n.in = m.in
    <2>1. PICK n, old : NoteEdited(n, old)
      BY <1>3, UpdateNoteEffect
    <2> QED
      BY <2>1 DEF NoteEdited, Without
  <1>4. ASSUME NEW u \in Users, HandlerStep(u), ~CreateNote(u), ~UpdateNote(u)
        PROVE  notes' \subseteq notes
    BY <1>4, OthersShrink, CreateNamedEffect, UpdateEnvironmentEffect, UpdateComponentEffect,
       CreateSecretEffect, UpdateSecretEffect DEF HandlerStep, NamedStep, Shrinks
  <1>5. UNCHANGED followed
    <2>1. DropEndpoint \/ DropProject \/ UNCHANGED vars \/ (\E e \in events : Write(e) \/ FailToWrite(e))
            => UNCHANGED followed
      BY DEF DropEndpoint, DropProject, vars, Write, FailToWrite
    <2> QED
      BY <2>1, RequestTypes, HandlerRequests DEF Next
  <1> QED
    BY <1>1, <1>2, <1>3, <1>4, <1>5, OthersShrink, DropsShrink DEF Next, Shrinks

\* The look-up lets through who may touch the note.
LEMMA FindLetsThrough ==
  ASSUME TypeOK, IdsGiven, NoteIdsUnique, NEW u \in Users, Find(u), req[u].route # "create"
  PROVE  /\ req[u].id <= born["notes"]
         /\ \A n \in notes : n.id = req[u].id =>
              n.in = u \/ (req[u].route = "remove" /\ u \in Admins)
  <1>1. /\ req[u].id \in IdsOf(notes)
        /\ Row(notes, req[u].id).in = u \/ (req[u].route = "remove" /\ u \in Admins)
    BY DEF Find, MayTouch
  <1>2. ASSUME NEW n \in notes, n.id = req[u].id
        PROVE  Row(notes, req[u].id) = n
    BY <1>2, RowIsIt DEF NoteIdsUnique
  <1>3. req[u].id <= born["notes"]
    BY <1>1 DEF IdsOf, IdsGiven
  <1> QED
    BY <1>1, <1>2, <1>3

LEMMA MayTouchStep ==
  ASSUME TypeOK, IdsGiven, NoteIdsUnique, NotesAreFound, HandlersMayTouch, [Next]_vars
  PROVE  HandlersMayTouch'
  <1>0. UNCHANGED followed /\ born["notes"] <= born'["notes"]
    BY AuthorsStay, IdsStep
  <1>1. /\ born["notes"] \in Nat /\ born'["notes"] \in Nat
        /\ \A v \in Users : req[v] # None => req[v].id \in Nat
    <2>1. TypeOK'
      BY TypeStep
    <2>2. born["notes"] \in Nat /\ born'["notes"] \in Nat
      BY <2>1, BoundAssumption DEF TypeOK
    <2>3. \A v \in Users : req[v] # None => req[v].id \in 0..MaxIds
      BY RequestThere
    <2> QED
      BY <2>2, <2>3, BoundAssumption
  \* A request that stays where it is.
  <1>2. ASSUME NEW v \in Users, NEW route \in {"update", "remove"}, followed = "note",
               At(v, "handle", route), req'[v] = req[v]
        PROVE  /\ req[v].id <= born'["notes"]
               /\ \A m \in notes' : m.id = req[v].id =>
                    m.in = v \/ (route = "remove" /\ v \in Admins)
    <2>1. /\ req[v].id <= born["notes"]
          /\ \A n \in notes : n.id = req[v].id => n.in = v \/ (route = "remove" /\ v \in Admins)
      BY <1>2 DEF HandlersMayTouch
    <2>2. req[v].id <= born'["notes"]
      BY <1>0, <1>1, <1>2, <2>1 DEF At
    <2> QED
      BY <2>1, <2>2, AuthorsStay
  \* A request that has come to its handler.
  <1>3. ASSUME NEW u \in Users, RequestStep(u), NEW route \in {"update", "remove"}, followed = "note",
               At(u, "handle", route)'
        PROVE  /\ req'[u].id <= born'["notes"]
               /\ \A m \in notes' : m.id = req'[u].id =>
                    m.in = u \/ (route = "remove" /\ u \in Admins)
    <2>1. Find(u)
      <3>1. ASSUME NEW x \in Routes, Send(u, x)
            PROVE  req'[u].pc = "guard"
        BY <3>1 DEF Send, TypeOK
      <3>2. ASSUME Guard(u)
            PROVE  req'[u].pc = "find"
        BY <3>2, <1>3, GuardFinds
      <3>3. ASSUME Relation(u) \/ Verify(u)
            PROVE  FALSE
        BY <3>3, <1>3 DEF Relation, Verify, NotesAreFound
      <3>4. ASSUME Refuse(u)
            PROVE  req'[u] = None
        BY <3>4, Ends DEF Refuse
      <3> QED
        BY <1>3, <3>1, <3>2, <3>3, <3>4 DEF RequestStep, At
    <2>2. req'[u].route = req[u].route /\ req'[u].id = req[u].id /\ UNCHANGED <<notes, born>>
      BY <2>1, Moves DEF Find, tableVars
    <2>3. req[u].route = route
      BY <1>3, <2>2 DEF At
    <2> QED
      BY <2>1, <2>2, <2>3, FindLetsThrough
  <1>4. ASSUME NEW u \in Users, HandlerStep(u), NEW route
        PROVE  ~At(u, "handle", route)'
    BY <1>4, HandlerRequests DEF At
  <1>5. ASSUME NEW v \in Users, NEW route \in {"update", "remove"}, (followed = "note")',
               At(v, "handle", route)'
        PROVE  /\ req'[v].id <= born'["notes"]
               /\ \A m \in notes' : m.id = req'[v].id =>
                    m.in = v \/ (route = "remove" /\ v \in Admins)
    <2>0. followed = "note"
      BY <1>0, <1>5
    <2>1. ASSUME req'[v] = req[v]
          PROVE  /\ req'[v].id <= born'["notes"]
                 /\ \A m \in notes' : m.id = req'[v].id =>
                      m.in = v \/ (route = "remove" /\ v \in Admins)
      <3>1. At(v, "handle", route)
        BY <1>5, <2>1 DEF At
      <3> QED
        BY <2>0, <2>1, <3>1, <1>2
    <2>2. req'[v] = req[v] \/ RequestStep(v)
      <3>1. ASSUME NEW u \in Users, RequestStep(u), u # v
            PROVE  req'[v] = req[v]
        BY <3>1, RequestTypes
      <3>2. ASSUME NEW u \in Users, HandlerStep(u)
            PROVE  req'[v] = req[v]
        BY <3>2, <1>4, <1>5, HandlerRequests
      <3>3. DropEndpoint \/ DropProject \/ UNCHANGED vars \/ (\E e \in events : Write(e) \/ FailToWrite(e))
              => req'[v] = req[v]
        BY DEF DropEndpoint, DropProject, vars, Write, FailToWrite
      <3> QED
        BY <3>1, <3>2, <3>3 DEF Next
    <2> QED
      BY <1>3, <1>5, <2>0, <2>1, <2>2
  <1> QED
    BY <1>5 DEF HandlersMayTouch

\* What a step takes or changes of the notes is its actor's to touch.
LEMMA NotesKept ==
  ASSUME TypeOK, IdsGiven, NoteIdsUnique, HandlersMayTouch, [Next]_vars, NEW n \in notes
  PROVE  /\ \A m \in notes' : m.id = n.id /\ m # n =>
              m.in = n.in /\ req[n.in] # None /\ req'[n.in] = None
         /\ endpoint' /\ n.id \notin IdsOf(notes)' =>
              \E u \in Admins \cup {n.in} : req[u] # None /\ req'[u] = None
  <1> DEFINE Kept == \A m \in notes' : m.id = n.id /\ m # n =>
                       m.in = n.in /\ req[n.in] # None /\ req'[n.in] = None
             Taken == endpoint' /\ n.id \notin IdsOf(notes)' =>
                        \E u \in Admins \cup {n.in} : req[u] # None /\ req'[u] = None
  <1>1. ASSUME notes' = notes
        PROVE  Kept /\ Taken
    BY <1>1 DEF NoteIdsUnique, IdsOf
  <1>2. ASSUME NEW u \in Users, CreateNote(u)
        PROVE  Kept /\ Taken
    <2>1. PICK x : NoteAdded(x, u)
      BY <1>2, CreateNoteEffect
    <2>2. notes' = notes \cup {x} /\ x.id # n.id
      BY <2>1, NewNoteIsNew DEF NoteAdded
    <2> QED
      BY <2>2 DEF NoteIdsUnique, IdsOf
  <1>3. ASSUME NEW u \in Users, UpdateNote(u)
        PROVE  Kept /\ Taken
    <2>1. PICK x, old : NoteEdited(x, old) /\ x.id = req[u].id
      BY <1>3, UpdateNoteEffect
    <2>2. followed = "note" /\ At(u, "handle", "update") /\ Done(u)
      BY <1>3, UpdateNoteEffect
    <2>3. req[u] # None /\ req'[u] = None
      BY <2>2, Ends DEF At
    <2>4. /\ notes' = Without(notes, x.id) \cup {x} /\ old \in notes
          /\ x.id = old.id /\ x.in = old.in
      BY <2>1 DEF NoteEdited
    <2>5. ASSUME NEW m \in notes', m.id = n.id, m # n
          PROVE  m.in = n.in /\ n.in = u
      <3>1. m = x
        BY <2>4, <2>5 DEF Without, NoteIdsUnique
      <3>2. old = n
        BY <2>4, <2>5, <3>1 DEF NoteIdsUnique
      <3>3. n.in = u
        BY <2>1, <2>2, <2>5, <3>1 DEF HandlersMayTouch
      <3> QED
        BY <2>4, <3>1, <3>2, <3>3
    <2>6. n.id \in IdsOf(notes')
      BY <2>4 DEF Without, IdsOf
    <2> QED
      BY <2>3, <2>5, <2>6 DEF IdsOf
  <1>4. ASSUME NEW u \in Users, RemoveNote(u)
        PROVE  Kept /\ Taken
    <2>1. /\ followed = "note" /\ At(u, "handle", "remove") /\ Done(u)
          /\ notes' = {x \in notes : x.id # req[u].id}
      BY <1>4 DEF RemoveNote, Handles, Without
    <2>2. req[u] # None /\ req'[u] = None
      BY <2>1, Ends DEF At
    <2>3. Kept
      BY <2>1 DEF NoteIdsUnique
    <2>4. n.id \notin IdsOf(notes)' => n.id = req[u].id
      BY <2>1 DEF IdsOf
    <2>5. n.id = req[u].id => n.in = u \/ u \in Admins
      BY <2>1 DEF HandlersMayTouch
    <2> QED
      BY <2>2, <2>3, <2>4, <2>5
  <1>5. ASSUME DropEndpoint \/ DropProject
        PROVE  Kept /\ Taken
    BY <1>5 DEF DropEndpoint, DropProject
  <1>6. ASSUME NEW u \in Users,
               \/ RequestStep(u) \/ NamedStep(u)
               \/ CreateSecret(u) \/ UpdateSecret(u) \/ ReadBackSecret(u) \/ RemoveSecret(u)
        PROVE  notes' = notes
    BY <1>6, RequestTypes DEF tableVars, NamedStep, CreateNamed, UpdateEnvironment, ReadBack,
       UpdateComponent, RemoveNamed, CreateSecret, UpdateSecret, ReadBackSecret, RemoveSecret
  <1>7. UNCHANGED vars \/ (\E e \in events : Write(e) \/ FailToWrite(e)) => notes' = notes
    BY DEF vars, tableVars, Write, FailToWrite
  <1> QED
    BY <1>1, <1>2, <1>3, <1>4, <1>5, <1>6, <1>7 DEF Next, HandlerStep

-----------------------------------------------------------------------------
(* The audit log. *)

\* Who is to tell of a row.
ToTell(u, r) == At(u, "readback", "update") /\ req[u].id = r.id
Known(r) == <<r.id, r.name>> \in Heard \/ \E u \in Users : ToTell(u, r)

\* A row stays known unless who is to tell of it goes.
LEMMA StaysKnown ==
  ASSUME NEW u \in Users, NEW r, Known(r), Heard \subseteq Heard',
         \A v \in Users \ {u} : req'[v] = req[v], ~ToTell(u, r)
  PROVE  <<r.id, r.name>> \in Heard' \/ \E v \in Users : ToTell(v, r)'
  BY DEF Known, ToTell, At

LEMMA AuditStep ==
  ASSUME TypeOK, NamesUnique, OnlyFailuresHideNames, [Next]_vars
  PROVE  OnlyFailuresHideNames'
  <1>0. \A r \in named : Known(r)
    BY DEF OnlyFailuresHideNames, Known, ToTell, Heard
  <1> DEFINE KnownAfter(r) == <<r.id, r.name>> \in Heard' \/ \E v \in Users : ToTell(v, r)'
  <1>1. ASSUME \A r \in named' : KnownAfter(r)
        PROVE  OnlyFailuresHideNames'
    BY <1>1 DEF OnlyFailuresHideNames, ToTell, Heard
  <1> HIDE DEF KnownAfter
  <1>2. ASSUME NEW u \in Users, NEW r \in named, Heard \subseteq Heard',
               \A v \in Users \ {u} : req'[v] = req[v], ~ToTell(u, r)
        PROVE  KnownAfter(r)
    BY <1>0, <1>2, StaysKnown DEF KnownAfter
  <1>3. ASSUME NEW u \in Users, RequestStep(u)
        PROVE  OnlyFailuresHideNames'
    <2>1. /\ \A v \in Users \ {u} : req'[v] = req[v]
          /\ named' = named /\ Heard \subseteq Heard'
      BY <1>3, RequestTypes DEF tableVars
    <2>2. ASSUME NEW r \in named, ToTell(u, r)
          PROVE  KnownAfter(r)
      <3>1. Refuse(u)
        BY <1>3, <2>2 DEF RequestStep, Send, Guard, Relation, Verify, Find, ToTell, At
      <3>2. <<r.id, r.name>> \in Untold(u)
        BY <2>2 DEF ToTell, Untold
      <3> QED
        BY <3>1, <3>2, RefuseKeeps DEF KnownAfter
    <2> QED
      BY <1>1, <1>2, <2>1, <2>2
  <1>4. ASSUME NEW u \in Users, HandlerStep(u), ~ReadBack(u)
        PROVE  \A r : ~ToTell(u, r)
    BY <1>4 DEF HandlerStep, NamedStep, CreateNamed, UpdateEnvironment, UpdateComponent, RemoveNamed,
                CreateSecret, UpdateSecret, ReadBackSecret, RemoveSecret, CreateNote, UpdateNote, RemoveNote,
                Handles, ToTell, At
  <1>5. ASSUME NEW u \in Users, HandlerStep(u)
        PROVE  Heard \subseteq Heard' /\ \A v \in Users \ {u} : req'[v] = req[v]
    BY <1>5, HandlerRequests, HandlerTypes
  <1>a. AuditTyped
    BY DEF TypeOK, AuditTyped
  <1>6. ASSUME NEW u \in Users, CreateNamed(u)
        PROVE  OnlyFailuresHideNames'
    <2>1. PICK r : NamedAdded(r)
      BY <1>6, CreateNamedEffect
    <2>2. HandlerStep(u) /\ ~ReadBack(u)
      BY <1>6 DEF HandlerStep, NamedStep, CreateNamed, ReadBack, At
    <2>3. named' = named \cup {r} /\ r \in NamedRow /\ TellUnlessCut(r.id, r.name)
      BY <2>1 DEF NamedAdded
    <2>4. \A x \in named : KnownAfter(x)
      BY <1>2, <1>4, <1>5, <2>2
    <2>5. KnownAfter(r)
      BY <1>a, <2>3, TellUnlessCutKeeps DEF KnownAfter, NamedRow
    <2> QED
      BY <1>1, <2>3, <2>4, <2>5
  <1>7. ASSUME NEW u \in Users, UpdateEnvironment(u)
        PROVE  OnlyFailuresHideNames'
    <2>1. PICK r : NamedEdited(r) /\ r.id = req[u].id
      BY <1>7, UpdateEnvironmentEffect
    <2>2. HandlerStep(u) /\ ~ReadBack(u)
      BY <1>7, UpdateEnvironmentEffect DEF HandlerStep, NamedStep, ReadBack, At
    <2>3. \A x \in named' : x = r \/ x \in named
      BY <2>1 DEF NamedEdited, Without
    <2>4. \A x \in named : KnownAfter(x)
      BY <1>2, <1>4, <1>5, <2>2
    <2>5. KnownAfter(r)
      <3>1. At(u, "handle", "update") /\ Goto(u, "readback")
        BY <1>7, UpdateEnvironmentEffect
      <3>2. At(u, "readback", "update")' /\ req'[u].id = req[u].id
        BY <3>1, GoesToReadBack DEF At
      <3> QED
        BY <2>1, <3>2 DEF KnownAfter, ToTell
    <2> QED
      BY <1>1, <2>3, <2>4, <2>5
  <1>8. ASSUME NEW u \in Users, ReadBack(u)
        PROVE  OnlyFailuresHideNames'
    <2>1. /\ req[u].id \in IdsOf(named) /\ named' = named
          /\ Tell(req[u].id, Row(named, req[u].id).name)
      BY <1>8 DEF ReadBack, tableVars
    <2>2. ASSUME NEW r \in named, r.id = req[u].id
          PROVE  KnownAfter(r)
      <3>1. Row(named, r.id) = r
        BY <2>2, RowIsIt DEF NamesUnique
      <3>2. r.id \in Ids /\ r.name \in Names /\ Tell(r.id, r.name)
        BY <2>1, <2>2, <3>1 DEF TypeOK, NamedRow
      <3> QED
        BY <1>a, <3>2, TellKeeps DEF KnownAfter
    <2>3. ASSUME NEW r \in named, r.id # req[u].id
          PROVE  KnownAfter(r)
      <3>1. ~ToTell(u, r)
        BY <2>3 DEF ToTell
      <3>2. Heard \subseteq Heard' /\ \A v \in Users \ {u} : req'[v] = req[v]
        BY <1>5, <1>8 DEF HandlerStep, NamedStep
      <3> QED
        BY <1>2, <3>1, <3>2
    <2> QED
      BY <1>1, <2>1, <2>2, <2>3
  <1>9. ASSUME NEW u \in Users, UpdateComponent(u)
        PROVE  OnlyFailuresHideNames'
    <2>1. PICK r : NamedEdited(r) /\ TellUnlessCut(r.id, r.name)
      BY <1>9, UpdateComponentEffect
    <2>2. HandlerStep(u) /\ ~ReadBack(u)
      BY <1>9, UpdateComponentEffect DEF HandlerStep, NamedStep, ReadBack, At
    <2>3. r \in NamedRow /\ \A x \in named' : x = r \/ x \in named
      BY <2>1 DEF NamedEdited, Without
    <2>4. \A x \in named : KnownAfter(x)
      BY <1>2, <1>4, <1>5, <2>2
    <2>5. KnownAfter(r)
      BY <1>a, <2>1, <2>3, TellUnlessCutKeeps DEF KnownAfter, NamedRow
    <2> QED
      BY <1>1, <2>3, <2>4, <2>5
  <1>10. ASSUME NEW u \in Users, HandlerStep(u), ~CreateNamed(u), ~UpdateEnvironment(u),
                ~ReadBack(u), ~UpdateComponent(u)
         PROVE  OnlyFailuresHideNames'
    <2>1. named' \subseteq named
      BY <1>10, RemoveNamedEffect DEF HandlerStep, NamedStep, NamedRemoved, CreateSecret, UpdateSecret,
         ReadBackSecret, RemoveSecret, CreateNote, UpdateNote, RemoveNote, tableVars
    <2> QED
      BY <1>1, <1>2, <1>4, <1>5, <1>10, <2>1
  <1>11. ASSUME DropEndpoint \/ DropProject \/ UNCHANGED vars \/ \E e \in events : Write(e) \/ FailToWrite(e)
         PROVE  OnlyFailuresHideNames'
    <2>1. named' \subseteq named /\ req' = req
      BY <1>11 DEF DropEndpoint, DropProject, vars, tableVars, Write, FailToWrite
    <2>2. Heard \subseteq Heard'
      <3>1. UNCHANGED auditVars => Heard \subseteq Heard'
        BY DEF auditVars, Heard
      <3> QED
        BY <1>a, <1>11, <3>1, ListenerKeeps DEF DropEndpoint, DropProject, vars
    <2>3. \A r \in named : KnownAfter(r)
      BY <1>0, <2>1, <2>2 DEF Known, KnownAfter, ToTell, At
    <2> QED
      BY <1>1, <2>1, <2>3
  <1> QED
    BY <1>3, <1>6, <1>7, <1>8, <1>9, <1>10, <1>11 DEF Next

-----------------------------------------------------------------------------
(* The theorems. *)

LEMMA InvariantInit == Init => IInv
  BY TypeInit, BoundAssumption
     DEF Init, IInv, NoOrphans, NamesUnique, OnlyFailuresHideNames, IdsGiven, NoteIdsUnique, NotesAreFound,
         HandlersMayTouch, At

LEMMA InvariantStep == IInv /\ [Next]_vars => IInv'
  BY TypeStep, OrphansStep, UniqueStep, AuditStep, IdsStep, NoteIdsStep, FoundStep, MayTouchStep
     DEF IInv

\* The strengthening holds in every reachable state of every instance.
THEOREM Invariant == Spec => []IInv
  BY InvariantInit, InvariantStep, PTL DEF Spec

\* The tables, requests and the audit log keep their shape.
THEOREM TypeCorrect == Spec => []TypeOK
  <1>1. IInv => TypeOK
    BY DEF IInv
  <1> QED
    BY <1>1, Invariant, PTL

\* No secret outlives its environment, no note its endpoint, no row the project,
\* for all interleavings of requests with the removals that cascade.
THEOREM Orphans == Spec => []NoOrphans
  <1>1. IInv => NoOrphans
    BY DEF IInv
  <1> QED
    BY <1>1, Invariant, PTL

\* Names, keys and ids stay unique through creations and renamings.
THEOREM UniqueNames == Spec => []NamesUnique
  <1>1. IInv => NamesUnique
    BY DEF IInv
  <1> QED
    BY <1>1, Invariant, PTL

\* Whatever overlaps, the last name of every row gets to the audit log unless
\* something failed for that name, or is on its way.
THEOREM FailuresHideNames == Spec => []OnlyFailuresHideNames
  <1>1. IInv => OnlyFailuresHideNames
    BY DEF IInv
  <1> QED
    BY <1>1, Invariant, PTL

\* A note's words are its author's, though the write finds it by its id alone:
\* the author was looked up in an earlier step.
THEOREM NotesAuthors == Spec => NotesAreTheirAuthors
  <1>1. ASSUME IInv, [Next]_vars, NEW n \in notes
        PROVE  /\ \A m \in notes' : m.id = n.id /\ m # n =>
                    m.in = n.in /\ req[n.in] # None /\ req'[n.in] = None
               /\ endpoint' /\ n.id \notin IdsOf(notes)' =>
                    \E u \in Admins \cup {n.in} : req[u] # None /\ req'[u] = None
    BY <1>1, NotesKept DEF IInv
  <1>2. IInv /\ [Next]_vars =>
          [\A n \in notes :
             /\ \A m \in notes' : m.id = n.id /\ m # n =>
                  m.in = n.in /\ req[n.in] # None /\ req'[n.in] = None
             /\ endpoint' /\ n.id \notin IdsOf(notes)' =>
                  \E u \in Admins \cup {n.in} : req[u] # None /\ req'[u] = None]_vars
    BY <1>1
  <1> QED
    BY <1>2, Invariant, PTL DEF Spec, NotesAreTheirAuthors
=============================================================================
