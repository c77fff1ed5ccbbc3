--------------------------- MODULE ProjectResources ---------------------------
(***************************************************************************)
(* What a project holds besides its endpoints: environments with their     *)
(* secrets, schema components, and the notes on an endpoint; the services  *)
(* of the four, the guards before them, the constraints and cascades of    *)
(* their tables.                                                           *)
(*                                                                         *)
(* The kinds share nothing but the project, so a behaviour follows one of  *)
(* them; environments are followed once with their renamings, which touch  *)
(* no secret, and once, as "secret", with what they hold.  A request's     *)
(* guards, its handler and what the handler reads back are queries of      *)
(* their own.  Routes that only read change nothing and are left out, and  *)
(* so are descriptions and schemas, which no query looks for; a secret's   *)
(* value is what it is encrypted from.  The audit log is followed as far   *)
(* as it tells names of environments and components.  The end of the       *)
(* process is no step of its own: it is all that fails, failing together.  *)
(***************************************************************************)
EXTENDS Integers, FiniteSetsExt

CONSTANTS Users, Admins,
          Names,       \* of environments and components, keys of secrets
          Values,      \* of secrets and notes
          MaxIds,      \* bound on the rows of each table
          None

ASSUME AdminsAssumption == Admins \subseteq Users
ASSUME BoundAssumption == MaxIds \in Nat
ASSUME NoneAssumption == None \notin Names

VARIABLES followed,  \* the kind this behaviour follows
          project,   \* whether the project is there
          endpoint,  \* whether the endpoint is
          named,     \* environments or components, as a set of rows
          secrets, notes,
          born,      \* AUTOINCREMENT: the largest id each table has given
          events,    \* emitted and not handled: pairs <<id, name>> of named rows
          audited,   \* what the audit log tells, pairs of the same kind
          lost,      \* history: what failed to be told, and has not been told since
          req        \* Users -> the request in progress, or None

rowVars == <<project, endpoint>>
tableVars == <<named, secrets, notes, born>>
auditVars == <<events, audited, lost>>
vars == <<followed, rowVars, tableVars, auditVars, req>>

Kinds == {"environment", "secret", "component", "note"}
Ids == 1..MaxIds
Routes == {"create", "update", "remove", "createSecret", "updateSecret", "removeSecret"}
\* A row's "in" is the environment of a secret, the author of a note.
NamedRow == [id : Ids, name : Names]
SecretRow == [id : Ids, in : Ids, name : Names, value : Values]
NoteRow == [id : Ids, in : Users, value : Values]
Request == [pc : {"guard", "relation", "verify", "find", "handle", "readback"},
            route : Routes, id : 0..MaxIds, name : Names \cup {None}]

ASSUME NoRequestAssumption == None \notin Request

TypeOK ==
  /\ followed \in Kinds /\ project \in BOOLEAN /\ endpoint \in BOOLEAN
  /\ named \subseteq NamedRow /\ secrets \subseteq SecretRow /\ notes \subseteq NoteRow
  /\ born \in [{"named", "secrets", "notes"} -> 0..MaxIds]
  /\ events \subseteq Ids \X Names /\ audited \subseteq Ids \X Names /\ lost \subseteq Ids \X Names
  /\ req \in [Users -> Request \cup {None}]

Init ==
  /\ followed \in Kinds
  /\ project = TRUE /\ endpoint = TRUE
  /\ named = {} /\ secrets = {} /\ notes = {}
  /\ born = [t \in {"named", "secrets", "notes"} |-> 0]
  /\ events = {} /\ audited = {} /\ lost = {}
  /\ req = [u \in Users |-> None]

-----------------------------------------------------------------------------
(* Rows. *)

IdsOf(table) == {r.id : r \in table}
NamesOf(table) == {r.name : r \in table}
Row(table, id) == CHOOSE r \in table : r.id = id
Without(table, id) == {r \in table : r.id # id}

\* Mutant: the id after the largest in use, as without AUTOINCREMENT.
AfterLargest(t, table) == 1 + Max(IdsOf(table) \cup {0})
\* Ids are not used again.
NextId(t, table) == born[t] + 1

Born(t, id) == id <= MaxIds /\ born' = [born EXCEPT ![t] = IF @ < id THEN id ELSE @]

\* Mutant: the index is over the ids.
AnyName(table, id, name) == TRUE
\* @@unique, for a row that is to have this name.
Unique(table, id, name) == name \notin NamesOf(Without(table, id))

-----------------------------------------------------------------------------
(* Requests and guards. *)

At(u, pc, route) == req[u] # None /\ req[u].pc = pc /\ req[u].route = route
Goto(u, pc) == req' = [req EXCEPT ![u].pc = pc]
Done(u) == req' = [req EXCEPT ![u] = None]

\* Which routes there are for the kind followed.
RoutesOf(kind) ==
  IF kind = "secret" THEN Routes \ {"update"} ELSE {"create", "update", "remove"}

\* A request names a component by its name, another row by its id; a secret is
\* created in the environment it names.
Targets(route) ==
  CASE route = "create" -> {<<0, None>>}
    [] route # "create" /\ followed = "component" -> {0} \X Names
    [] OTHER -> Ids \X {None}

Send(u, route) ==
  /\ req[u] = None /\ route \in RoutesOf(followed)
  /\ \E x \in Targets(route) :
       req' = [req EXCEPT ![u] = [pc |-> "guard", route |-> route, id |-> x[1], name |-> x[2]]]
  /\ UNCHANGED <<followed, rowVars, tableVars, auditVars>>

\* canOwnProject: an administrator passes without a query.  Whether somebody
\* else is an owner is not followed here: he passes, or is refused.
CanOwn(u) == u \in Admins \/ project

\* NotePermissionGuard finds the project through the endpoint or the note first,
\* unless an administrator asks.
FindsProject(u) ==
  u \in Admins \/ (IF req[u].route = "create" THEN endpoint ELSE req[u].id \in IdsOf(notes))

\* Where the request goes from the guard: routes with an id have a relation
\* checked, components have the owner checked again, notes are found first.
AfterGuard(u) ==
  CASE followed = "note" -> "find"
    [] followed = "component" -> "verify"
    [] followed \in {"environment", "secret"} /\ req[u].route = "create" -> "handle"
    [] OTHER -> "relation"

Guard(u) ==
  /\ req[u] # None /\ req[u].pc = "guard"
  /\ followed = "note" => FindsProject(u)
  /\ CanOwn(u)
  /\ Goto(u, AfterGuard(u))
  /\ UNCHANGED <<followed, rowVars, tableVars, auditVars>>

\* ResourceRelationsGuard: the environment is in the project, or, for a secret's
\* update and removal, the secret in the environment.
Relation(u) ==
  /\ req[u] # None /\ req[u].pc = "relation"
  /\ req[u].id \in IF req[u].route \in {"updateSecret", "removeSecret"} THEN IdsOf(secrets) ELSE IdsOf(named)
  /\ Goto(u, "handle")
  /\ UNCHANGED <<followed, rowVars, tableVars, auditVars>>

\* _verifyProjectAccess.
Verify(u) ==
  /\ req[u] # None /\ req[u].pc = "verify"
  /\ CanOwn(u)
  /\ Goto(u, "handle")
  /\ UNCHANGED <<followed, rowVars, tableVars, auditVars>>

\* A note is edited by its author, and removed by its author or an administrator.
MayTouch(u) ==
  /\ req[u].id \in IdsOf(notes)
  /\ Row(notes, req[u].id).in = u \/ (req[u].route = "remove" /\ u \in Admins)

\* NotesService looks for the endpoint, or for the note and its author.
Find(u) ==
  /\ req[u] # None /\ req[u].pc = "find"
  /\ IF req[u].route = "create" THEN endpoint ELSE MayTouch(u)
  /\ Goto(u, "handle")
  /\ UNCHANGED <<followed, rowVars, tableVars, auditVars>>

Loses(names) == lost' = lost \cup (names \ audited)

\* The name that is not told if the read-back fails while the row is there.
Untold(u) == {<<r.id, r.name>> : r \in {x \in named : At(u, "readback", "update") /\ x.id = req[u].id}}

\* A guard or handler refuses, or a query fails.  The failure of the read-back,
\* because the row is gone or for any other reason, makes an error of a change
\* that was made, and the event is not emitted.
Refuse(u) ==
  /\ req[u] # None
  /\ Done(u) /\ Loses(Untold(u))
  /\ UNCHANGED <<followed, rowVars, tableVars, events, audited>>

-----------------------------------------------------------------------------
(* Environments and components. *)

Handles(u, kind, route) == followed = kind /\ At(u, "handle", route)
\* Events that tell the same are one here, and none if the log tells it already.
Tell(id, name) == events' = events \cup ({<<id, name>>} \ audited) /\ UNCHANGED <<audited, lost>>
\* The event follows the commit, unless the process ends between them.
TellUnlessCut(id, name) ==
  Tell(id, name) \/ (Loses({<<id, name>>}) /\ UNCHANGED <<events, audited>>)

CreateNamed(u) ==
  /\ followed # "note" /\ At(u, "handle", "create") /\ project
  /\ \E n \in Names :
       LET id == NextId("named", named)
       IN  /\ Unique(named, id, n)
           /\ Born("named", id)
           /\ named' = named \cup {[id |-> id, name |-> n]}
           /\ TellUnlessCut(id, n)
  /\ Done(u)
  /\ UNCHANGED <<followed, rowVars, secrets, notes>>

\* Mutant: nothing is told.
ForgetsAudit(u) == Done(u)
\* The row is read back for the audit event and the answer.
ReadsBack(u) == Goto(u, "readback")

\* The name may be left as it is (every field of the DTO is optional).
UpdateEnvironment(u) ==
  /\ Handles(u, "environment", "update") /\ req[u].id \in IdsOf(named)
  /\ \E n \in Names :
       /\ Unique(named, req[u].id, n)
       /\ named' = Without(named, req[u].id) \cup {[Row(named, req[u].id) EXCEPT !.name = n]}
  /\ ReadsBack(u)
  /\ UNCHANGED <<followed, rowVars, secrets, notes, born, auditVars>>

\* What is told is the name the environment has by now.
ReadBack(u) ==
  /\ At(u, "readback", "update") /\ req[u].id \in IdsOf(named)
  /\ Tell(req[u].id, Row(named, req[u].id).name)
  /\ Done(u)
  /\ UNCHANGED <<followed, rowVars, tableVars>>

\* The component is the one that has the name by now.
UpdateComponent(u) ==
  /\ Handles(u, "component", "update")
  /\ \E r \in named, n \in Names :
       /\ r.name = req[u].name
       /\ Unique(named, r.id, n)
       /\ named' = Without(named, r.id) \cup {[r EXCEPT !.name = n]}
       /\ TellUnlessCut(r.id, n)
  /\ Done(u)
  /\ UNCHANGED <<followed, rowVars, secrets, notes, born>>

\* Mutant: the secrets stay.
KeepsSecrets(id) == secrets
Cascade(id) == {s \in secrets : s.in # id}

RemoveNamed(u) ==
  /\ followed # "note" /\ At(u, "handle", "remove")
  /\ \E r \in named :
       /\ IF followed = "component" THEN r.name = req[u].name ELSE r.id = req[u].id
       /\ named' = named \ {r}
       /\ secrets' = Cascade(r.id)
  /\ Done(u)
  /\ UNCHANGED <<followed, rowVars, notes, born, auditVars>>

-----------------------------------------------------------------------------
(* Secrets. *)

\* The foreign key wants the environment the guard saw.
CreateSecret(u) ==
  /\ At(u, "handle", "createSecret") /\ req[u].id \in IdsOf(named)
  /\ \E k \in Names, v \in Values :
       LET id == NextId("secrets", secrets)
       IN  /\ Unique({s \in secrets : s.in = req[u].id}, id, k)
           /\ Born("secrets", id)
           /\ secrets' = secrets \cup {[id |-> id, in |-> req[u].id, name |-> k, value |-> v]}
  /\ Done(u)
  /\ UNCHANGED <<followed, rowVars, named, notes, auditVars>>

\* Without a value only the description is written.
UpdateSecret(u) ==
  /\ At(u, "handle", "updateSecret") /\ req[u].id \in IdsOf(secrets)
  /\ \E v \in Values :
       secrets' = Without(secrets, req[u].id) \cup {[Row(secrets, req[u].id) EXCEPT !.value = v]}
  /\ ReadsBack(u)
  /\ UNCHANGED <<followed, rowVars, named, notes, born, auditVars>>

\* SECRET_UPDATED tells the key, which no update changes.
ReadBackSecret(u) ==
  /\ At(u, "readback", "updateSecret") /\ req[u].id \in IdsOf(secrets)
  /\ Done(u)
  /\ UNCHANGED <<followed, rowVars, tableVars, auditVars>>

RemoveSecret(u) ==
  /\ At(u, "handle", "removeSecret") /\ req[u].id \in IdsOf(secrets)
  /\ secrets' = Without(secrets, req[u].id)
  /\ Done(u)
  /\ UNCHANGED <<followed, rowVars, named, notes, born, auditVars>>

-----------------------------------------------------------------------------
(* Notes. *)

CreateNote(u) ==
  /\ Handles(u, "note", "create") /\ endpoint
  /\ \E v \in Values :
       LET id == NextId("notes", notes)
       IN  /\ Born("notes", id)
           /\ notes' = notes \cup {[id |-> id, in |-> u, value |-> v]}
  /\ Done(u)
  /\ UNCHANGED <<followed, rowVars, named, secrets, auditVars>>

UpdateNote(u) ==
  /\ Handles(u, "note", "update") /\ req[u].id \in IdsOf(notes)
  /\ \E v \in Values :
       notes' = Without(notes, req[u].id) \cup {[Row(notes, req[u].id) EXCEPT !.value = v]}
  /\ Done(u)
  /\ UNCHANGED <<followed, rowVars, named, secrets, born, auditVars>>

RemoveNote(u) ==
  /\ Handles(u, "note", "remove") /\ req[u].id \in IdsOf(notes)
  /\ notes' = Without(notes, req[u].id)
  /\ Done(u)
  /\ UNCHANGED <<followed, rowVars, named, secrets, born, auditVars>>

-----------------------------------------------------------------------------
(* AuditListener: it runs after the request, and swallows its failures. *)

Write(e) ==
  /\ events' = events \ {e} /\ audited' = audited \cup {e} /\ lost' = lost \ {e}
  /\ UNCHANGED <<followed, rowVars, tableVars, req>>

FailToWrite(e) ==
  /\ events' = events \ {e} /\ Loses({e})
  /\ UNCHANGED <<followed, rowVars, tableVars, audited, req>>

-----------------------------------------------------------------------------
(* What happens to the project and its endpoint elsewhere. *)

\* An endpoint takes its notes along, a project everything.
DropEndpoint ==
  /\ endpoint /\ endpoint' = FALSE /\ notes' = {}
  /\ UNCHANGED <<followed, project, named, secrets, born, auditVars, req>>

DropProject ==
  /\ project /\ project' = FALSE /\ endpoint' = FALSE
  /\ named' = {} /\ secrets' = {} /\ notes' = {}
  /\ UNCHANGED <<followed, born, auditVars, req>>

-----------------------------------------------------------------------------
RequestStep(u) ==
  \/ \E route \in Routes : Send(u, route)
  \/ Guard(u) \/ Relation(u) \/ Verify(u) \/ Find(u) \/ Refuse(u)

NamedStep(u) ==
  CreateNamed(u) \/ UpdateEnvironment(u) \/ ReadBack(u) \/ UpdateComponent(u) \/ RemoveNamed(u)

HandlerStep(u) ==
  \/ NamedStep(u)
  \/ CreateSecret(u) \/ UpdateSecret(u) \/ ReadBackSecret(u) \/ RemoveSecret(u)
  \/ CreateNote(u) \/ UpdateNote(u) \/ RemoveNote(u)

Next ==
  \/ \E u \in Users : RequestStep(u) \/ HandlerStep(u)
  \/ \E e \in events : Write(e) \/ FailToWrite(e)
  \/ DropEndpoint \/ DropProject

Spec == Init /\ [][Next]_vars

-----------------------------------------------------------------------------
(* Properties. *)

\* Nothing is left of what its parent took along, whichever request was between
\* a guard that saw the parent and its write.
NoOrphans ==
  /\ \A s \in secrets : s.in \in IdsOf(named)
  /\ notes # {} => endpoint
  /\ endpoint \/ named # {} => project

\* Names are unique in the project, keys in the environment, ids in their table,
\* through creations and renamings.
NamesUnique ==
  /\ \A r, x \in named : r.id = x.id \/ r.name = x.name => r = x
  /\ \A s, x \in secrets : s.id = x.id \/ (s.in = x.in /\ s.name = x.name) => s = x

\* The words of a note are changed by its author only, and an author or an
\* administrator is who removes it: the author is looked up before the write,
\* which finds the note by its id alone.
NotesAreTheirAuthors ==
  [][\A n \in notes :
       /\ \A m \in notes' : m.id = n.id /\ m # n =>
            m.in = n.in /\ req[n.in] # None /\ req'[n.in] = None
       /\ endpoint' /\ n.id \notin IdsOf(notes)' =>
            \E u \in Admins \cup {n.in} : req[u] # None /\ req'[u] = None]_vars

\* A name of an environment or component that the audit log does not know is on
\* its way there, or a request is about to read it back for its event, unless
\* something failed for just this name: the read-back after an update, the
\* listener's write, or the process between the commit and the event.  An update
\* tells what it reads back after its write, outside a transaction: of two that
\* overlap the first may tell the second's name, and its own is never told, but
\* the last name is not forgotten.
OnlyFailuresHideNames ==
  \A r \in named :
    \/ <<r.id, r.name>> \in events \cup audited \cup lost
    \/ \E u \in Users : At(u, "readback", "update") /\ req[u].id = r.id
=============================================================================
