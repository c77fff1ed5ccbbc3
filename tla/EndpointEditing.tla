--------------------------- MODULE EndpointEditing ---------------------------
(***************************************************************************)
(* Collaborative editing of one project's endpoints: the request pipelines *)
(* of endpoints.controller.ts, locking.controller.ts and the writing       *)
(* handlers of projects.controller.ts, down to EndpointsService and        *)
(* ProjectsService, run concurrently by several clients over the lease     *)
(* table of the locking service and the rows of the database.              *)
(*                                                                         *)
(* Node runs one continuation at a time, so what lies between two awaits   *)
(* is one step; a single Prisma query or $transaction is atomic in SQLite. *)
(* A request is therefore a process whose pc names the await it returns    *)
(* from.  The lease table is LeaseTable, which Locking is proved to        *)
(* implement.  Every client's user owns the project (ProjectOwnerGuard     *)
(* passes); the changes of ownership belong to the access component.       *)
(***************************************************************************)
EXTENDS Integers, FiniteSets

CONSTANTS Users,
          Clients,       \* browser tabs, each with one request at a time
          UserOf,        \* Clients -> Users
          Endpoints,     \* endpoint ids, handed out to rows as they are created
          Keys,          \* (path, method) pairs
          Statuses,      \* EndpointStatus
          Draft,         \* the schema's default status
          Kinds,         \* the requests the clients send in this instance
          LockDuration,
          WriteGap,      \* least time between two writes of one row
          MaxTime,       \* bound on the clock
          MaxCommits,    \* bound on the database writes
          NoLease, Unborn, Deleted, Idle,
          Fresh, Omitted \* in an imported spec: an edited body, a key left out

AllKinds == {"lock", "unlock", "put", "status", "delete", "create",
             "import", "save", "drop"}

ASSUME KindsAssumption == Kinds \subseteq AllKinds
ASSUME UserOfAssumption == UserOf \in [Clients -> Users]
ASSUME StatusAssumption == Draft \in Statuses
ASSUME DurationAssumption == LockDuration \in Nat \ {0}
ASSUME BoundAssumption == MaxTime \in Nat /\ MaxCommits \in Nat
\* @updatedAt counts milliseconds: two writes of one row never get the same one.
ASSUME WriteGapAssumption == WriteGap \in Nat \ {0}

VARIABLES now,      \* Date.now(), also the database's updatedAt clock
          lease,    \* the lease table
          row,      \* Endpoints -> the endpoint's row, Unborn or Deleted
          project,  \* the project's row, or Deleted
          commits,  \* number of database writes, numbers the revisions
          seen,     \* Clients -> the rows and the project it loaded last
          req       \* Clients -> its request in progress, or Idle

vars == <<now, lease, row, project, commits, seen, req>>
dbVars == <<row, project, commits>>

Lease == INSTANCE LeaseTable
           WITH clock <- now, LeaseDuration <- LockDuration, Resources <- Endpoints

(* Columns of an endpoint that the properties tell apart.  body and rev    *)
(* stand for the operation and the whole row: the number of the write that *)
(* made them, so that equal numbers mean equal contents.                   *)
Row == [key : Keys, status : Statuses, body : Nat, rev : Nat, updatedAt : Nat]
NoRow == {Unborn, Deleted}
Version == [rev : Nat, updatedAt : Nat]
Specs == [Keys -> Nat \cup {Fresh, Omitted}]
Request == [kind : AllKinds, pc : {"match", "guard", "read", "write", "handle", "reply"},
            e : Endpoints \cup {Unborn}, key : Keys \cup {Omitted}, status : Statuses, spec : Specs,
            before : Row \cup {Unborn},                  \* what it read
            result : Row \cup Version \cup {Unborn}]      \* what it answers with

ASSUME NullAssumption ==
  /\ Unborn \notin Row \cup Endpoints /\ Deleted \notin Row /\ Unborn # Deleted
  /\ Deleted \notin Version /\ Idle \notin Request
  /\ NoLease \notin [userId : Users, expiresAt : Nat]
\* What is left to the import to number is no number.
ASSUME FreshAssumption == Fresh \notin Nat

TypeOK ==
  /\ now \in Nat /\ commits \in Nat
  /\ lease \in [Endpoints -> [userId : Users, expiresAt : Nat] \cup {NoLease}]
  /\ row \in [Endpoints -> Row \cup NoRow]
  /\ project \in Version \cup {Deleted}
  /\ seen \in [Clients -> [rows : [Endpoints -> Row \cup NoRow],
                           project : Version \cup {Deleted}]]
  /\ req \in [Clients -> Request \cup {Idle}]

Existing == {e \in Endpoints : row[e] \notin NoRow}
InitialRow(e, k) == [key |-> k, status |-> Draft, body |-> 0, rev |-> 0, updatedAt |-> 0]

\* One endpoint exists; every client has the project open.
Init ==
  /\ now = 0 /\ commits = 0
  /\ lease = [e \in Endpoints |-> NoLease]
  /\ \E e \in Endpoints, k \in Keys :
       row = [x \in Endpoints |-> IF x = e THEN InitialRow(e, k) ELSE Unborn]
  /\ project = [rev |-> 0, updatedAt |-> 0]
  /\ seen = [c \in Clients |-> [rows |-> row, project |-> project]]
  /\ req = [c \in Clients |-> Idle]

-----------------------------------------------------------------------------
(* What clients do: load, and send requests. *)

Load(c) ==
  /\ req[c] = Idle
  /\ seen' = [seen EXCEPT ![c] = [rows |-> row, project |-> project]]
  /\ UNCHANGED <<now, lease, dbVars, req>>

Send(c, q) ==
  /\ req[c] = Idle
  /\ q.kind \in Kinds
  /\ req' = [req EXCEPT ![c] = q]
  /\ UNCHANGED <<now, lease, dbVars, seen>>

Blank(kind, pc) == [kind |-> kind, pc |-> pc, e |-> Unborn, key |-> Omitted,
                    status |-> Draft, spec |-> [k \in Keys |-> Omitted],
                    before |-> Unborn, result |-> Unborn]

\* Requests on an endpoint the client has seen; PUT carries a path, a method
\* and a status, POST status a status.
SendOnEndpoint(c) ==
  \E e \in Endpoints, k \in Keys, s \in Statuses :
    /\ seen[c].rows[e] \notin NoRow
    /\ \/ \E kind \in {"lock", "unlock", "delete"} :
            Send(c, [Blank(kind, "match") EXCEPT !.e = e])
       \/ Send(c, [Blank("status", "match") EXCEPT !.e = e, !.status = s])
       \/ Send(c, [Blank("put", "match") EXCEPT !.e = e, !.key = k, !.status = s])

\* An imported spec: any set of keys, the bodies as the client saw them or
\* edited (a key the client never saw is new).
BodySeen(c, k) ==
  LET rows == seen[c].rows
  IN  {rows[e].body : e \in {x \in Endpoints : rows[x] \notin NoRow /\ rows[x].key = k}}

SendOnProject(c) ==
  \/ \E k \in Keys, s \in Statuses :
       Send(c, [Blank("create", "write") EXCEPT !.key = k, !.status = s])
  \/ \E K \in SUBSET Keys : \E edited \in SUBSET K :
       Send(c, [Blank("import", "write") EXCEPT !.spec =
                  [k \in Keys |-> IF k \notin K THEN Omitted
                                  ELSE IF k \in edited \/ BodySeen(c, k) = {} THEN Fresh
                                  ELSE CHOOSE b \in BodySeen(c, k) : TRUE]])
  \/ \E kind \in {"save", "drop"} : Send(c, Blank(kind, "write"))

-----------------------------------------------------------------------------
(* Steps of a request. *)

At(c, kind, pc) == req[c] # Idle /\ req[c].kind = kind /\ req[c].pc = pc
Goto(c, pc) == req' = [req EXCEPT ![c].pc = pc]
\* The request ends with an error, or with nothing to do.
Reply(c) ==
  /\ req' = [req EXCEPT ![c] = Idle]
  /\ UNCHANGED <<now, lease, dbVars, seen>>

\* Mutant: the route forgets EndpointProjectMatchGuard.
MatchGuardForgotten(c) ==
  /\ req[c] # Idle /\ req[c].pc = "match"
  /\ Goto(c, CASE req[c].kind \in {"lock", "unlock"} -> "handle"
               [] req[c].kind = "put" -> "guard"
               [] req[c].kind = "status" -> "read"
               [] req[c].kind = "delete" -> "write")
  /\ UNCHANGED <<now, lease, dbVars, seen>>

\* EndpointProjectMatchGuard: the count arrives; where the request goes next
\* is the route's remaining guards and handler.
MatchGuard(c) ==
  /\ req[c] # Idle /\ req[c].pc = "match"
  /\ req[c].e \in Existing
  /\ Goto(c, CASE req[c].kind \in {"lock", "unlock"} -> "handle"
               [] req[c].kind = "put" -> "guard"
               [] req[c].kind = "status" -> "read"
               [] req[c].kind = "delete" -> "write")
  /\ UNCHANGED <<now, lease, dbVars, seen>>

NotInProject(c) ==
  /\ req[c] # Idle /\ req[c].pc = "match"
  /\ req[c].e \notin Existing
  /\ Reply(c)

IsLockedBy(e, u) == lease[e] # NoLease /\ lease[e].userId = u

\* LockingController.acquireLock, after the guards' awaits.
HandleLock(c) ==
  /\ At(c, "lock", "handle")
  /\ req' = [req EXCEPT ![c] = Idle]
  /\ \/ Lease!Grant(req[c].e, UserOf[c])
     \/ /\ lease[req[c].e] # NoLease
        /\ lease[req[c].e].userId # UserOf[c]
        /\ UNCHANGED <<now, lease>>
  /\ UNCHANGED <<dbVars, seen>>

HandleUnlock(c) ==
  /\ At(c, "unlock", "handle")
  /\ req' = [req EXCEPT ![c] = Idle]
  /\ \/ Lease!GiveUp(req[c].e, UserOf[c])
     \/ /\ ~IsLockedBy(req[c].e, UserOf[c])
        /\ UNCHANGED <<now, lease>>
  /\ UNCHANGED <<dbVars, seen>>

\* LockOwnerGuard, synchronous once ProjectOwnerGuard's query returned.  From
\* here to the write the lease is not looked at again.
LockOwnerGuard(c) ==
  /\ At(c, "put", "guard")
  /\ IsLockedBy(req[c].e, UserOf[c])
  /\ Goto(c, "read")
  /\ UNCHANGED <<now, lease, dbVars, seen>>

LockMissing(c) ==
  /\ At(c, "put", "guard")
  /\ ~IsLockedBy(req[c].e, UserOf[c])
  /\ Reply(c)

\* The lint of the operation or of the spec finds issues, the spec cannot be
\* dereferenced, or the project's new name is taken.
Invalid(c) ==
  /\ \/ At(c, "put", "read") \/ At(c, "create", "write")
     \/ At(c, "import", "write") \/ At(c, "save", "write")
  /\ Reply(c)

\* findUniqueOrThrow finds the row in update and updateStatus, and it does not
\* have the status asked for already.
GoesOn(c) ==
  /\ req[c].e \in Existing
  /\ req[c].kind = "status" => row[req[c].e].status # req[c].status

ReadRow(c) ==
  /\ At(c, "put", "read") \/ At(c, "status", "read")
  /\ GoesOn(c)
  /\ req' = [req EXCEPT ![c].pc = "write", ![c].before = row[req[c].e]]
  /\ UNCHANGED <<now, lease, dbVars, seen>>

ReadEnds(c) ==
  /\ At(c, "put", "read") \/ At(c, "status", "read")
  /\ ~GoesOn(c)
  /\ Reply(c)

-----------------------------------------------------------------------------
(* The database writes.  Stamp gives a written row its revision and its    *)
(* @updatedAt; Timely is the assumption that the writes of one row are     *)
(* WriteGap apart.                                                         *)

Stamp(r) == [r EXCEPT !.rev = commits + 1, !.updatedAt = now]
Timely(old) == old.updatedAt + WriteGap <= now

\* The unique index on (projectId, path, method).
KeyFree(k, e) == \A x \in Existing \ {e} : row[x].key # k

Commit(c, result) ==
  /\ commits < MaxCommits
  /\ commits' = commits + 1
  /\ req' = [req EXCEPT ![c].pc = "reply", ![c].result = result]
  /\ UNCHANGED <<now, lease, seen>>

\* Mutant: the where clause has no updatedAt.
PutMatchesAnyVersion(c) == req[c].e \in Existing

\* update's where clause: id, projectId and updatedAt = lastKnownUpdatedAt.
PutMatches(c) ==
  /\ req[c].e \in Existing
  /\ row[req[c].e].updatedAt = seen[c].rows[req[c].e].updatedAt

PutCommit(c) ==
  LET q == req[c]
      new == Stamp([row[q.e] EXCEPT !.key = q.key, !.status = q.status,
                                    !.body = commits + 1])
  IN  /\ At(c, "put", "write")
      /\ PutMatches(c) /\ KeyFree(q.key, q.e)
      /\ Timely(row[q.e])
      /\ row' = [row EXCEPT ![q.e] = new]
      /\ Commit(c, new)
      /\ UNCHANGED project

\* EndpointConcurrencyException or EndpointConflictException.
PutRefused(c) ==
  /\ At(c, "put", "write")
  /\ ~(PutMatches(c) /\ KeyFree(req[c].key, req[c].e))
  /\ Reply(c)

\* Mutant: the where clause has no status.
StatusMatchesAny(c) == req[c].e \in Existing

\* updateMany's where clause: id and the status that was read.
StatusMatches(c) ==
  /\ req[c].e \in Existing
  /\ row[req[c].e].status = req[c].before.status

StatusCommit(c) ==
  LET new == Stamp([row[req[c].e] EXCEPT !.status = req[c].status])
  IN  /\ At(c, "status", "write")
      /\ StatusMatches(c)
      /\ Timely(row[req[c].e])
      /\ row' = [row EXCEPT ![req[c].e] = new]
      /\ Commit(c, new)
      /\ UNCHANGED project

StatusRefused(c) == At(c, "status", "write") /\ ~StatusMatches(c) /\ Reply(c)

\* The delete looks neither at the lease nor at a version, and leaves the
\* lease of the endpoint in the table.
DeleteCommit(c) ==
  /\ At(c, "delete", "write")
  /\ req[c].e \in Existing
  /\ row' = [row EXCEPT ![req[c].e] = Deleted]
  /\ Commit(c, Unborn)
  /\ UNCHANGED project

DeleteRefused(c) == At(c, "delete", "write") /\ req[c].e \notin Existing /\ Reply(c)

NewRow(k, s) == Stamp([key |-> k, status |-> s, body |-> commits + 1,
                       rev |-> 0, updatedAt |-> 0])

\* Mutant: the foreign key to the project is not enforced.
CanCreateAnywhere(c) == KeyFree(req[c].key, Unborn)

\* ProjectNotFoundException or EndpointConflictException otherwise.
CanCreate(c) == project # Deleted /\ KeyFree(req[c].key, Unborn)

CreateCommit(c) ==
  LET new == NewRow(req[c].key, req[c].status) IN
  /\ At(c, "create", "write")
  /\ CanCreate(c)
  /\ \E e \in Endpoints :
       /\ row[e] = Unborn
       /\ row' = [row EXCEPT ![e] = new]
       /\ req' = [req EXCEPT ![c].pc = "reply", ![c].e = e, ![c].result = new]
  /\ commits < MaxCommits /\ commits' = commits + 1
  /\ UNCHANGED <<now, lease, project, seen>>

CreateRefused(c) == At(c, "create", "write") /\ ~CanCreate(c) /\ Reply(c)

-----------------------------------------------------------------------------
(* The writes of the project: import, update and delete. *)

\* reconcile: what an imported spec does to the rows of the transaction.
InSpec(spec) == {k \in Keys : spec[k] # Omitted}

\* Mutants: missing endpoints are kept; unchanged ones are created again.
ToDeleteNothing(spec) == {}
ToDelete(spec) == {e \in Existing : row[e].key \notin InSpec(spec)}
ToUpdate(spec) == {e \in Existing \ ToDelete(spec) : row[e].body # spec[row[e].key]}
ToCreateUnchanged(spec) == InSpec(spec) \ {row[e].key : e \in ToUpdate(spec)}
ToCreate(spec) == InSpec(spec) \ {row[e].key : e \in Existing}

Content(b) == IF b = Fresh THEN commits + 1 ELSE b

\* Mutant: the where clause has no updatedAt.
ProjectMatchesAnyVersion(c) == project # Deleted

\* The client's version of the project is still the current one.
ProjectMatches(c) ==
  project # Deleted /\ project.updatedAt = seen[c].project.updatedAt

NewVersion == [rev |-> commits + 1, updatedAt |-> now]

\* importOpenApiSpec's transaction, id the database's ids for the new rows.
ImportCommit(c) ==
  LET spec == req[c].spec IN
  /\ At(c, "import", "write")
  /\ ProjectMatches(c)
  /\ Timely(project) /\ \A e \in ToUpdate(spec) : Timely(row[e])
  /\ \E id \in [ToCreate(spec) -> {e \in Endpoints : row[e] = Unborn}] :
       /\ \A k, l \in ToCreate(spec) : id[k] = id[l] => k = l
       /\ row' = [e \in Endpoints |->
            CASE e \in ToDelete(spec) -> Deleted
              [] e \in ToUpdate(spec) ->
                   Stamp([row[e] EXCEPT !.body = Content(spec[row[e].key])])
              [] \E k \in ToCreate(spec) : id[k] = e ->
                   LET k == CHOOSE k \in ToCreate(spec) : id[k] = e
                   IN  [NewRow(k, Draft) EXCEPT !.body = Content(spec[k])]
              [] OTHER -> row[e]]
  /\ project' = NewVersion
  /\ Commit(c, NewVersion)

SaveCommit(c) ==
  /\ At(c, "save", "write")
  /\ ProjectMatches(c) /\ Timely(project)
  /\ project' = NewVersion
  /\ Commit(c, NewVersion)
  /\ UNCHANGED row

\* ProjectConcurrencyException.
ProjectRefused(c) ==
  /\ At(c, "import", "write") \/ At(c, "save", "write")
  /\ ~ProjectMatches(c)
  /\ Reply(c)

\* The rows go by cascade; the leases stay.
DropCommit(c) ==
  /\ At(c, "drop", "write")
  /\ project # Deleted
  /\ project' = Deleted
  /\ row' = [e \in Endpoints |-> IF e \in Existing THEN Deleted ELSE row[e]]
  /\ Commit(c, Unborn)

DropRefused(c) == At(c, "drop", "write") /\ project = Deleted /\ Reply(c)

\* The handler resumes, emits its event and answers: the client now knows the
\* row, or the project version, that its own request wrote.
Finish(c) ==
  /\ req[c] # Idle /\ req[c].pc = "reply"
  /\ req' = [req EXCEPT ![c] = Idle]
  /\ seen' = CASE req[c].kind \in {"put", "status", "create"} ->
                    [seen EXCEPT ![c].rows[req[c].e] = req[c].result]
               [] req[c].kind \in {"import", "save"} ->
                    [seen EXCEPT ![c].project = req[c].result]
               [] OTHER -> seen
  /\ UNCHANGED <<now, lease, dbVars>>

-----------------------------------------------------------------------------
Tick ==
  /\ now < MaxTime
  /\ Lease!Pass
  /\ UNCHANGED <<dbVars, seen, req>>

\* The process dies and comes back: leases and requests in progress are lost,
\* the database and what the clients have on screen are not.
Restart ==
  /\ Lease!Reset
  /\ req' = [c \in Clients |-> Idle]
  /\ UNCHANGED <<dbVars, seen>>

ClientStep(c) == Load(c) \/ SendOnEndpoint(c) \/ SendOnProject(c)

GuardStep(c) ==
  \/ MatchGuard(c) \/ NotInProject(c) \/ HandleLock(c) \/ HandleUnlock(c)
  \/ LockOwnerGuard(c) \/ LockMissing(c)

EndpointStep(c) ==
  \/ Invalid(c) \/ ReadRow(c) \/ ReadEnds(c)
  \/ PutCommit(c) \/ PutRefused(c) \/ StatusCommit(c) \/ StatusRefused(c)
  \/ DeleteCommit(c) \/ DeleteRefused(c) \/ CreateCommit(c) \/ CreateRefused(c)

ProjectStep(c) ==
  \/ ImportCommit(c) \/ SaveCommit(c) \/ ProjectRefused(c)
  \/ DropCommit(c) \/ DropRefused(c)

Next ==
  \/ \E c \in Clients :
       ClientStep(c) \/ GuardStep(c) \/ EndpointStep(c) \/ ProjectStep(c) \/ Finish(c)
  \/ Tick
  \/ Restart

Spec == Init /\ [][Next]_vars

-----------------------------------------------------------------------------
(* Properties. *)

\* c's request of this kind reaches the database in this step.
Commits(c, kind) == At(c, kind, "write") /\ At(c, kind, "reply")'

\* No lost update: the revision a PUT replaces is the one its client had
\* loaded, although the lease may have lapsed, changed hands or been lost in a
\* restart since LockOwnerGuard, and two tabs of one user share a lease.
PutReplacesWhatWasSeen ==
  [][\A c \in Clients : Commits(c, "put") =>
       row[req[c].e].rev = seen[c].rows[req[c].e].rev]_vars

\* The `before` of the UPDATED event (read in a query of its own, with no
\* version check) is exactly the row that the update replaced.
UpdatedEventIsExact ==
  [][\A c \in Clients : Commits(c, "put") => req[c].before = row[req[c].e]]_vars

\* The fromStatus of the STATUS_UPDATED event and of the audit entry is the
\* status the row really had, and the change is a change.
StatusEventIsTrue ==
  [][\A c \in Clients : Commits(c, "status") =>
       /\ req[c].before.status = row[req[c].e].status
       /\ row[req[c].e].status # row'[req[c].e].status]_vars

\* Two imports or project updates never overwrite each other unseen.
ProjectWriteReplacesWhatWasSeen ==
  [][\A c \in Clients : Commits(c, "import") \/ Commits(c, "save") =>
       project.rev = seen[c].project.rev]_vars

\* An import leaves the project with exactly the spec's endpoints, each with
\* the spec's operation, and those it retains keep their id, path, method and
\* status, whatever happened between the client's export and the import.
ImportInstallsSpec ==
  [][\A c \in Clients : Commits(c, "import") =>
       LET spec == req[c].spec IN
       /\ {row'[e].key : e \in Existing'} = InSpec(spec)
       /\ \A e \in Existing' :
            /\ spec[row'[e].key] # Fresh => row'[e].body = spec[row'[e].key]
            /\ spec[row'[e].key] = Fresh => row'[e].body = commits + 1
       /\ \A e \in Existing : row[e].key \in InSpec(spec) =>
            e \in Existing' /\ row'[e].key = row[e].key /\ row'[e].status = row[e].status]_vars

\* No two endpoints of the project have the same path and method; the import
\* creates its rows without looking at the index.
KeysUnique == \A e, x \in Existing : row[e].key = row[x].key => e = x

\* What is deleted stays deleted, with every request that found the endpoint
\* or the project in place still running; a dropped project has no endpoint.
DeletedForGood ==
  [][/\ \A e \in Endpoints : row[e] = Deleted => row'[e] = Deleted
     /\ project = Deleted => project' = Deleted /\ Existing' = {}]_vars

\* The lease of a deleted endpoint runs out: nobody takes or extends it except
\* the lock requests whose guard had still found the endpoint, and once it is
\* deleted no further request joins those.
OrphanLeaseRunsOut ==
  [][\A e \in Endpoints :
       LET acquiring == {c \in Clients : At(c, "lock", "handle") /\ req[c].e = e}
       IN  row[e] = Deleted =>
             /\ acquiring' \subseteq acquiring
             /\ lease'[e] \in {lease[e], NoLease} \/ acquiring' # acquiring]_vars

-----------------------------------------------------------------------------
(* A claim of the documentation that the code does not keep. *)

\* "Prevents last-write-wins": while a user holds the lease of an endpoint
\* nobody else's request changes or deletes it.
LeaseProtectsEndpoint ==
  [][\A c \in Clients, e \in Endpoints :
       /\ req[c] # Idle /\ req[c].pc = "write" /\ At(c, req[c].kind, "reply")'
       /\ lease[e] # NoLease /\ lease[e].userId # UserOf[c]
       => row'[e] = row[e]]_vars
=============================================================================
