# Schematica API: verification project

Schematica is a NestJS server on which teams edit OpenAPI projects together. A
project holds endpoints (rows of the SQLite database, through Prisma); users edit
them through REST, guarded by optimistic version checks (`updatedAt`) and by
in-memory *edit locks* that are announced over socket.io. This directory holds
TLA+ models of that code, TLC configurations for small instances, and TLAPS proofs
for instances of every size.

    tlc -config Locking.cfg Locking.tla               # model-check one run
    tlapm Locking_proofs.tla                          # check the proofs

## 1. Inventory

| Component (under `src/src/`) | State | Operations | Interacts with |
|---|---|---|---|
| Endpoint locks: `locking/` | `Map` resource -> {user, expiresAt}, sweep timer, socket.io rooms | acquire/refresh, release, `isLockedBy`, sweep, subscribe, unsubscribe, connect | guards of the endpoint routes; clients, by `lock_updated` packets |
| Endpoints: `projects/endpoints/` | `Endpoint` rows: path, method, operation, status, `updatedAt` | list, read, create, update (PUT), status, delete | locks (one route), lint, events, notifications |
| Projects: `projects/projects.service.ts` | `Project` row with its version, links, accesses | create, update, access update, delete, import, export | endpoints by cascade and by import, reconciliation, events |
| Spec reconciliation, spec builder: `projects/spec-*` | none | diff of a document against rows; rows to document | projects |
| Access control: `access-control/`, `projects/guards/` | access rows of users and teams, deny list | can-view, can-own, creation right | projects, teams, users |
| Teams: `admin/teams/`, `teams/` | teams, memberships | create, rename, remove | access control, by cascade |
| Sessions and accounts: `auth/`, `users/`, `admin/users/` | users, `tokenVersion`, `deletedAt`, password | login, JIT provisioning, set/reset password, remove | every request's strategy, both gateways |
| Notifications: `notifications/` | rows, read state, user -> sockets registry | store and push, list, mark read | event listeners, gateway |
| Changelog and audit: `changelog/`, `audit/`, `cleanup/` | rows | listeners on events, retention job | every writing service |
| Profile pictures: `profile/`, `common/files/` | files, the user's `profileImage` | upload, replace, undo | accounts |
| Environments, secrets, schema components, notes: `projects/*` | rows | create, update, remove | events, access control, cascades |
| Mock server: `mock-server/` | none | choose operation and response | export |
| Lint, encryption, seed, framework glue | none | library calls | - |

**How components interact.** A request passes guards (some with database queries),
then a handler that awaits queries or a `$transaction`, then emits in-process
events. Between awaits Node runs one continuation at a time; between the awaits of
one request anything may run: other requests, timers, socket callbacks. There is
no queue and no retry: a crash loses the lock map, the requests and the events.

**What is hard here.** State checked in a guard and used after several awaits (lock,
existence, ownership, author); reads outside the transaction that writes; expiry
against refresh and sweep around one instant; late or lost packets; the import
replacing many rows under a unique index; names that are ids and are used again;
events emitted after the commit and kept nowhere; files and rows changed in turn.
`PROJECT.json` lists each hazard at its line, with the properties that cover it.

**What makes each component correct.**

- *Locks*: at most one live holder, only he extends or gives up; the lazily
  swept map is indistinguishable from leases that vanish at their expiry; each
  subscriber ends up with the table's state; dead locks leave the screens.
- *Endpoints, projects*: no write replaces a revision its client has not seen;
  events tell what happened; keys stay unique; what is deleted stays deleted.
- *Import, export*: afterwards the project has exactly the document's endpoints;
  a document taken back in changes nothing; metadata keep who made an endpoint.
- *Access, teams*: no request of a non-administrator leaves a project without an
  owner; a name used again carries no rights over.
- *Accounts*: a token of an older `tokenVersion`, or of a deleted user, is
  worthless; one account per external identity; everybody can get in somehow.
- *Notifications*: tabs show what was addressed to them and stored; the registry
  knows every open tab; what was read keeps its time; pushes arrive.
- *Changelog, audit*: an entry says what its transaction did, of an endpoint by a name
  it had; changes are recorded; entries stay for the retention.
- *Files*: the picture a row names exists.
- *Project resources*: no orphans, no doubled names, notes are their authors', only
  failures hide a name from the audit log.
- *Mock server*: a path answers before those that have a parameter in its place, with a
  response that was declared.

## 2. The modules

| Module | Models |
|---|---|
| `LeaseTable` | the promise of the lock service: exclusive leases that vanish at their expiry. No sweep, no leftovers. |
| `Locking` | `LockingService` and `LockingGateway`: map, timer, rooms, packets under way, what clients display. |
| `EndpointEditing` | the writing routes of endpoints and of their project as concurrent requests over `LeaseTable` and the database rows. |
| `Accounts` | both logins, provisioning, tokens and their revocation, the password routes, the administrator's account routes. |
| `ProjectAccess` | roles, teams, access rows and deny list of one project; the guards and routes that read and write them. |
| `Notifications` | the socket registry, storing and pushing in one transaction, read state. |
| `ChangeEvents` | from the commit of a change to its changelog and audit entries, and their retention. |
| `ProjectResources` | environments with secrets, schema components, notes: guards, constraints, cascades. |
| `PictureState`, `ProfilePictures` | rows, files and uploads under way, and what is to hold of them; uploads as file steps and a row. |
| `OpenApiSpecs` | rows to documents and back, metadata, the mock server's choice. |
| `MC...` | constants and symmetry for TLC. |
| `..._proofs` | theorems and their proofs, of every module above but `LeaseTable`; those of `ProfilePictures` are the second half of `Accounts_proofs`. |

`Locking` is shown to implement `LeaseTable` (`IdealLeases`), so `EndpointEditing`
uses `LeaseTable` by `INSTANCE` in its place and stays small: whatever
holds over ideal leases holds over the swept map. The other modules share rows by
subject: versions and leases are `EndpointEditing`'s, rights `ProjectAccess`'s,
sessions `Accounts`'s. Each leaves the others' concerns open (a guard passes or
refuses) and is told in its opening comment.

### Locking

`locks` is the `Map`; as in the code `expiresAt` is an absolute time and an expired
entry stays until the sweep, an acquisition or its holder's release. The service's
methods contain no await, so each is one action, its broadcast included.
`AcquireLock` covers grant, takeover of an expired entry and refresh, which leave
the same entry; the refused acquisition and the refused release change nothing and
are not steps. `CleanupExpiredLocks` is the `setInterval` callback; it may fire late
by `TimerLag`. `Restart` is `onModuleDestroy` followed by `onModuleInit` in a new
process.

On the gateway side `session` follows `handleConnection`, whose user lookup is
awaited. Messages are accepted while it is pending (`HandleSubscribe` asks only
for `session # "off"`), because socket.io attaches the subscription handlers before the
lookup returns. The in-memory adapter joins a room within the call, so sending
the initial state and joining are one step; what is asynchronous is the delivery of
packets (`wire`, `Deliver`) and the loss of a connection (`Disconnect`), which
drops what is under way. Packets to one socket arrive in order, per resource.

### EndpointEditing

A request is a process whose `pc` names the await it is about to return from:
`match` (the count of `EndpointProjectMatchGuard`), `guard` (`LockOwnerGuard`, after
`ProjectOwnerGuard`), `handle` (the lock routes), `read` (`findUniqueOrThrow` of update
and status), `write` (the transaction or query), `reply` (the handler resumes,
emits and answers). One query, or one `$transaction`, is atomic: SQLite serialises
writers. The clients' side is `Load` and the `Send...` actions: a client has one
request under way, and sends as `lastKnownUpdatedAt` what it loaded last.

A row keeps what the properties tell apart: `key` is (path, method), `body` stands
for the operation and `rev` for the row's content, both as the number of the write that
made them. `@updatedAt` is the clock, and `Timely` states the assumption the
code rests on: two writes of one row do not get the same millisecond (`WriteGap`).
The outcome of the linter, of dereferencing and of the project name's uniqueness is
nondeterministic (`Invalid`). Ownership does not change in this module
(`ProjectOwnerGuard` passes); that is `ProjectAccess`'s. `Load` reads rows and project
in one step.

### Accounts

`users` holds the account rows, `link` the `AuthProvider` rows, `tokens` every signed token
that has not expired (the server keeps no list of them). A request's `pc` names its next query: `pick` and `suffix`
(`findAvailableUsername`), `create` (the nested `user.create`), `sign` (`login`), `find` and `write`
(set and change password), `remove`. bcrypt works on what a query has returned, so it is part of
that query's step and only delays the next one. A token also carries history
that the code does not have: the password the account had when its row was read, and
the identity it was entered by; the properties compare these with the account as it is.

A password is a plain text of a small set, and `compare` succeeds on the right one only. A
removed account is renamed to `Retired`, which stands for the name with its
`_deleted_<time>` suffix. Account ids are never used twice, and accounts are never dropped
from the table (the code has no `user.delete`). `Restart` ends requests while rows
and tokens stay. Roles, and with them the guard of the administrator's routes and
the ban on removing oneself, belong to `ProjectAccess`.

### ProjectAccess

`role`, `removed`, `teams`, `members`, `access` and `denied` are the tables. A request is
authorised in three queries: the strategy loads role and teams (`Send`), the
guard looks for an OWNER row of the user or of those teams (`OwnerGuard`), and the
handler acts (`UpdateAccess`, `Save`, `Drop`, ...). Its check that an owner stays on
his own list uses the teams of the first. `UpdateAccess` replaces all rows in one
transaction under the project's version. The id of a team is its lower-case name:
`RenameTeam` changes the id and the rows follow (`ON UPDATE CASCADE`), `RemoveTeam` takes
them along, and a name may be used again. `held` is history: who had an OWNER row since
the lists were last set; removing accounts and teams does not move the version, so a
request may still act for somebody an administrator has just removed.

### Notifications

`registry` is `userSockets`. The gateway registers after an awaited lookup (`looking`);
a socket closed during it is `early`, and its entry stays. `CreateAndBroadcast` is the
transaction up to the pushes, which are emitted before the commit; `Commit` and `Fail` end
it. Ids come from AUTOINCREMENT, whose counter rolls back with the transaction: the id of a
push that failed is given again, so a notification is known by id and push. `FindToMark`
and `MarkAsRead` are the two queries of `markAsRead`; `Restart` ends everything in memory.

### ChangeEvents

`commits` is history: what each transaction found and left. `req` follows an update or a
status change from its first read (`row`) through the commit to `Emit`, when the
handler resumes; creation, removal, import and deletion of the project have one query
before it. An update wants the version it read (`Known`), a status change only the status
(`StatusStands`), and its message quotes path and method of the row read: `Message` has
the `key` an entry names. `queue` holds what listeners have begun to write; each entry is one `Write`, or
`FailToWrite`, in any order. A changelog entry needs its project (foreign key), the audit
log none. `Tick` is a day, `HandleLogCleanup` the nightly job.

### ProjectResources

The kinds of rows share only the project, so `followed` chooses one of them at the start
and a behaviour has requests on that kind only; an environment's renamings and its secrets,
which have nothing to do with each other, are two choices. `Guard`, `Relation`, `Verify` and `Find` are the queries between a
request and its handler, as the routes have them; each handler is one query, with
the constraint it may violate; `ReadBack` and `ReadBackSecret` are the second queries of the updates of environments and
secrets. Every query may fail (`Refuse`), the read-back with the change already made; `events` are what
`AuditListener` has been told and writes later (`Write`), or fails to (`FailToWrite`), and `lost` is the
history of names a failure kept from it. The end of the process is such failures together
(`TellUnlessCut` is the one between a commit and its event). `born` is AUTOINCREMENT. `DropEndpoint` and `DropProject` come from elsewhere, at any time.

### ProfilePictures

An upload goes through `Intercept` (temporary file), `FindUser` (row and name), `Move`
(rename), `Clean` (unlink the replaced picture), `WriteRow`, and after a failure `Undo`. A creation
has nothing to replace and may fail because the name is taken. `destination` is the
configured upload directory: with the default, `deleteFile` looks at the root of the file system and finds
nothing, so nothing is ever unlinked; with `/uploads` it unlinks.

### OpenApiSpecs

`endpoint` holds the rows; a document is a function from (path, method) to operations. An
operation is a content (a name, whether it refers to schema components, which responses it
declares) and its `x-app-metadata`. `Import` carries out what `reconcile` returns, `shared` being the keys whose
operations are one object in the dereferenced document. `Create`, `Update` and `Delete` are
`EndpointsService`'s, each in one step: their races are `EndpointEditing`'s. `Answer` is
`generateMockResponse` over the document of the rows: `FindMatchingOperation` takes the first path that
fits in the order of `Paths`, `SelectResponse` the first code that fits in the order of `Object.keys`.

`Matches` is path-to-regexp's `match` with its default options: segments are compared in lower case
(`Lower`), a parameter takes any segment that is not empty, and a slash at the end of the request (an
empty last segment) is tolerated. A segment is a parameter as a whole or none, with an identifier for its name;
a request with a malformed `%` is left out.

`OrderAssumption` says what the order of `Paths` is, SQLite's `ORDER BY path` byte by byte: a path comes before
its continuations, and where two paths first differ, a parameter comes after a literal, because `{` comes after
letters, digits, `-`, `_` and `.`. A segment that begins with one of the few characters after
`{` (`|`, `}`, `~`, or anything beyond ASCII) is outside the model.

## 3. The runs

| Run (`.cfg`) | Question | Properties |
|---|---|---|
| `Locking` | Does the swept map implement ideal leases, do subscribers see it, do dead locks leave the screen? | `IdealLeases`, `CallsKeepPromise`, `ViewCoherent`, `StaleViewBounded`, `DeadLockLeavesScreen` |
| `EditingPut` | Two users, one endpoint, every route | `PutReplacesWhatWasSeen`, `StatusEventIsTrue`, `OrphanLeaseRunsOut` |
| `EditingImport` | Imports among creations, deletions, updates | `KeysUnique`, `ImportInstallsSpec`, `ProjectWriteReplacesWhatWasSeen`, `DeletedForGood` |
| `Accounts` | Logins and provisionings against changes, resets, creations, removals | `TokenVouches`, `RemovedShutOut`, `ChangeRevokes`, `Enterable`, `NamesUnique`, `IdentityStays` |
| `ProjectAccess` | An administrator and a team member set access, move teams and accounts | `NewTeamsStartEmpty`, `OnlyStandingOwnersSetAccess`, `LastOwnerRowStays`, `TeamStepsGiveNothing` |
| `Notifications` | Two tabs of one user, or of two, against pushes and restarts | `RegistryAccurate`, `ShownIsAddressed`, `ReadOnce`, `PushArrives` |
| `ChangeEvents` | Two clients, one endpoint, listeners, days | `EntriesTruthful`, `NoOrphanEntries`, `EntriesAreKept`, `ChangesGetRecorded` |
| `ProjectResources` | An administrator and a user on each kind of rows | `NoOrphans`, `NamesUnique`, `NotesAreTheirAuthors`, `OnlyFailuresHideNames` |
| `ProfilePictures` | Three uploads, both directories, failures and restarts | `PictureThere` |
| `OpenApiSpecs` | Every state of two endpoints over four paths | `TypeOK`, `ReimportIsIdle`, `CreatorKept`, `LiteralWins`, `AnswersDeclared` |
| `StatusUnderForeignLease` | *violated* | `LeaseProtectsEndpoint` |
| `OldPictureStays` | *violated* | `CleansUpTheOldOne` |

The violated properties state what the documentation or a comment says:

- *Pessimistic locking "prevents last-write-wins"* (`README.md` of the code). The status and
  delete routes do not ask for the lock.
- `saveProfilePicture` *"cleans up the old one"* (`files.service.ts`). It hands `deleteFile` the public path
  `/uploads/avatars/...`, which `isAbsolute` takes for a file name; with the default
  directory nothing is there, and the old picture stays.

**Bounds.** `MaxTime` ends the clock, `MaxQueue` the packets under way per socket and
room, `MaxCommits` the database writes.

- *Locking*: a lease of 2 units, a sweep interval of 3 and a lag of 1 let entries expire
  before, at and after a sweep; 6 units hold several lease lives and sweeps. One socket is
  enough, as sockets share nothing but the table, and one resource, as entries share nothing
  but the sweep; that a sweep takes the right entries of several is left to the theorems.
- *Editing*: two clients suffice for a race on one row, as every property speaks of a request
  and of the rows it writes. In `EditingPut` three writes allow a foreign write between load
  and guard, and another between guard and write; three units outlive a lease of two. Two
  keys and two ids let an import create, retain and delete at once.
- *Accounts*: two of everything; three versions and two tokens allow a change between the read
  and the signature of a login, then a removal, then a reset of the removed account; two
  first logins collide on the name or the identity.
- *ProjectAccess*: three writes are the creation, an update that takes somebody off the list, and one
  by him that comes too late. One change by an administrator, at any
  point between; that a team name is removed *and* created again is covered by
  `NewTeamsStartEmpty`, which speaks of names that are nobody's, and by the theorems.
- *Notifications*: two pushes let an id be given again after a failure, two tabs and two markings
  let calls overlap in each order.
- *ChangeEvents*: two commits let a change come between another's read and write, a retention of
  one day and ages up to two distinguish younger, just as old and older. Clients send (`Sent`)
  contents that differ from the first in the key alone, and in summary and status at once, so that a status
  change meets an update of the key and of the status between its read and its write.
- *ProjectResources*: two rows per table; a third id cannot be given, so an id used again
  (the mutant's) shows within the bound. Two names are enough for renamings that overlap.
- *ProfilePictures*: three uploads let one fail between two that succeed; time 0 to 2 lets names
  coincide or not.
- *OpenApiSpecs*: a literal path, the same with a slash at its end, one with a parameter and a
  capital that sorts before it, one with a parameter that sorts after it;
  contents with and without references, and each kind of response (with a body, without, 204,
  class, default).

The theorems do not depend on these bounds.

**Symmetry.** Endpoint ids and keys (a client permuted together with its user) in the editing runs,
all the sets of `Accounts`, names and values of `ProjectResources`, users and ids of
`OpenApiSpecs` are interchangeable. The runs with liveness properties use none.

**Deadlock** is checked in every run but those of `ProjectAccess` and `ProfilePictures`, where
every behaviour ends in the model: the one project is gone and the administrator's changes are used up,
each upload is made once and the clock ends. A bounded clock does not stop the
other models: clients can always ask again, and the server restart.

**Fairness.**

- `Locking`: time passes, a due timer callback eventually runs (the event loop), and a packet under
  way to a connected client eventually arrives (TCP; a lost connection drops it and takes the
  socket out of the rooms, which satisfies the property). `DeadLockLeavesScreen` asks for a sweep due within the
  clock's bound because the model's clock ends where the server's does not.
- `Notifications`: a packet arrives, a transaction ends one way or the other (Prisma's time-out), a
  lookup returns. `PushArrives` needs the first; the connection may end instead.
- `ChangeEvents`: a handler whose query returned resumes, and a listener's query returns, with
  success or not. `ChangesGetRecorded` excepts a failure, a crash and the project's deletion.

No user is assumed to do anything, and no connection to last.

Every property of a passing run comes with a mutant in `PROJECT.json`: a
plausible mistake in one definition, kept beside it in the module under a name of
its own and marked "Mutant", that violates the property.

## 4. The proofs

For all sets of users, teams, clients, sockets, resources, endpoints, keys and values, and every
duration and bound, from the named `ASSUME`s of the modules (durations are positive
naturals, the null values are not rows, leases or requests, paths come in the database's order).

**Locking**

- `TypeCorrect`: `TypeOK` is inductive.
- `ViewsCoherent`: `ViewCoherent` is inductive together with `TypeOK`. The argument is
  that each broadcast makes the last packet of every member's queue the table's entry, a
  delivery moves the last packet from wire to screen, and time can only make
  the second disjunct true (an expired entry does not revive).
- `SweepsKeepUp`: inductive; a lease granted now ends after the next sweep is due, or
  is at most one interval short of it.
- `StaleViewsBounded`: follows from the two before. The bound on a view
  is not inductive: that the entry will be swept in time has to be known of the table
  first.
- `ImplementsLeaseTable`: a step simulation. `Tick` maps to `Pass` (entries vanish
  at their expiry), the sweep and the release of an expired entry to stuttering,
  takeover of an expired entry to a grant of a free lease.
- `EachCallKeepsPromise`: the same simulation call by call. The table's state does not
  say who called, so `IdealLeases` alone would accept a release by somebody else;
  this property names the caller.

**EndpointEditing**

- `TypeCorrect`: `TypeOK` needs `Filled`: what the earlier steps of a route put in the
  request (a row read, a result) before a later step uses it.
- `NoLostUpdate`, `UpdatedEventsAreExact`, `StatusEventsAreTrue`,
  `NoLostProjectVersion`: from the invariant `Memory`. Each row anyone remembers (a
  client, the `before` of a PUT, a result under way) is `Past`: its `updatedAt` is at most the
  row's, and equal only if it *is* the row. Rows keep this because every write moves `updatedAt`
  forward (`RowsMove`, where `Timely` is used: writes in one millisecond are assumed away, not shown harmless). So at the commit of a PUT, whose version
  matches, loaded row = row in place; and `before`, read in between, is squeezed
  between the two.
- `NothingComesBack`: with the invariant that a dropped project has no endpoint.
- `KeysAreUnique`: inductive; for the import, the keys it creates are not the key of
  any row in place, and its ids are distinct.
- `ImportsInstallSpec`: `ImportedRows` says what each row of the import's transaction becomes; every key
  of the document is a row's in place, which the import keeps, or one it creates, and by
  `KeysUnique` it is only one row's. `Fresh` is no content, so an operation the document changed and
  one it has as it was are not confused.
- `OrphanLeasesRunOut`: by `LeaseSteps`, a step leaves a lease as it is, ends it, or is that of a lock
  request leaving `handle`; the guards join nobody to a deleted endpoint (`JoinsAcquiring`).

**Accounts**

- `TypeCorrect`: with the invariant that the account a request names exists.
- `TokensVouch`, `RemovedAreShutOut`, `ChangesRevoke`: from the invariant that the row behind every
  token, and behind every token about to be signed, is `Past`: its version is at most the
  account's, and equal only while the password is what it was and the account is not removed.
  The invariant says more than the properties because a login under way holds a row too. It is kept
  because every write to the password or to the deletion counts the version up in the same
  query; a change therefore leaves every token behind it, signed or not.
- `NamesAreUnique`, `IdentitiesStay`, `AccountsAreEnterable`: by `StepsOnAccounts`, which reduces the
  steps to what they do to the rows (nothing, a creation under a free name, a new
  password, a removal).

**ProjectAccess**

- `TypeCorrect`, `NewTeamsStart`: inductive; a rename moves the rows and a removal takes them along,
  so rights and members are only ever those of a team there is.
- `StandingOwners`: from `AllBacked`. A request that passed the owner's guard and still has the version in
  place acts for somebody in `held`, or for an administrator. It rests on `OwnersHeld` (whoever
  has an OWNER row is in `held`) and on `SeenBefore`: what takes somebody out of `held` writes
  the project, so an older request no longer matches.
- `LastOwner`: one step, given the types: an owner's own list must keep him or one of his loaded teams.
- `TeamsGiveNothing`: the rights a user draws from his rows are compared before and after each
  step on teams; uses `NewTeamsStartEmpty` for the name that a rename or a creation takes up.

**Notifications**

- `TypeCorrect`: needs `TxNext` (the transaction under way has the table's next id), `NewHasNothing` and
  `LookingOpen`.
- `Registry`: inductive with the same three: a socket whose lookup is awaited is not registered yet,
  one that never connected is known nowhere.
- `Shown`: what tabs show was a packet, and packets are addressed (`WireAddressed`): the
  property is inductive only with that of what is on its way.
- `TimesKept`: from `RequestsKnow`: what a `markAsRead` found was unread, and is, or was read since.

**ChangeEvents**

- `TypeCorrect`, `NoOrphans`, `Kept`: inductive, or one step.
- `Truthful`: from `ReadsKnow`: `updatedAt` grows with every commit that touches the row, so an update
  that finds the version it read finds the columns it read; a status change finds the row of the id it
  read, which then has the key it read or had it (`NamedIsHad`). The truth of a
  message is carried from the request (`RequestsTruthful`) over the queue to the log. What a commit
  was does not change afterwards, so delays and reordering do no harm (`TruthStays`).

**ProjectResources**

- `TypeCorrect`; `Orphans`: a secret is created under a foreign key, and cascades take
  it along.
- `UniqueNames`: names from the unique indices; ids from `IdsGiven` (every id in use is at most the
  largest ever given).
- `NotesAuthors`: from `HandlersMayTouch`: what the look-up found out about the author stays true
  of that id while the note is there. It rests on `AUTOINCREMENT`; with ids used
  again it would be false, as the mutant shows.
- `FailuresHideNames`: inductive with the types. A row's name is told by whoever gave it, or the request is
  at its read-back; a read-back that finds another name tells that one, and the own name is no longer the row's.

**ProfilePictures** (in `Accounts_proofs`, as the instance `Pic`)

- `PicturesTypeCorrect`.
- `PicturesThere`: from `Naming` and `Files`. A name given once belongs to one request, and then
  to one row, so nobody but those who replace that row's picture unlinks it (`Distinct`); a picture that is missing is about to
  be replaced by the request that unlinked it, unless that failed or was cut off (`Missing`).
- Constants, assumptions, variables and the property are in `PictureState`, which both `ProfilePictures` and
  `Accounts_proofs` extend, because the assumptions of an instance are no facts for the prover; only the steps are taken by `INSTANCE`.

**OpenApiSpecs**

- `TypeCorrect`, and the invariant behind the rest: `TypeOK` with `KeysUnique`, that no two rows have one
  key. With it the document has each row's operation under its key (`BuildHolds`) and reconciling finds for
  each key the one row it belongs to; without it `Build` would drop a row, and an import delete or update the wrong one.
- `ImportWrites` says what an import does to each row, for any document and any set of keys that share one
  object. From it follow that keys stay unique, as what it creates has keys no row has, and `CreatorsKept`: the
  stamp of a key is made from its own row (`StampShape`), and where another key's is put in its place, that
  key's row changed in the same import and has the same operation (`WrittenRow`).
- `ReimportsAreIdle`: dereferencing changes an operation exactly if it has references (`DereferencedShape`),
  and metadata are not compared.
- `LiteralPathsWin`: from `OrderAssumption`. A path that matches the request and comes before the literal one
  either is continued by it, and then by a slash only, or first differs from it in a segment that is no
  parameter and matches, hence in its capitals (`LiteralFirst`).
- `AnswersAreDeclared`: `Selected` says what `selectResponse` returns for every set of declared codes.
  That a set of positions has a first one (`MinIsFirst`) is the well-foundedness of the naturals.

Only model-checked: `DeadLockLeavesScreen`, `PushArrives` and `ChangesGetRecorded`, since liveness is out of the
prover's reach. `LeaseTable` has no theorem of its own: `ImplementsLeaseTable` is about it. The two claims of the
documentation are violated, and no theorem is about them.

The type invariants are theorems, and the runs do not repeat them, but for `OpenApiSpecs`', which says that
no document can make the metadata anything else.
So are `UpdatedEventIsExact`, whose counterpart in `ChangeEvents` (`EntriesTruthful`) has a run, and
`SweepKeepsUp`, from which `StaleViewBounded` follows.

## 5. Plan

1. `LeaseTable`, `Locking`: locks and who is told of them. Done, proved.
2. `EndpointEditing`: concurrent edits, imports, deletions. Done, proved.
3. `Accounts`: tokens against password changes and removals; provisioning. Done, proved.
4. `ProjectAccess`, `Notifications`, `ChangeEvents`, `ProjectResources`, `ProfilePictures`. Done, proved.
5. `OpenApiSpecs`: documents and rows, the mock server. Done, proved.
6. Left: the three liveness properties, which stay with TLC; the linter's other rules.

## 6. Not modelled

- Listing, paging, searching and the read-only routes; DTO validation; the wording of errors; logging.
  They change no state the properties tell apart.
- The linter: its verdict is an input of a PUT. That a success response is required is the one rule used
  (an operation without one has none to answer with).
- Encryption, hashing, tokens' signatures, image processing: library calls without state.
- Swagger, configuration, bootstrap (`main.ts`), decorators, seed scripts and their data, the
  word lists of username suffixes: no behaviour, or only at start.

## 7. What the models showed

Two violated runs are listed in section 3. Other behaviours that a reader of the models will meet, and which
no property calls wrong:

- `canOwnProject` does not look at the deny list, so a denied owner may still change the project;
  `project-access-details.dto.ts` calls it *"Users explicitly denied access, overriding team membership."*
- A status entry of the changelog may name a path the endpoint no longer has: `updateStatus` quotes
  the row it read first and compares only the status when it writes (`EntriesTruthful` says what remains true).
- An environment whose read-back fails is renamed without an audit entry, and the client gets an error.
- `/Users/{id}` sorts before `/users/me` and matches it: the mock server's matcher ignores case, the database's
  order does not. The literal path then never answers (`LiteralWins` excepts this spelling, and no other case).
- Two writes of one row in the same millisecond are one version to the optimistic check; the models
  assume that there are none (`WriteGap`).
- Two administrators may remove each other at the same time; each check is made before the other's
  transaction.
- Renaming or removing a team, and removing a user, does not move the project's version.
- The lock is looked at once by a PUT, three awaits before the write. No edit is lost
  by it (`PutReplacesWhatWasSeen`): the `updatedAt` check does the work, not the lock.
- An import compares the project's `updatedAt`, which endpoint writes do not move: it
  replaces edits made since the export.
- A PUT that changes the status writes neither the audit entry nor the request for review that the
  status route does.
- An imported operation without valid metadata is created by `unknown`, one made by a PUT by its creator's name.
- The first import of a document whose operations refer to schema components puts the schemas in their place;
  the mock server's cases for references are never reached after dereferencing.
- A response declared as `2XX` or `default` is answered as 200.
- `set-password` called twice at once writes twice.
- Open sockets outlive a password change; the REST routes do not.
