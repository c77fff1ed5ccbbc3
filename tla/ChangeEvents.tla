----------------------------- MODULE ChangeEvents -----------------------------
(***************************************************************************)
(* What the changelog and the audit log tell of the endpoints of a project:*)
(* EndpointsService commits a change and, when it resumes, emits events of *)
(* it; ChangelogListener and AuditListener write what they say, each entry *)
(* on its own and awaited by nobody; CleanupService deletes old entries.   *)
(*                                                                         *)
(* One endpoint is followed.  "before" and "after" are what the service    *)
(* hands to the listeners; the history "commits" has what the transactions *)
(* really did.  An endpoint's updatedAt is the number of its last commit,  *)
(* its id that of the commit that created it; its key is path and method.  *)
(* The audit log's entries are followed, what they quote is not.           *)
(***************************************************************************)
EXTENDS Integers, Sequences

CONSTANTS Clients,
          Keys, Summaries, Statuses, \* what an endpoint's columns may hold
          FirstContents,  \* the columns at the start
          Sent,           \* the columns that clients send
          Draft,          \* the status of what an import creates
          Retentions,     \* what LOG_RETENTION_DAYS may be; a restart can change it
          MaxCommits,  \* bound on the commits
          MaxAge,      \* days after which entries are not told apart
          None

ASSUME BoundAssumption == MaxCommits \in Nat /\ MaxAge \in Nat
ASSUME DraftAssumption == Draft \in Statuses
ASSUME RetentionAssumption == Retentions \subseteq Nat
ASSUME NoneAssumption == None \notin Keys \cup Summaries \cup Statuses

VARIABLES project,   \* whether the project is there
          endpoint,  \* the row: id, columns and updatedAt, or None
          commits,   \* history: each commit's operation, and the columns before and after it
          req,       \* Clients -> the request in progress, or None
          queue,     \* what is emitted and not written yet
          changelog, auditLog, \* the rows, with their age
          failed     \* history: whether a write failed or a restart lost one

rowVars == <<project, endpoint, commits>>
logVars == <<changelog, auditLog>>
vars == <<rowVars, req, queue, logVars, failed>>

Columns == {"key", "summary", "status"}
Contents == [key : Keys, summary : Summaries, status : Statuses]
ASSUME ContentsAssumption == FirstContents \in Contents /\ Sent \subseteq Contents
ASSUME ContentsNotNone == None \notin Contents

Row == [id : 0..MaxCommits, is : Contents, at : 0..MaxCommits]
Operations == {"create", "put", "status", "remove", "import", "drop"}
Commit == [op : Operations, before : Contents \cup {None}, after : Contents \cup {None}]
Values == Keys \cup Summaries \cup Statuses \cup {None}

\* An entry's message: what changed of the endpoint named, from what, to what.
Message == [text : Columns \cup {"added", "deleted", "audit"},
            key : Keys \cup {None}, from : Values, to : Values]
Event == [commit : 1..MaxCommits, says : Message]
Entry == [commit : 1..MaxCommits, says : Message, age : 0..MaxAge]
Request == [op : {"put", "status"}, pc : {"read"}, row : Row]
           \cup [pc : {"committed"}, says : SUBSET Message, commit : 1..MaxCommits]

TypeOK ==
  /\ project \in BOOLEAN
  /\ endpoint \in Row \cup {None}
  /\ commits \in Seq(Commit)
  /\ req \in [Clients -> Request \cup {None}]
  /\ \A e \in queue : e \in Event /\ e.commit <= Len(commits)
  /\ changelog \subseteq Entry /\ auditLog \subseteq Entry
  /\ failed \in BOOLEAN

Init ==
  /\ project = TRUE /\ commits = <<>>
  /\ endpoint = [id |-> 0, is |-> FirstContents, at |-> 0]
  /\ req = [c \in Clients |-> None]
  /\ queue = {} /\ changelog = {} /\ auditLog = {}
  /\ failed = FALSE

-----------------------------------------------------------------------------
(* The messages of the listeners. *)

Says(text, key, from, to) == [text |-> text, key |-> key, from |-> from, to |-> to]
Audited == Says("audit", None, None, None)

\* handleEndpointUpdated: a message for a column that differs, naming the
\* endpoint as it is after the update; the summary is not quoted.
Difference(c, before, after) ==
  IF c = "summary" THEN Says(c, after.key, None, None) ELSE Says(c, after.key, before[c], after[c])
Differing(before, after) == {c \in Columns : before[c] # after[c]}

\* Mutant: the first difference ends the search.
FirstDifference(before, after) ==
  LET order == SelectSeq(<<"key", "summary", "status">>, LAMBDA c : c \in Differing(before, after))
  IN  IF order = <<>> THEN {} ELSE {Difference(Head(order), before, after)}
Differences(before, after) == {Difference(c, before, after) : c \in Differing(before, after)}

\* A status change names the endpoint as the handler had read it.
Messages(op, before, after) ==
  CASE op = "create" -> {Says("added", after.key, None, None)}
    [] op = "remove" -> {Says("deleted", before.key, None, None)}
    [] op = "put"    -> Differences(before, after)
    [] op = "status" -> {Says("status", before.key, before.status, after.status), Audited}
    [] OTHER         -> {Audited}

-----------------------------------------------------------------------------
(* The endpoint's routes. *)

ThisCommit == Len(commits) + 1

Contained == IF endpoint = None THEN None ELSE endpoint.is

\* The transaction commits; the handler resumes later, with what it knows.
Commits(c, op, before, after) ==
  /\ Len(commits) < MaxCommits
  /\ commits' = Append(commits, [op |-> op, before |-> Contained, after |-> after])
  /\ endpoint' = IF after = None THEN None
                 ELSE IF op = "import" /\ after = Contained THEN endpoint
                 ELSE [id |-> IF endpoint = None THEN ThisCommit ELSE endpoint.id,
                       is |-> after, at |-> ThisCommit]
  /\ req' = [req EXCEPT ![c] = [pc |-> "committed", commit |-> ThisCommit,
                                says |-> Messages(op, before, after)]]
  /\ UNCHANGED <<queue, failed>>

At(c, pc) == req[c] # None /\ req[c].pc = pc

\* Both operations read the row first, to have something to compare with.  An
\* update brings the version its client has loaded, a status change none; an
\* update that brings an older version than this row's is refused whatever
\* happens, and left out.
Read(c, op) ==
  /\ req[c] = None /\ endpoint # None
  /\ req' = [req EXCEPT ![c] = [op |-> op, pc |-> "read", row |-> endpoint]]
  /\ UNCHANGED <<rowVars, queue, logVars, failed>>

\* Mutant: an update of any version.
KnownAny(c) == endpoint # None /\ endpoint.id = req[c].row.id
\* The id, and updatedAt is lastKnownUpdatedAt.
Known(c) == endpoint # None /\ endpoint.id = req[c].row.id /\ endpoint.at = req[c].row.at
\* updateMany where the id and the status are those read, and nothing else.
StatusStands(c) ==
  endpoint # None /\ endpoint.id = req[c].row.id /\ endpoint.is.status = req[c].row.is.status

Update(c) ==
  /\ At(c, "read") /\ req[c].op = "put" /\ Known(c)
  /\ \E after \in Sent : Commits(c, "put", req[c].row.is, after)
  /\ UNCHANGED <<project, logVars>>

UpdateStatus(c) ==
  /\ At(c, "read") /\ req[c].op = "status" /\ StatusStands(c)
  /\ \E s \in Statuses \ {req[c].row.is.status} :
       Commits(c, "status", req[c].row.is, [endpoint.is EXCEPT !.status = s])
  /\ UNCHANGED <<project, logVars>>

\* The row has changed or is gone, or the status is the one there is.
Refuse(c) ==
  /\ At(c, "read")
  /\ \/ req[c].op = "put" /\ ~Known(c)
     \/ req[c].op = "status"
  /\ req' = [req EXCEPT ![c] = None]
  /\ UNCHANGED <<rowVars, queue, logVars, failed>>

Create(c) ==
  /\ req[c] = None /\ project /\ endpoint = None
  /\ \E after \in Sent : Commits(c, "create", None, after)
  /\ UNCHANGED <<project, logVars>>

RemoveEndpoint(c) ==
  /\ req[c] = None /\ endpoint # None
  /\ Commits(c, "remove", endpoint.is, None)
  /\ UNCHANGED <<project, logVars>>

\* An import leaves the row to itself, writes its operation, deletes it, or
\* creates one; the audit log alone hears of it.
Import(c) ==
  /\ req[c] = None /\ project
  /\ \E after \in {None} \cup (IF endpoint = None THEN {x \in Sent : x.status = Draft}
                                ELSE {[endpoint.is EXCEPT !.summary = s] : s \in Summaries}) :
       Commits(c, "import", None, after)
  /\ UNCHANGED <<project, logVars>>

\* Endpoint and changelog go with the project, the audit log stays.
DropProject(c) ==
  /\ req[c] = None /\ project
  /\ project' = FALSE /\ changelog' = {}
  /\ Commits(c, "drop", None, None)
  /\ UNCHANGED auditLog

\* The handler resumes, and emits; the listeners begin to write.
Emit(c) ==
  /\ At(c, "committed")
  /\ queue' = queue \cup {[commit |-> req[c].commit, says |-> m] : m \in req[c].says}
  /\ req' = [req EXCEPT ![c] = None]
  /\ UNCHANGED <<rowVars, logVars, failed>>

-----------------------------------------------------------------------------
(* The listeners. *)

\* Mutant: the changelog has no foreign key to its project.
StoresAny(e) == TRUE
\* The audit log does not refer to the project.
Stores(e) == e.says = Audited \/ project

EntryOf(e) == [commit |-> e.commit, says |-> e.says, age |-> 0]

\* An entry is created, or refused by the foreign key.
Write(e) ==
  /\ e \in queue /\ queue' = queue \ {e}
  /\ CASE ~Stores(e)         -> UNCHANGED logVars
       [] e.says = Audited   -> auditLog' = auditLog \cup {EntryOf(e)} /\ UNCHANGED changelog
       [] OTHER              -> changelog' = changelog \cup {EntryOf(e)} /\ UNCHANGED auditLog
  /\ UNCHANGED <<rowVars, req, failed>>

\* The database is busy, or fails; the error is logged.
FailToWrite(e) ==
  /\ e \in queue /\ queue' = queue \ {e}
  /\ failed' = TRUE
  /\ UNCHANGED <<rowVars, req, logVars>>

\* The process ends: with the handlers go the events they have not emitted,
\* with the queue those nobody has written.
Restart ==
  /\ req' = [c \in Clients |-> None] /\ queue' = {}
  /\ failed' = (failed \/ queue # {} \/ \E c \in Clients : At(c, "committed"))
  /\ UNCHANGED <<rowVars, logVars>>

-----------------------------------------------------------------------------
(* The cleanup job. *)

\* Mutant: the day of the cutoff goes as well.
ExpiredToday(e, retention) == e.age >= retention
\* createdAt is less than the cutoff.
Expired(e, retention) == e.age > retention

\* A day passes.
Tick ==
  /\ LET older(log) == {[e EXCEPT !.age = IF @ < MaxAge THEN @ + 1 ELSE @] : e \in log}
     IN  changelog' = older(changelog) /\ auditLog' = older(auditLog)
  /\ UNCHANGED <<rowVars, req, queue, failed>>

\* Both logs in one transaction, unless retention is disabled.
HandleLogCleanup(retention) ==
  /\ retention > 0
  /\ LET kept(log) == {e \in log : ~Expired(e, retention)}
     IN  changelog' = kept(changelog) /\ auditLog' = kept(auditLog)
  /\ UNCHANGED <<rowVars, req, queue, failed>>

-----------------------------------------------------------------------------
ClientStep(c) ==
  \/ Read(c, "put") \/ Read(c, "status") \/ Update(c) \/ UpdateStatus(c) \/ Refuse(c)
  \/ Create(c) \/ RemoveEndpoint(c) \/ Import(c) \/ DropProject(c)
  \/ Emit(c)

Next ==
  \/ \E c \in Clients : ClientStep(c)
  \/ \E e \in queue : Write(e) \/ FailToWrite(e)
  \/ Restart \/ Tick
  \/ \E r \in Retentions : HandleLogCleanup(r)

Spec == Init /\ [][Next]_vars

\* A handler resumes, a listener's query returns, one way or the other.
Fairness ==
  /\ \A c \in Clients : WF_vars(Emit(c))
  /\ WF_vars(\E e \in queue : Write(e) \/ FailToWrite(e))

FairSpec == Spec /\ Fairness

-----------------------------------------------------------------------------
(* Properties. *)

\* The endpoint changed in the commit had this key when the commit came, or at
\* some time before since it was created.
Had(k, key) ==
  \E i \in 1..k : /\ \A j \in i..k : commits[j].before # None
                  /\ commits[i].before.key = key

\* What the changelog says changed, and from what to what, is what the change's
\* transaction changed, though it was worked out from a row read before the
\* transaction: updates compare the version, status changes the status alone.
\* The endpoint is named as the transaction left it, but for a status change:
\* it is named as it was read, a name that an update may have changed since, but
\* its own and not that of another endpoint.
EntriesTruthful ==
  \A e \in changelog :
    LET c == commits[e.commit]
    IN  IF c.op = "status"
        THEN /\ Had(e.commit, e.says.key)
             /\ e.says = Says("status", e.says.key, c.before.status, c.after.status)
        ELSE e.says \in Messages(c.op, c.before, c.after)

\* No entry of a deleted project, though listeners may still be at work when
\* it is deleted.
NoOrphanEntries == ~project => changelog = {}

\* An entry disappears with the project, or when it is older than the days of
\* retention: a day that is just that old is kept, and a retention of 0 keeps
\* everything.
EntriesAreKept ==
  [][\A e \in changelog \cup auditLog :
       (\A x \in changelog' \cup auditLog' : x.commit # e.commit \/ x.says # e.says) =>
         (e.says # Audited /\ ~project') \/ \E r \in Retentions \ {0} : e.age > r]_vars

Changed(k, column) ==
  /\ k <= Len(commits) /\ commits[k].op \in {"put", "status"}
  /\ commits[k].before[column] # commits[k].after[column]
  /\ \E c \in Clients : At(c, "committed") /\ req[c].commit = k
Recorded(k, column) == \E e \in changelog : e.commit = k /\ e.says.text = column

\* Each column that a request changed is recorded in the end, unless the
\* project is deleted, a write fails or the process ends before it.
ChangesGetRecorded ==
  \A k \in 1..MaxCommits, c \in Columns :
    Changed(k, c) ~> Recorded(k, c) \/ failed \/ ~project
=============================================================================
