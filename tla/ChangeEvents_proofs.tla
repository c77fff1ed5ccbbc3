-------------------------- MODULE ChangeEvents_proofs --------------------------
(***************************************************************************)
(* What holds of ChangeEvents for all sets of clients and columns' values  *)
(* and any number of commits.                                              *)
(*                                                                         *)
(* The argument: updatedAt grows with every commit that touches the row,   *)
(* so an update that finds the version it read finds the columns it read.  *)
(* A status change that finds the id it read finds the endpoint it read,   *)
(* under the key it read or one given to it in between.  So what a handler *)
(* works out is true of the commit from the moment it commits, whenever it *)
(* is emitted and written.                                                 *)
(***************************************************************************)
EXTENDS ChangeEvents, TLAPS

\* The endpoint of the k-th commit had this key at it, or before.
HadIn(log, k, key) ==
  \E i \in 1..k : (\A j \in i..k : log[j].before # None) /\ log[i].before.key = key

\* What is true of a commit; the audit log's entries say nothing of columns.
Truth(log, k, says) ==
  /\ k \in 1..Len(log)
  /\ says # Audited =>
       LET c == log[k]
       IN  IF c.op = "status"
           THEN HadIn(log, k, says.key) /\ says = Says("status", says.key, c.before.status, c.after.status)
           ELSE says \in Messages(c.op, c.before, c.after)

RequestsTruthful ==
  \A c \in Clients : At(c, "committed") =>
    \A m \in req[c].says : Truth(commits, req[c].commit, m)
QueueTruthful == \A e \in queue : Truth(commits, e.commit, e.says)
LogTruthful == \A e \in changelog : Truth(commits, e.commit, e.says) /\ e.says # Audited

\* The endpoint that is there has this key, or had it.
NamedNow(key) == endpoint # None /\ (key = endpoint.is.key \/ HadIn(commits, Len(commits), key))

\* Who has read the row's version has read its columns; who has read its id has
\* read a key of its own.
ReadsKnow ==
  /\ endpoint # None => endpoint.at <= Len(commits) /\ endpoint.id <= Len(commits)
  /\ \A c \in Clients : At(c, "read") =>
       /\ req[c].row.at <= Len(commits) /\ req[c].row.id <= Len(commits)
       /\ Known(c) => endpoint.is = req[c].row.is
       /\ endpoint # None /\ endpoint.id = req[c].row.id => NamedNow(req[c].row.is.key)

IInv == /\ TypeOK /\ NoOrphanEntries
        /\ RequestsTruthful /\ QueueTruthful /\ LogTruthful /\ ReadsKnow

-----------------------------------------------------------------------------
(* Messages. *)

LEMMA SaysMessage ==
  ASSUME NEW text \in Columns \cup {"added", "deleted", "audit"}, NEW key \in Keys \cup {None},
         NEW from \in Values, NEW to \in Values
  PROVE  Says(text, key, from, to) \in Message /\ Says(text, key, from, to).key = key
  BY DEF Says, Message

LEMMA ColumnValues ==
  ASSUME NEW x \in Contents, NEW c \in Columns
  PROVE  x[c] \in Values /\ x.key \in Keys /\ x.status \in Values
  BY DEF Contents, Columns, Values

LEMMA AuditedMessage == Audited \in Message
  BY SaysMessage DEF Audited, Values

LEMMA DifferencesTyped ==
  ASSUME NEW before \in Contents, NEW after \in Contents
  PROVE  Differences(before, after) \subseteq Message
  <1> SUFFICES ASSUME NEW c \in Columns
               PROVE  Difference(c, before, after) \in Message
    BY DEF Differences, Differing
  <1>1. None \in Values /\ before[c] \in Values /\ after[c] \in Values /\ after.key \in Keys
    BY ColumnValues DEF Values
  <1> QED
    BY <1>1, SaysMessage DEF Difference

\* What a status change says of the row it finds.
LEMMA StatusSays ==
  ASSUME NEW b \in Contents, NEW row \in Contents, row.status = b.status, NEW s \in Statuses
  PROVE  /\ [row EXCEPT !.status = s] \in Contents
         /\ Messages("status", b, [row EXCEPT !.status = s]) \subseteq Message
         /\ \A m \in Messages("status", b, [row EXCEPT !.status = s]) :
              m = Audited \/ (m.key = b.key /\ m = Says("status", b.key, row.status, s))
  <1> DEFINE x == [row EXCEPT !.status = s]
             m == Says("status", b.key, b.status, s)
  <1>1. x \in Contents /\ x.status = s
    BY DEF Contents
  <1> HIDE DEF x
  <1>2. Messages("status", b, x) = {m, Audited}
    BY <1>1 DEF Messages
  <1>3. m \in Message /\ m.key = b.key
    <2>1. b.key \in Keys /\ b.status \in Values /\ s \in Values /\ "status" \in Columns
      BY DEF Contents, Values, Columns
    <2> QED
      BY <2>1, SaysMessage
  <1>4. Messages("status", b, x) \subseteq Message
    BY <1>2, <1>3, AuditedMessage
  <1>5. \A y \in Messages("status", b, x) :
          y = Audited \/ (y.key = b.key /\ y = Says("status", b.key, row.status, s))
    BY <1>2, <1>3
  <1> QED
    BY <1>1, <1>4, <1>5 DEF x

\* A key that an endpoint had stays one that it had.
LEMMA HadStays ==
  ASSUME NEW log, NEW longer, NEW k \in Nat, NEW key, HadIn(log, k, key),
         \A i \in 1..k : longer[i] = log[i]
  PROVE  HadIn(longer, k, key)
  <1>1. PICK i \in 1..k : (\A j \in i..k : log[j].before # None) /\ log[i].before.key = key
    BY DEF HadIn
  <1>2. \A j \in i..k : longer[j] = log[j]
    BY <1>1
  <1> QED
    BY <1>1, <1>2 DEF HadIn

LEMMA HadGrows ==
  ASSUME NEW longer, NEW k \in Nat, NEW key, longer[k + 1].before # None,
         HadIn(longer, k, key) \/ longer[k + 1].before.key = key
  PROVE  HadIn(longer, k + 1, key)
  <1>1. CASE longer[k + 1].before.key = key
    BY <1>1 DEF HadIn
  <1>2. CASE HadIn(longer, k, key)
    <2>1. PICK i \in 1..k : (\A j \in i..k : longer[j].before # None) /\ longer[i].before.key = key
      BY <1>2 DEF HadIn
    <2>2. \A j \in i..(k + 1) : longer[j].before # None
      <3>1. \A j \in i..(k + 1) : j \in i..k \/ j = k + 1
        BY <2>1
      <3> QED
        BY <2>1, <3>1
    <2> QED
      BY <2>1, <2>2 DEF HadIn
  <1> QED
    BY <1>1, <1>2

-----------------------------------------------------------------------------
(* Commits. *)

\* A commit's event is true: what is said of it, of the columns it found.
Tells(op, says, after) ==
  /\ op \in Operations /\ after \in Contents \cup {None} /\ says \subseteq Message
  /\ \A m \in says : m # Audited =>
       IF op = "status"
       THEN NamedNow(m.key) /\ m = Says("status", m.key, Contained.status, after.status)
       ELSE m \in Messages(op, Contained, after)

\* What a commit does, whatever the operation.
Committed(c, op, says, after) ==
  LET n == Len(commits)
  IN  /\ Tells(op, says, after) /\ n + 1 \in 1..MaxCommits
      /\ commits' = Append(commits, [op |-> op, before |-> Contained, after |-> after])
      /\ endpoint' \in {None, endpoint,
                        [id |-> IF endpoint = None THEN n + 1 ELSE endpoint.id, is |-> after, at |-> n + 1]}
      /\ (endpoint' # None /\ endpoint' # endpoint => after \in Contents)
      /\ req' = [req EXCEPT ![c] = [pc |-> "committed", commit |-> n + 1, says |-> says]]
      /\ UNCHANGED queue

LEMMA ContainedTyped == TypeOK => Contained \in Contents \cup {None}
  BY DEF TypeOK, Contained, Row

LEMMA CommitsCommit ==
  ASSUME TypeOK, NEW c \in Clients, NEW op, NEW before, NEW after,
         Commits(c, op, before, after), Tells(op, Messages(op, before, after), after)
  PROVE  Committed(c, op, Messages(op, before, after), after)
  <1>1. Len(commits) \in Nat /\ Len(commits) < MaxCommits
    BY DEF TypeOK, Commits
  <1>2. Len(commits) + 1 \in 1..MaxCommits
    BY <1>1, BoundAssumption
  <1>3. after \in Contents \cup {None}
    BY DEF Tells
  <1>4. /\ endpoint' \in {None, endpoint,
                          [id |-> IF endpoint = None THEN Len(commits) + 1 ELSE endpoint.id,
                           is |-> after, at |-> Len(commits) + 1]}
        /\ (endpoint' # None /\ endpoint' # endpoint => after \in Contents)
    BY <1>3 DEF Commits, ThisCommit
  <1> QED
    BY <1>2, <1>4 DEF Commits, Committed, ThisCommit

\* The operations that commit, and what each says.
CommitStep(c) ==
  Update(c) \/ UpdateStatus(c) \/ Create(c) \/ RemoveEndpoint(c) \/ Import(c) \/ DropProject(c)

LEMMA OperationsTell ==
  ASSUME TypeOK, ReadsKnow, NEW c \in Clients, CommitStep(c)
  PROVE  /\ \E op, says, after : Committed(c, op, says, after)
         /\ UNCHANGED failed
         /\ (UNCHANGED logVars /\ UNCHANGED project) \/ DropProject(c)
  <1>0. Contained \in Contents \cup {None}
    BY ContainedTyped
  <1>1. CASE Update(c)
    <2>1. PICK after \in Contents : Commits(c, "put", req[c].row.is, after)
      BY <1>1, ContentsAssumption DEF Update
    <2>2. endpoint # None /\ endpoint.is = req[c].row.is
      BY <1>1 DEF Update, Known, ReadsKnow
    <2>3. req[c].row.is = Contained /\ Contained \in Contents
      BY <2>2 DEF Contained, TypeOK, Row
    <2>4. Messages("put", Contained, after) \subseteq Message
      BY <2>3, DifferencesTyped DEF Messages
    <2>5. Tells("put", Messages("put", req[c].row.is, after), after)
      BY <2>3, <2>4 DEF Tells, Operations
    <2>6. Committed(c, "put", Messages("put", req[c].row.is, after), after)
      BY <2>1, <2>5, CommitsCommit
    <2>7. UNCHANGED failed /\ UNCHANGED project /\ UNCHANGED logVars
      BY <1>1, <2>1 DEF Update, Commits
    <2> QED
      BY <2>6, <2>7
  <1>2. CASE UpdateStatus(c)
    <2>1. PICK s \in Statuses :
            Commits(c, "status", req[c].row.is, [endpoint.is EXCEPT !.status = s])
      BY <1>2 DEF UpdateStatus
    <2>2. /\ At(c, "read") /\ req[c] # None /\ req[c].pc = "read"
          /\ endpoint # None /\ endpoint.id = req[c].row.id
          /\ endpoint.is.status = req[c].row.is.status
      BY <1>2 DEF UpdateStatus, At, StatusStands
    <2>3. endpoint.is \in Contents /\ Contained = endpoint.is /\ req[c].row.is \in Contents
      BY <2>2 DEF Contained, TypeOK, Row, Request
    <2>4. NamedNow(req[c].row.is.key)
      BY <2>2 DEF ReadsKnow
    <2> DEFINE after == [endpoint.is EXCEPT !.status = s]
               says == Messages("status", req[c].row.is, after)
    <2>5. /\ after \in Contents /\ after.status = s /\ says \subseteq Message
          /\ \A m \in says : m = Audited \/
               (m.key = req[c].row.is.key /\ m = Says("status", req[c].row.is.key, endpoint.is.status, s))
      BY <2>2, <2>3, StatusSays DEF Contents
    <2>6. Commits(c, "status", req[c].row.is, after)
      BY <2>1
    <2> HIDE DEF after, says
    <2>7. Tells("status", says, after)
      BY <2>3, <2>4, <2>5 DEF Tells, Operations
    <2>8. Committed(c, "status", says, after)
      BY <2>6, <2>7, CommitsCommit DEF says
    <2>9. UNCHANGED failed /\ UNCHANGED project /\ UNCHANGED logVars
      BY <1>2, <2>6 DEF UpdateStatus, Commits
    <2> QED
      BY <2>8, <2>9
  <1>3. CASE Create(c)
    <2>1. PICK after \in Contents : Commits(c, "create", None, after)
      BY <1>3, ContentsAssumption DEF Create
    <2>2. /\ Messages("create", None, after) = {Says("added", after.key, None, None)}
          /\ Messages("create", Contained, after) = {Says("added", after.key, None, None)}
      BY DEF Messages
    <2>3. Says("added", after.key, None, None) \in Message
      BY SaysMessage DEF Contents, Values
    <2>4. Tells("create", Messages("create", None, after), after)
      BY <2>2, <2>3 DEF Tells, Operations
    <2> QED
      BY <1>3, <2>1, <2>4, CommitsCommit DEF Create, Commits
  <1>4. CASE RemoveEndpoint(c)
    <2>1. Commits(c, "remove", endpoint.is, None) /\ endpoint # None
      BY <1>4 DEF RemoveEndpoint
    <2>2. Contained = endpoint.is /\ endpoint.is \in Contents
      BY <2>1 DEF Contained, TypeOK, Row
    <2>3. Messages("remove", endpoint.is, None) = {Says("deleted", endpoint.is.key, None, None)}
      BY DEF Messages
    <2>4. Says("deleted", endpoint.is.key, None, None) \in Message
      BY <2>2, SaysMessage DEF Contents, Values
    <2>5. Tells("remove", Messages("remove", endpoint.is, None), None)
      BY <2>2, <2>3, <2>4 DEF Tells, Operations
    <2> QED
      BY <1>4, <2>1, <2>5, CommitsCommit DEF RemoveEndpoint, Commits
  <1>5. CASE Import(c)
    <2>1. PICK after \in {None} \cup (IF endpoint = None THEN {x \in Sent : x.status = Draft}
                                      ELSE {[endpoint.is EXCEPT !.summary = s] : s \in Summaries}) :
            Commits(c, "import", None, after)
      BY <1>5 DEF Import
    <2>2. after \in Contents \cup {None}
      BY <2>1, ContentsAssumption DEF TypeOK, Row, Contents
    <2>3. Messages("import", None, after) = {Audited}
      BY DEF Messages
    <2>4. Tells("import", Messages("import", None, after), after)
      BY <2>2, <2>3, AuditedMessage DEF Tells, Operations
    <2> QED
      BY <1>5, <2>1, <2>4, CommitsCommit DEF Import, Commits
  <1>6. CASE DropProject(c)
    <2>1. Commits(c, "drop", None, None)
      BY <1>6 DEF DropProject
    <2>2. Messages("drop", None, None) = {Audited}
      BY DEF Messages
    <2>3. Tells("drop", Messages("drop", None, None), None)
      BY <2>2, AuditedMessage DEF Tells, Operations
    <2> QED
      BY <1>6, <2>1, <2>3, CommitsCommit DEF Commits
  <1> QED
    BY <1>1, <1>2, <1>3, <1>4, <1>5, <1>6 DEF CommitStep

\* What holds after a commit of what is stated in terms of it.
LEMMA CommitEffect ==
  ASSUME TypeOK, NEW c \in Clients, NEW op, NEW says, NEW after, Committed(c, op, says, after)
  PROVE  LET n == Len(commits)
         IN  /\ n \in Nat /\ Len(commits') = n + 1 /\ commits' \in Seq(Commit)
             /\ \A i \in 1..n : commits'[i] = commits[i]
             /\ commits'[n + 1].op = op /\ commits'[n + 1].before = Contained /\ commits'[n + 1].after = after
             /\ req' \in [Clients -> Request \cup {None}]
             /\ req'[c].pc = "committed" /\ req'[c].commit = n + 1 /\ req'[c].says = says
             /\ \A x \in Clients \ {c} : req'[x] = req[x]
             /\ endpoint' \in Row \cup {None}
  <1> DEFINE n == Len(commits)
             new == [op |-> op, before |-> Contained, after |-> after]
             q == [pc |-> "committed", commit |-> n + 1, says |-> says]
  <1>1. n \in Nat /\ commits \in Seq(Commit)
    BY DEF TypeOK
  <1>2. new \in Commit /\ new.op = op /\ new.before = Contained /\ new.after = after
    BY ContainedTyped DEF Commit, Committed, Tells
  <1>3. commits' = Append(commits, new)
    BY DEF Committed
  <1>4. q \in Request /\ q.pc = "committed" /\ q.commit = n + 1 /\ q.says = says
    BY DEF Committed, Tells, Request
  <1>5. req' = [req EXCEPT ![c] = q]
    BY DEF Committed
  <1>6. endpoint' \in Row \cup {None}
    BY <1>1, BoundAssumption DEF Committed, TypeOK, Row
  <1> HIDE DEF new, q
  <1>7. /\ Len(commits') = n + 1 /\ commits' \in Seq(Commit)
        /\ \A i \in 1..n : commits'[i] = commits[i]
        /\ commits'[n + 1] = new
    BY <1>1, <1>2, <1>3
  <1> QED
    BY <1>1, <1>2, <1>4, <1>5, <1>6, <1>7 DEF TypeOK

-----------------------------------------------------------------------------
(* What is true of a commit stays true of it. *)

LEMMA TruthStays ==
  ASSUME NEW k, NEW says, Truth(commits, k, says), Len(commits) \in Nat, Len(commits') \in Nat,
         Len(commits) <= Len(commits'), \A i \in 1..Len(commits) : commits'[i] = commits[i]
  PROVE  Truth(commits', k, says)
  <1>1. /\ k \in 1..Len(commits) /\ k \in 1..Len(commits') /\ k \in Nat
        /\ \A i \in 1..k : commits'[i] = commits[i]
    BY DEF Truth
  <1>2. HadIn(commits, k, says.key) => HadIn(commits', k, says.key)
    BY <1>1, HadStays
  <1> QED
    BY <1>1, <1>2 DEF Truth

\* A name that the endpoint had when it was committed to.
LEMMA NamedIsHad ==
  ASSUME TypeOK, NEW c \in Clients, NEW op, NEW says, NEW after, Committed(c, op, says, after),
         NEW key, NamedNow(key)
  PROVE  HadIn(commits', Len(commits) + 1, key)
  <1> DEFINE n == Len(commits)
  <1>1. /\ n \in Nat /\ commits'[n + 1].before = Contained
        /\ \A i \in 1..n : commits'[i] = commits[i]
    BY CommitEffect
  <1>2. Contained = endpoint.is /\ Contained \in Contents
    BY DEF NamedNow, Contained, TypeOK, Row
  <1>3. Contained # None
    BY <1>2, ContentsNotNone
  <1>4. HadIn(commits, n, key) => HadIn(commits', n, key)
    BY <1>1, HadStays
  <1> HIDE DEF n
  <1>5. HadIn(commits', n, key) \/ commits'[n + 1].before.key = key
    BY <1>1, <1>2, <1>4 DEF NamedNow, n
  <1> QED
    BY <1>1, <1>3, <1>5, HadGrows DEF n

LEMMA TruthAfterCommit ==
  ASSUME TypeOK, NEW c \in Clients, NEW op, NEW says, NEW after, Committed(c, op, says, after)
  PROVE  /\ \A k, m : Truth(commits, k, m) => Truth(commits', k, m)
         /\ \A m \in says : Truth(commits', Len(commits) + 1, m)
  <1> DEFINE n == Len(commits)
  <1>1. /\ n \in Nat /\ Len(commits') = n + 1
        /\ \A i \in 1..n : commits'[i] = commits[i]
        /\ commits'[n + 1].op = op /\ commits'[n + 1].before = Contained /\ commits'[n + 1].after = after
    BY CommitEffect
  <1>2. \A k, m : Truth(commits, k, m) => Truth(commits', k, m)
    BY <1>1, TruthStays
  <1>3. ASSUME NEW m \in says
        PROVE  Truth(commits', n + 1, m)
    <2>1. m # Audited =>
            IF op = "status" THEN NamedNow(m.key) /\ m = Says("status", m.key, Contained.status, after.status)
            ELSE m \in Messages(op, Contained, after)
      BY DEF Committed, Tells
    <2>2. NamedNow(m.key) => HadIn(commits', n + 1, m.key)
      BY NamedIsHad
    <2>3. n + 1 \in 1..Len(commits')
      BY <1>1
    <2> QED
      BY <1>1, <2>1, <2>2, <2>3 DEF Truth
  <1> QED
    BY <1>2, <1>3

\* The invariant but for the logs, after a commit.
LEMMA RequestsAfterCommit ==
  ASSUME IInv, NEW c \in Clients, NEW op, NEW says, NEW after, Committed(c, op, says, after)
  PROVE  RequestsTruthful' /\ QueueTruthful' /\ ReadsKnow'
  <1> USE DEF IInv
  <1> DEFINE n == Len(commits)
  <1>1. /\ n \in Nat /\ Len(commits') = n + 1
        /\ req'[c].pc = "committed" /\ req'[c].commit = n + 1 /\ req'[c].says = says
        /\ \A x \in Clients \ {c} : req'[x] = req[x]
    BY CommitEffect
  <1>2. /\ \A k, m : Truth(commits, k, m) => Truth(commits', k, m)
        /\ \A m \in says : Truth(commits', n + 1, m)
    BY TruthAfterCommit
  <1>3. RequestsTruthful'
    <2>1. ASSUME NEW x \in Clients, At(x, "committed")', NEW m \in req'[x].says
          PROVE  Truth(commits', req'[x].commit, m)
      <3>1. CASE x = c
        BY <1>1, <1>2, <2>1, <3>1
      <3>2. CASE x # c
        <4>1. req'[x] = req[x] /\ At(x, "committed")
          BY <1>1, <2>1, <3>2 DEF At
        <4>2. Truth(commits, req[x].commit, m)
          BY <2>1, <4>1 DEF RequestsTruthful
        <4> QED
          BY <1>2, <4>1, <4>2
      <3> QED
        BY <3>1, <3>2
    <2> QED
      BY <2>1 DEF RequestsTruthful
  <1>4. QueueTruthful'
    BY <1>2 DEF QueueTruthful, Committed
  <1>5. ReadsKnow'
    <2>1. endpoint # None => /\ endpoint.at \in Nat /\ endpoint.at <= n
                             /\ endpoint.id \in Nat /\ endpoint.id <= n
      BY DEF ReadsKnow, TypeOK, Row
    <2>2. endpoint' # None =>
            endpoint' = endpoint \/ (endpoint'.at = n + 1 /\ endpoint'.id = IF endpoint = None THEN n + 1 ELSE endpoint.id)
      BY DEF Committed
    <2>3. endpoint' # None => endpoint'.at <= n + 1 /\ endpoint'.id <= n + 1
      BY <1>1, <2>1, <2>2
    <2>4. ASSUME NEW x \in Clients, At(x, "read")'
          PROVE  /\ req'[x].row.at <= n + 1 /\ req'[x].row.id <= n + 1
                 /\ Known(x)' => endpoint'.is = req'[x].row.is
                 /\ endpoint' # None /\ endpoint'.id = req'[x].row.id => NamedNow(req[x].row.is.key)'
      <3>1. x # c /\ req'[x] = req[x] /\ At(x, "read")
        BY <1>1, <2>4 DEF At
      <3>2. /\ req[x].row.at \in Nat /\ req[x].row.at <= n /\ req[x].row.id \in Nat /\ req[x].row.id <= n
            /\ Known(x) => endpoint.is = req[x].row.is
            /\ endpoint # None /\ endpoint.id = req[x].row.id => NamedNow(req[x].row.is.key)
        <4>1. req[x] \in Request /\ req[x].pc = "read"
          BY <3>1 DEF At, TypeOK
        <4>2. req[x].row \in Row
          BY <4>1 DEF Request
        <4>3. req[x].row.at \in Nat /\ req[x].row.id \in Nat
          BY <4>2, BoundAssumption DEF Row
        <4> QED
          BY <3>1, <4>3 DEF ReadsKnow
      <3>3. Known(x)' => endpoint' = endpoint /\ Known(x)
        BY <1>1, <2>2, <3>1, <3>2 DEF Known
      <3>4. ASSUME endpoint' # None, endpoint'.id = req'[x].row.id
            PROVE  NamedNow(req[x].row.is.key)'
        <4>1. endpoint # None /\ endpoint.id = req[x].row.id
          BY <1>1, <2>2, <3>1, <3>2, <3>4
        <4>2. HadIn(commits', n + 1, req[x].row.is.key)
          BY <3>2, <4>1, NamedIsHad
        <4> QED
          BY <1>1, <3>1, <3>4, <4>2 DEF NamedNow
      <3> QED
        BY <1>1, <3>1, <3>2, <3>3, <3>4
    <2> QED
      BY <1>1, <2>3, <2>4 DEF ReadsKnow
  <1> QED
    BY <1>3, <1>4, <1>5

LEMMA CommitKeeps ==
  ASSUME IInv, NEW c \in Clients, CommitStep(c)
  PROVE  IInv'
  <1>1. PICK op, says, after : Committed(c, op, says, after)
    BY OperationsTell DEF IInv
  <1>2. RequestsTruthful' /\ QueueTruthful' /\ ReadsKnow'
    BY <1>1, RequestsAfterCommit
  <1>3. UNCHANGED failed /\ ((UNCHANGED logVars /\ UNCHANGED project) \/ DropProject(c))
    BY OperationsTell DEF IInv
  <1>4. /\ project' \in BOOLEAN /\ changelog' \subseteq changelog /\ auditLog' = auditLog
        /\ NoOrphanEntries'
    <2>1. CASE UNCHANGED logVars /\ UNCHANGED project
      BY <2>1 DEF IInv, TypeOK, logVars, NoOrphanEntries
    <2>2. CASE DropProject(c)
      BY <2>2 DEF DropProject, NoOrphanEntries
    <2> QED
      BY <1>3, <2>1, <2>2
  <1>5. LogTruthful'
    <2>1. \A k, m : Truth(commits, k, m) => Truth(commits', k, m)
      BY <1>1, TruthAfterCommit DEF IInv
    <2> QED
      BY <1>4, <2>1 DEF IInv, LogTruthful
  <1>6. TypeOK'
    <2>1. /\ commits' \in Seq(Commit) /\ endpoint' \in Row \cup {None}
          /\ req' \in [Clients -> Request \cup {None}]
          /\ Len(commits) \in Nat /\ Len(commits') = Len(commits) + 1
      BY <1>1, CommitEffect DEF IInv
    <2>2. \A e \in queue' : e \in Event /\ e.commit <= Len(commits')
      <3>1. \A e \in queue : e \in Event /\ e.commit <= Len(commits) /\ e.commit \in Nat
        BY BoundAssumption DEF IInv, TypeOK, Event
      <3>2. queue' = queue
        BY <1>1 DEF Committed
      <3> QED
        BY <2>1, <3>1, <3>2
    <2> QED
      BY <1>3, <1>4, <2>1, <2>2 DEF IInv, TypeOK
  <1> QED
    BY <1>2, <1>4, <1>5, <1>6 DEF IInv

-----------------------------------------------------------------------------
(* The other steps. *)

\* Rows and commits stay, and requests and events are among those there were.
LEMMA OthersKeep ==
  ASSUME IInv, UNCHANGED rowVars, TypeOK', NoOrphanEntries', LogTruthful',
         \A c \in Clients : req'[c] \in {None, req[c]},
         \A e \in queue' : Truth(commits, e.commit, e.says)
  PROVE  IInv'
  <1>1. UNCHANGED <<project, endpoint, commits>>
    BY DEF rowVars
  <1>2. RequestsTruthful'
    BY <1>1 DEF IInv, RequestsTruthful, At, Truth
  <1>3. QueueTruthful'
    BY <1>1 DEF QueueTruthful, Truth
  <1>4. ReadsKnow'
    BY <1>1 DEF IInv, ReadsKnow, At, Known, NamedNow
  <1> QED
    BY <1>2, <1>3, <1>4 DEF IInv

LEMMA ReadKeeps ==
  ASSUME IInv, NEW c \in Clients, NEW op \in {"put", "status"}, Read(c, op)
  PROVE  IInv'
  <1> DEFINE q == [op |-> op, pc |-> "read", row |-> endpoint]
  <1>1. /\ endpoint \in Row /\ endpoint # None
        /\ endpoint.at <= Len(commits) /\ endpoint.id <= Len(commits) /\ Len(commits) \in Nat
    BY DEF IInv, Read, TypeOK, ReadsKnow
  <1>2. q \in Request /\ q.pc = "read" /\ q.op = op /\ q.row = endpoint
    BY <1>1 DEF Request
  <1>3. req' = [req EXCEPT ![c] = q] /\ UNCHANGED <<rowVars, queue, logVars, failed>>
    BY DEF Read
  <1> HIDE DEF q
  <1>4. /\ req' \in [Clients -> Request \cup {None}] /\ req'[c] = q
        /\ \A x \in Clients \ {c} : req'[x] = req[x]
    BY <1>2, <1>3 DEF IInv, TypeOK
  <1>5. UNCHANGED <<project, endpoint, commits, queue, changelog, auditLog, failed>>
    BY <1>3 DEF rowVars, logVars
  <1>6. TypeOK' /\ NoOrphanEntries' /\ QueueTruthful' /\ LogTruthful'
    BY <1>4, <1>5 DEF IInv, TypeOK, NoOrphanEntries, QueueTruthful, LogTruthful, Truth
  <1>7. RequestsTruthful'
    BY <1>2, <1>4, <1>5 DEF IInv, RequestsTruthful, At, Truth
  <1>8. ReadsKnow'
    BY <1>1, <1>2, <1>4, <1>5 DEF IInv, ReadsKnow, At, Known, NamedNow
  <1> QED
    BY <1>6, <1>7, <1>8 DEF IInv

LEMMA RefuseKeeps ==
  ASSUME IInv, NEW c \in Clients, Refuse(c)
  PROVE  IInv'
  <1>1. req' = [req EXCEPT ![c] = None] /\ UNCHANGED <<rowVars, queue, logVars, failed>>
    BY DEF Refuse
  <1>2. TypeOK' /\ NoOrphanEntries' /\ LogTruthful'
    BY <1>1 DEF IInv, TypeOK, NoOrphanEntries, LogTruthful, Truth, rowVars, logVars
  <1>3. \A x \in Clients : req'[x] \in {None, req[x]}
    BY <1>1 DEF IInv, TypeOK
  <1>4. \A e \in queue' : Truth(commits, e.commit, e.says)
    BY <1>1 DEF IInv, QueueTruthful
  <1> QED
    BY <1>1, <1>2, <1>3, <1>4, OthersKeep

LEMMA EmitKeeps ==
  ASSUME IInv, NEW c \in Clients, Emit(c)
  PROVE  IInv'
  <1>1. /\ At(c, "committed") /\ UNCHANGED <<rowVars, logVars, failed>>
        /\ req' = [req EXCEPT ![c] = None]
        /\ queue' = queue \cup {[commit |-> req[c].commit, says |-> m] : m \in req[c].says}
    BY DEF Emit
  <1>2. req[c] \in Request /\ req[c].says \subseteq Message /\ req[c].commit \in 1..MaxCommits
    BY <1>1 DEF At, IInv, TypeOK, Request
  <1>3. ASSUME NEW e \in queue'
        PROVE  Truth(commits, e.commit, e.says) /\ e \in Event
    <2>1. CASE e \in queue
      BY <2>1 DEF IInv, QueueTruthful, TypeOK
    <2>2. CASE e \notin queue
      <3>1. PICK m \in req[c].says : e = [commit |-> req[c].commit, says |-> m]
        BY <1>1, <1>3, <2>2
      <3>2. e \in Event
        BY <1>2, <3>1 DEF Event
      <3> QED
        BY <1>1, <3>1, <3>2 DEF IInv, RequestsTruthful
    <2> QED
      BY <2>1, <2>2
  <1>4. TypeOK' /\ NoOrphanEntries' /\ LogTruthful'
    <2>1. \A e \in queue' : e.commit <= Len(commits)
      BY <1>3, BoundAssumption DEF Truth, IInv, TypeOK
    <2> QED
      BY <1>1, <1>3, <2>1 DEF IInv, TypeOK, NoOrphanEntries, LogTruthful, Truth, rowVars, logVars
  <1>5. \A x \in Clients : req'[x] \in {None, req[x]}
    BY <1>1 DEF IInv, TypeOK
  <1> QED
    BY <1>1, <1>3, <1>4, <1>5, OthersKeep

LEMMA WriteKeeps ==
  ASSUME IInv, NEW e \in queue, Write(e)
  PROVE  IInv'
  <1>1. queue' \subseteq queue /\ UNCHANGED <<rowVars, req, failed>>
    BY DEF Write
  <1>2. /\ e \in Event /\ Truth(commits, e.commit, e.says)
        /\ EntryOf(e) \in Entry /\ EntryOf(e).commit = e.commit /\ EntryOf(e).says = e.says
    BY BoundAssumption DEF IInv, TypeOK, QueueTruthful, EntryOf, Entry, Event
  <1>3. /\ auditLog' \subseteq auditLog \cup {EntryOf(e)}
        /\ \/ changelog' = changelog
           \/ changelog' = changelog \cup {EntryOf(e)} /\ project /\ e.says # Audited
    BY DEF Write, Stores, logVars
  <1>4. TypeOK'
    BY <1>1, <1>2, <1>3 DEF IInv, TypeOK, rowVars
  <1>5. NoOrphanEntries' /\ LogTruthful'
    BY <1>1, <1>2, <1>3 DEF IInv, NoOrphanEntries, LogTruthful, Truth, rowVars
  <1>6. \A x \in queue' : Truth(commits, x.commit, x.says)
    BY <1>1 DEF IInv, QueueTruthful
  <1> QED
    BY <1>1, <1>4, <1>5, <1>6, OthersKeep

\* A failed write, the end of the process.
LEMMA LossKeeps ==
  ASSUME IInv, Restart \/ \E e \in queue : FailToWrite(e)
  PROVE  IInv'
  <1>1. /\ queue' \subseteq queue /\ UNCHANGED <<rowVars, logVars>>
        /\ \A x \in Clients : req'[x] \in {None, req[x]}
        /\ req' \in [Clients -> Request \cup {None}]
        /\ failed' \in BOOLEAN
    <2>1. CASE Restart
      <3>1. failed' \in BOOLEAN
        BY <2>1 DEF Restart
      <3> QED
        BY <2>1, <3>1 DEF Restart
    <2>2. CASE \E e \in queue : FailToWrite(e)
      BY <2>2 DEF FailToWrite, IInv, TypeOK
    <2> QED
      BY <2>1, <2>2
  <1>2. TypeOK' /\ NoOrphanEntries' /\ LogTruthful'
    BY <1>1 DEF IInv, TypeOK, NoOrphanEntries, LogTruthful, Truth, rowVars, logVars
  <1>3. \A x \in queue' : Truth(commits, x.commit, x.says)
    BY <1>1 DEF IInv, QueueTruthful
  <1> QED
    BY <1>1, <1>2, <1>3, OthersKeep

\* An entry that is a day older is the same entry.
Older(e) == [e EXCEPT !.age = IF e.age < MaxAge THEN e.age + 1 ELSE e.age]

LEMMA OlderEntry ==
  ASSUME NEW e \in Entry
  PROVE  Older(e) \in Entry /\ Older(e).commit = e.commit /\ Older(e).says = e.says
  <1> DEFINE a == IF e.age < MaxAge THEN e.age + 1 ELSE e.age
  <1>1. a \in 0..MaxAge
    BY BoundAssumption DEF Entry
  <1>2. Older(e) = [e EXCEPT !.age = a]
    BY DEF Older
  <1> HIDE DEF a
  <1> QED
    BY <1>1, <1>2 DEF Entry

LEMMA TickLogs ==
  ASSUME Tick
  PROVE  /\ changelog' = {Older(e) : e \in changelog} /\ auditLog' = {Older(e) : e \in auditLog}
         /\ UNCHANGED <<rowVars, req, queue, failed>>
  BY DEF Tick, Older

LEMMA LogsAge ==
  ASSUME IInv, Tick \/ \E r \in Retentions : HandleLogCleanup(r)
  PROVE  IInv'
  <1>1. UNCHANGED <<rowVars, req, queue, failed>>
    BY TickLogs DEF HandleLogCleanup
  <1>2. \A e \in changelog' : e \in Entry /\ \E x \in changelog : x.commit = e.commit /\ x.says = e.says
    BY TickLogs, OlderEntry DEF HandleLogCleanup, IInv, TypeOK
  <1>3. \A e \in auditLog' : e \in Entry
    BY TickLogs, OlderEntry DEF HandleLogCleanup, IInv, TypeOK
  <1>4. TypeOK'
    BY <1>1, <1>2, <1>3 DEF IInv, TypeOK, rowVars
  <1>5. NoOrphanEntries' /\ LogTruthful'
    BY <1>1, <1>2 DEF IInv, NoOrphanEntries, LogTruthful, Truth, rowVars
  <1>6. \A x \in queue' : Truth(commits, x.commit, x.says)
    BY <1>1 DEF IInv, QueueTruthful
  <1> QED
    BY <1>1, <1>4, <1>5, <1>6, OthersKeep

-----------------------------------------------------------------------------
(* The theorems. *)

LEMMA InvariantInit == Init => IInv
  <1> SUFFICES ASSUME Init
               PROVE  IInv
    OBVIOUS
  <1>1. /\ project = TRUE /\ commits = <<>> /\ endpoint = [id |-> 0, is |-> FirstContents, at |-> 0]
        /\ queue = {} /\ changelog = {} /\ auditLog = {} /\ failed = FALSE
        /\ req = [c \in Clients |-> None]
    BY DEF Init
  <1>2. endpoint \in Row /\ endpoint.at = 0 /\ endpoint.id = 0
    BY <1>1, ContentsAssumption, BoundAssumption DEF Row
  <1>3. commits \in Seq(Commit) /\ Len(commits) = 0
    BY <1>1
  <1>4. TypeOK
    BY <1>1, <1>2, <1>3 DEF TypeOK
  <1>5. \A c \in Clients, pc \in {"read", "committed"} : ~At(c, pc)
    BY <1>1 DEF At
  <1>6. RequestsTruthful /\ ReadsKnow
    BY <1>2, <1>3, <1>5 DEF RequestsTruthful, ReadsKnow
  <1>7. NoOrphanEntries /\ QueueTruthful /\ LogTruthful
    BY <1>1 DEF NoOrphanEntries, QueueTruthful, LogTruthful
  <1> QED
    BY <1>4, <1>6, <1>7 DEF IInv

LEMMA InvariantStep == IInv /\ [Next]_vars => IInv'
  <1> SUFFICES ASSUME IInv, [Next]_vars
               PROVE  IInv'
    OBVIOUS
  <1>1. CASE UNCHANGED vars
    BY <1>1 DEF IInv, TypeOK, NoOrphanEntries, RequestsTruthful, QueueTruthful, LogTruthful, ReadsKnow,
                At, Known, NamedNow, Truth, vars, rowVars, logVars
  <1>2. ASSUME NEW c \in Clients, ClientStep(c)
        PROVE  IInv'
    BY <1>2, CommitKeeps, ReadKeeps, RefuseKeeps, EmitKeeps DEF ClientStep, CommitStep
  <1> QED
    BY <1>1, <1>2, WriteKeeps, LossKeeps, LogsAge DEF Next

\* The strengthening holds in every reachable state of every instance.
THEOREM Invariant == Spec => []IInv
  BY InvariantInit, InvariantStep, PTL DEF Spec

\* Rows, requests, events and entries keep their shape.
THEOREM TypeCorrect == Spec => []TypeOK
  <1>1. IInv => TypeOK
    BY DEF IInv
  <1> QED
    BY <1>1, Invariant, PTL

\* No entry of a deleted project, however late its listeners are.
THEOREM NoOrphans == Spec => []NoOrphanEntries
  <1>1. IInv => NoOrphanEntries
    BY DEF IInv
  <1> QED
    BY <1>1, Invariant, PTL

\* What the changelog says was changed is what the commit changed, for any number
\* of clients that read, wait and commit in any order, and the endpoint it names
\* was the one changed, if not always by its last name.
THEOREM Truthful == Spec => []EntriesTruthful
  <1>1. IInv => EntriesTruthful
    BY DEF IInv, LogTruthful, Truth, EntriesTruthful, Had, HadIn
  <1> QED
    BY <1>1, Invariant, PTL

\* The last days of the retention, and everything without one, are kept by
\* every step but the deletion of the project.
THEOREM Kept == Spec => EntriesAreKept
  <1> DEFINE Same(x, e) == x.commit = e.commit /\ x.says = e.says
             Allowed(e) == (e.says # Audited /\ ~project') \/ \E r \in Retentions \ {0} : e.age > r
  <1>1. ASSUME IInv, [Next]_vars, NEW e \in changelog \cup auditLog
        PROVE  (\E x \in changelog' \cup auditLog' : Same(x, e)) \/ Allowed(e)
    <2>0. e \in Entry
      BY <1>1 DEF IInv, TypeOK
    <2>1. CASE e \in changelog' \cup auditLog'
      BY <2>1
    <2>2. CASE Tick
      <3>1. Older(e) \in changelog' \cup auditLog'
        BY <1>1, <2>2, TickLogs
      <3> QED
        BY <2>0, <3>1, OlderEntry
    <2>3. ASSUME NEW r \in Retentions, HandleLogCleanup(r), e \notin changelog' \cup auditLog'
          PROVE  Allowed(e)
      <3>1. r > 0 /\ e.age > r
        BY <1>1, <2>3 DEF HandleLogCleanup, Expired
      <3>2. r \in Retentions \ {0}
        BY <3>1
      <3> QED
        BY <3>1, <3>2
    <2>4. ASSUME NEW c \in Clients, DropProject(c), e \notin changelog' \cup auditLog'
          PROVE  Allowed(e)
      <3>1. e \in changelog /\ ~project'
        BY <1>1, <2>4 DEF DropProject
      <3> QED
        BY <1>1, <3>1 DEF IInv, LogTruthful
    <2>5. CASE UNCHANGED logVars
      BY <1>1, <2>5 DEF logVars
    <2>6. ASSUME NEW x \in queue, Write(x)
          PROVE  e \in changelog' \cup auditLog'
      BY <1>1, <2>6 DEF Write, logVars
    <2>7. ASSUME NEW c \in Clients, ClientStep(c), ~DropProject(c)
          PROVE  UNCHANGED logVars
      BY <2>7 DEF ClientStep, Read, Update, UpdateStatus, Refuse, Create, RemoveEndpoint, Import, Emit
    <2>8. ASSUME Restart \/ \E x \in queue : FailToWrite(x)
          PROVE  UNCHANGED logVars
      BY <2>8 DEF Restart, FailToWrite
    <2>9. UNCHANGED vars => UNCHANGED logVars
      BY DEF vars
    <2> HIDE DEF Same, Allowed
    <2> QED
      BY <1>1, <2>1, <2>2, <2>3, <2>4, <2>5, <2>6, <2>7, <2>8, <2>9 DEF Next
  <1>2. IInv /\ [Next]_vars =>
          [\A e \in changelog \cup auditLog :
             (\A x \in changelog' \cup auditLog' : x.commit # e.commit \/ x.says # e.says) =>
               (e.says # Audited /\ ~project') \/ \E r \in Retentions \ {0} : e.age > r]_vars
    BY <1>1
  <1> QED
    BY <1>2, Invariant, PTL DEF Spec, EntriesAreKept
=============================================================================
