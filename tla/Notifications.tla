---------------------------- MODULE Notifications ----------------------------
(***************************************************************************)
(* NotificationService and NotificationsGateway: the registry of a user's  *)
(* sockets, notifications stored in a transaction and pushed from within   *)
(* it, and the two ways of marking them read.                              *)
(*                                                                         *)
(* A socket stands for a tab: connected once, it goes on sending requests  *)
(* after its connection is lost (a reconnection is another socket).  What  *)
(* a tab displays was pushed to it or listed.  SQLite has one writer at a  *)
(* time, so one transaction is under way at most.                          *)
(***************************************************************************)
EXTENDS Integers, Sequences, FiniteSets

CONSTANTS Users, Sockets,
          Tokens,     \* whose token a tab may bring, as pairs <<socket, user>>
          MaxPushes,  \* bound on the transactions begun
          MaxReads,   \* bound on the times something is marked read
          None        \* no user, no transaction, no request

ASSUME TokensAssumption == Tokens \subseteq Sockets \X Users
ASSUME BoundAssumption == MaxPushes \in Nat /\ MaxReads \in Nat
ASSUME NoneAssumption == None \notin Users

VARIABLES user,      \* Sockets -> whose token it brought, None before it connects
          link,      \* Sockets -> "new", "open", "closed", or "early": closed during the lookup
          looking,   \* sockets whose user lookup is awaited
          registry,  \* userSockets, as pairs <<user, socket>>
          notes,     \* Notification rows by id: which push each came from
          status,    \* UserNotificationStatus rows, pairs <<id, user>>
          readAt,    \* their readAt, 0 while unread
          clock,     \* the last time something was read
          tx,        \* the transaction that has pushed and not committed, or None
          pushes,    \* how many transactions have begun
          lost,      \* history: those that did not commit
          wire,      \* packets under way, <<socket, notification>>
          due,       \* history: the tabs a push is owed to, <<socket, push>>
          shown,     \* Sockets -> the notifications on display
          req        \* Sockets -> its markAsRead between find and update, or None

socketVars == <<user, link, looking, registry>>
rowVars == <<notes, status, readAt, clock>>
pushVars == <<tx, pushes, lost, wire, due>>
vars == <<socketVars, rowVars, pushVars, shown, req>>

\* A notification as a client knows it: its id, and the push it came from.
Notification == [id : 1..MaxPushes, push : 1..MaxPushes]
Transaction == [id : 1..MaxPushes, push : 1..MaxPushes, to : SUBSET Users]
\* A markAsRead, and what the clock showed when it found its row.
Request == [n : Notification, at : 0..MaxReads]

ASSUME NoRecordAssumption == None \notin Request \cup Transaction

TypeOK ==
  /\ user \in [Sockets -> Users \cup {None}]
  /\ link \in [Sockets -> {"new", "open", "closed", "early"}]
  /\ looking \subseteq Sockets /\ registry \subseteq Users \X Sockets
  /\ notes \in Seq(1..MaxPushes) /\ Len(notes) <= pushes
  /\ status \subseteq (1..MaxPushes) \X Users
  /\ readAt \in [(1..MaxPushes) \X Users -> Nat] /\ clock \in Nat
  /\ tx \in Transaction \cup {None}
  /\ pushes \in 0..MaxPushes /\ lost \subseteq 1..MaxPushes
  /\ wire \subseteq Sockets \X Notification
  /\ due \subseteq Sockets \X (1..MaxPushes)
  /\ shown \in [Sockets -> SUBSET Notification]
  /\ req \in [Sockets -> Request \cup {None}]

Init ==
  /\ user = [s \in Sockets |-> None] /\ link = [s \in Sockets |-> "new"]
  /\ looking = {} /\ registry = {}
  /\ notes = <<>> /\ status = {} /\ clock = 0
  /\ readAt = [r \in (1..MaxPushes) \X Users |-> 0]
  /\ tx = None /\ pushes = 0 /\ lost = {} /\ wire = {} /\ due = {}
  /\ shown = [s \in Sockets |-> {}]
  /\ req = [s \in Sockets |-> None]

-----------------------------------------------------------------------------
(* The gateway. *)

\* The token is verified within the call; the user is looked up.
HandleConnection(s, u) ==
  /\ link[s] = "new" /\ <<s, u>> \in Tokens
  /\ link' = [link EXCEPT ![s] = "open"] /\ user' = [user EXCEPT ![s] = u]
  /\ looking' = looking \cup {s}
  /\ UNCHANGED <<registry, rowVars, pushVars, shown, req>>

Close(s) == link' = [link EXCEPT ![s] = IF s \in looking THEN "early" ELSE "closed"]
DropPackets(s) == wire' = {p \in wire : p[1] # s} /\ due' = {p \in due : p[1] # s}

\* Mutant: a user's first socket only is registered.
RegisterFirst(s) == IF \E x \in Sockets : <<user[s], x>> \in registry THEN {} ELSE {<<user[s], s>>}
Register(s) == {<<user[s], s>>}

\* The lookup returns.  It registers the socket, whether it is still open or
\* not, unless the user is gone or has a newer tokenVersion.
Accepted(s) ==
  /\ s \in looking
  /\ looking' = looking \ {s}
  /\ registry' = registry \cup Register(s)
  /\ UNCHANGED <<user, link, rowVars, pushVars, shown, req>>

Refused(s) ==
  /\ s \in looking
  /\ looking' = looking \ {s}
  /\ link' = [link EXCEPT ![s] = "closed"]
  /\ DropPackets(s)
  /\ UNCHANGED <<user, registry, rowVars, tx, pushes, lost, shown, req>>

\* Mutant: the pair stays.
KeepsSocket(s) == registry
Unregister(s) == {p \in registry : p[2] # s}

\* The connection ends, by the client or the network.
HandleDisconnect(s) ==
  /\ link[s] = "open"
  /\ Close(s)
  /\ registry' = Unregister(s)
  /\ DropPackets(s)
  /\ UNCHANGED <<user, looking, rowVars, tx, pushes, lost, shown, req>>

\* Mutant: every socket gets it.
SendToEveryone(n, to) == {<<p[2], n>> : p \in registry}
SendNotification(n, to) == {<<p[2], n>> : p \in {x \in registry : x[1] \in to}}

\* A packet reaches its tab; one emitted to a closed socket goes nowhere.
Deliver(p) ==
  /\ p \in wire
  /\ wire' = wire \ {p} /\ due' = due \ {<<p[1], p[2].push>>}
  /\ shown' = IF link[p[1]] = "open"
                THEN [shown EXCEPT ![p[1]] = @ \cup {p[2]}] ELSE shown
  /\ UNCHANGED <<socketVars, rowVars, tx, pushes, lost, req>>

-----------------------------------------------------------------------------
(* Storing. *)

\* A tab whose connection has been accepted and lasts.
Listening(s) == link[s] = "open" /\ s \notin looking

\* The mentioned users of a note, or the project's owners without the actor of a
\* review request; without any there is no notification.
Recipients == SUBSET Users \ {{}}

\* The listener has found the recipients and opens the transaction.  The id is
\* the table's next one; each recipient's sockets are sent the notification
\* before the commit.
CreateAndBroadcast(to) ==
  /\ tx = None /\ pushes < MaxPushes /\ to \in Recipients
  /\ pushes' = pushes + 1
  /\ LET n == [id |-> Len(notes) + 1, push |-> pushes + 1]
     IN  /\ tx' = [id |-> n.id, push |-> n.push, to |-> to]
         /\ wire' = wire \cup SendNotification(n, to)
         /\ due' = due \cup {<<s, n.push>> : s \in {x \in Sockets : Listening(x) /\ user[x] \in to}}
  /\ UNCHANGED <<socketVars, rowVars, lost, shown, req>>

Commit ==
  /\ tx # None
  /\ notes' = Append(notes, tx.push)
  /\ status' = status \cup ({tx.id} \X tx.to)
  /\ tx' = None
  /\ UNCHANGED <<socketVars, readAt, clock, pushes, lost, wire, due, shown, req>>

\* The transaction times out or fails to commit; the error is logged.
Fail ==
  /\ tx # None
  /\ lost' = lost \cup {tx.push}
  /\ tx' = None
  /\ UNCHANGED <<socketVars, rowVars, pushes, wire, due, shown, req>>

-----------------------------------------------------------------------------
(* The routes. *)

FindAllForUser(s) ==
  /\ user[s] # None
  /\ shown' = [shown EXCEPT ![s] =
       {[id |-> i, push |-> notes[i]] : i \in {x \in 1..Len(notes) : <<x, user[s]>> \in status}}]
  /\ UNCHANGED <<socketVars, rowVars, pushVars, req>>

Unread(r) == r \in status /\ readAt[r] = 0
\* Mutant: markAsRead does not look whether it was read.
FindsAny(r) == r \in status
\* What markAsRead goes on with.
Finds(r) == Unread(r)

FindToMark(s, n) ==
  /\ req[s] = None /\ n \in shown[s]
  /\ Finds(<<n.id, user[s]>>)
  /\ req' = [req EXCEPT ![s] = [n |-> n, at |-> clock]]
  /\ UNCHANGED <<socketVars, rowVars, pushVars, shown>>

\* Marking writes the time; a writer waits for the transaction under way.
Mark(rows) ==
  /\ tx = None /\ clock < MaxReads
  /\ clock' = clock + 1
  /\ readAt' = [r \in DOMAIN readAt |-> IF r \in rows THEN clock + 1 ELSE readAt[r]]
  /\ UNCHANGED <<socketVars, notes, status, pushVars, shown>>

MarkAsRead(s) ==
  /\ req[s] # None
  /\ Mark({<<req[s].n.id, user[s]>>})
  /\ req' = [req EXCEPT ![s] = None]

MarkAllAsRead(s) ==
  /\ user[s] # None
  /\ \E r \in status : r[2] = user[s] /\ Unread(r)
  /\ Mark({r \in status : r[2] = user[s] /\ Unread(r)})
  /\ UNCHANGED req

\* The process ends: connections, registry, transaction and requests with it.
Restart ==
  /\ link' = [s \in Sockets |-> IF link[s] = "new" THEN "new" ELSE "closed"]
  /\ looking' = {} /\ registry' = {} /\ wire' = {} /\ due' = {} /\ tx' = None
  /\ lost' = IF tx = None THEN lost ELSE lost \cup {tx.push}
  /\ req' = [s \in Sockets |-> None]
  /\ UNCHANGED <<user, rowVars, pushes, shown>>

-----------------------------------------------------------------------------
SocketStep(s) ==
  \/ \E u \in Users : HandleConnection(s, u)
  \/ Accepted(s) \/ Refused(s) \/ HandleDisconnect(s)

RouteStep(s) ==
  \/ FindAllForUser(s) \/ MarkAsRead(s) \/ MarkAllAsRead(s)
  \/ \E n \in shown[s] : FindToMark(s, n)

Next ==
  \/ \E s \in Sockets : SocketStep(s) \/ RouteStep(s)
  \/ \E p \in wire : Deliver(p)
  \/ \E to \in SUBSET Users : CreateAndBroadcast(to)
  \/ Commit \/ Fail \/ Restart

Spec == Init /\ [][Next]_vars

\* An emitted packet arrives, a transaction ends, a lookup returns.
Fairness ==
  /\ WF_vars(\E p \in wire : Deliver(p))
  /\ WF_vars(Commit \/ Fail)
  /\ \A s \in Sockets : WF_vars(Accepted(s) \/ Refused(s))

FairSpec == Spec /\ Fairness

-----------------------------------------------------------------------------
(* Properties. *)

\* The registry is complete and hardly larger than it should be: a tab that is
\* open and accepted is in it, under its own user; what it holds besides is a
\* socket that was closed while its user was looked up, when handleDisconnect
\* had nothing yet to delete.
RegistryAccurate ==
  /\ \A s \in Sockets : Listening(s) => <<user[s], s>> \in registry
  /\ \A p \in registry : p[1] = user[p[2]] /\ link[p[2]] \in {"open", "early"}

\* What a tab displays is a notification addressed to its user that is stored,
\* or about to be, under that id: only a push whose transaction did not commit
\* is false (and its id is given to another notification later).
ShownIsAddressed ==
  \A s \in Sockets : \A n \in shown[s] :
    \/ n.push \in lost
    \/ tx # None /\ tx.id = n.id /\ tx.push = n.push /\ user[s] \in tx.to
    \/ /\ n.id \in 1..Len(notes) /\ notes[n.id] = n.push
       /\ <<n.id, user[s]>> \in status

\* What was read keeps the time it was read, except from a markAsRead that had
\* looked before: two calls that both found the notification unread both
\* succeed, and the later one moves the time; a call that begins after the
\* marking, markAllAsRead too, does not ("already marked as read").
ReadOnce ==
  [][\A r \in status : readAt[r] # 0 /\ readAt'[r] # readAt[r] =>
       \E s \in Sockets : /\ req[s] # None /\ req'[s] = None
                          /\ req[s].n.id = r[1] /\ user[s] = r[2]
                          /\ req[s].at < readAt[r]]_vars

\* Every tab of a recipient that is connected when the notification is stored
\* displays it, unless its connection ends.
PushArrives ==
  \A s \in Sockets, k \in 1..MaxPushes :
    <<s, k>> \in due ~> (\E n \in shown[s] : n.push = k) \/ link[s] # "open"
=============================================================================
