------------------------ MODULE Notifications_proofs ------------------------
(***************************************************************************)
(* What holds of Notifications for all sets of users, sockets and tokens,  *)
(* and all bounds.                                                         *)
(*                                                                         *)
(* The argument: a socket that was never connected is known nowhere, and   *)
(* one whose lookup is awaited is not registered yet, so what the registry *)
(* has was put there for the socket's only user.  What a packet or a       *)
(* display shows was addressed when it was pushed, and stays so until the  *)
(* transaction is lost.                                                    *)
(***************************************************************************)
EXTENDS Notifications, TLAPS

\* A socket that has not connected is known nowhere; the others have a user.
NewHasNothing ==
  \A s \in Sockets :
    /\ link[s] = "new" => /\ user[s] = None /\ shown[s] = {} /\ req[s] = None
                          /\ \A p \in wire : p[1] # s
                          /\ \A p \in registry : p[2] # s
    /\ link[s] # "new" => user[s] # None

\* A lookup is awaited for a socket that was opened and is not yet registered.
LookingOpen ==
  \A s \in looking : link[s] \in {"open", "early"} /\ \A p \in registry : p[2] # s

\* The transaction under way has the table's next id.
TxNext ==
  /\ tx # None => tx.id = Len(notes) + 1 /\ Len(notes) < pushes
  /\ clock <= MaxReads

Addressed(s, n) ==
  \/ n.push \in lost
  \/ tx # None /\ tx.id = n.id /\ tx.push = n.push /\ user[s] \in tx.to
  \/ n.id \in 1..Len(notes) /\ notes[n.id] = n.push /\ <<n.id, user[s]>> \in status
\* So is what is on its way to a tab.
WireAddressed == \A p \in wire : Addressed(p[1], p[2])

\* What a markAsRead found was unread, and is, or was read since.
RequestsKnow ==
  \A s \in Sockets : req[s] # None =>
    /\ req[s].at <= clock
    /\ LET r == <<req[s].n.id, user[s]>> IN readAt[r] = 0 \/ req[s].at < readAt[r]

IInv == /\ TypeOK /\ NewHasNothing /\ LookingOpen /\ TxNext /\ RegistryAccurate
        /\ WireAddressed /\ ShownIsAddressed /\ RequestsKnow

-----------------------------------------------------------------------------
(* Records and the transaction's steps. *)

LEMMA NotificationShape ==
  ASSUME NEW n \in Notification
  PROVE  n.id \in 1..MaxPushes /\ n.push \in 1..MaxPushes
  BY DEF Notification

LEMMA TransactionThere ==
  ASSUME TypeOK, tx # None
  PROVE  tx.id \in 1..MaxPushes /\ tx.push \in 1..MaxPushes /\ tx.to \subseteq Users
  BY DEF TypeOK, Transaction

LEMMA RequestThere ==
  ASSUME TypeOK, NEW s \in Sockets, req[s] # None
  PROVE  req[s].n \in Notification /\ req[s].at \in 0..MaxReads
  BY DEF TypeOK, Request

\* What CreateAndBroadcast makes of the state.
LEMMA Broadcasts ==
  ASSUME TypeOK, NEW to \in SUBSET Users, CreateAndBroadcast(to)
  PROVE  /\ tx = None /\ pushes' = pushes + 1 /\ pushes' \in 1..MaxPushes
         /\ tx' \in Transaction /\ tx'.id = Len(notes) + 1 /\ tx'.push = pushes' /\ tx'.to = to
         /\ \A p \in wire' : p \in wire \/
              \E u \in to : <<u, p[1]>> \in registry /\ p[1] \in Sockets /\ p[2] \in Notification
                             /\ p = <<p[1], p[2]>> /\ p[2].id = tx'.id /\ p[2].push = pushes'
         /\ due' \subseteq Sockets \X (1..MaxPushes)
         /\ UNCHANGED <<socketVars, rowVars, lost, shown, req>>
  <1> DEFINE n == [id |-> Len(notes) + 1, push |-> pushes + 1]
             t == [id |-> n.id, push |-> n.push, to |-> to]
  <1>1. /\ tx = None /\ pushes < MaxPushes /\ pushes' = pushes + 1
        /\ tx' = t /\ wire' = wire \cup SendNotification(n, to)
        /\ due' = due \cup {<<s, n.push>> : s \in {x \in Sockets : Listening(x) /\ user[x] \in to}}
        /\ UNCHANGED <<socketVars, rowVars, lost, shown, req>>
    BY DEF CreateAndBroadcast
  <1>2. /\ pushes \in 0..MaxPushes /\ Len(notes) \in Nat /\ Len(notes) <= pushes
        /\ registry \subseteq Users \X Sockets /\ due \subseteq Sockets \X (1..MaxPushes)
    BY DEF TypeOK
  <1>3. pushes + 1 \in 1..MaxPushes /\ Len(notes) + 1 \in 1..MaxPushes
    BY <1>1, <1>2, BoundAssumption
  <1>4. n \in Notification /\ n.id = Len(notes) + 1 /\ n.push = pushes + 1
    BY <1>3 DEF Notification
  <1>5. t \in Transaction /\ t.id = Len(notes) + 1 /\ t.push = pushes + 1 /\ t.to = to
    BY <1>3 DEF Transaction
  <1> HIDE DEF n, t
  <1>6. ASSUME NEW p \in SendNotification(n, to)
        PROVE  \E u \in to : <<u, p[1]>> \in registry /\ p[1] \in Sockets /\ p = <<p[1], n>> /\ p[2] = n
    <2>1. PICK x \in registry : x[1] \in to /\ p = <<x[2], n>>
      BY <1>6 DEF SendNotification
    <2>2. x = <<x[1], x[2]>> /\ x[2] \in Sockets
      BY <1>2, <2>1
    <2> QED
      BY <2>1, <2>2
  <1>7. due' \subseteq Sockets \X (1..MaxPushes)
    BY <1>1, <1>2, <1>3, <1>4
  <1>8. ASSUME NEW p \in wire', p \notin wire
        PROVE  \E u \in to : <<u, p[1]>> \in registry /\ p[1] \in Sockets /\ p[2] \in Notification
                              /\ p = <<p[1], p[2]>> /\ p[2].id = tx'.id /\ p[2].push = pushes'
    <2>1. p \in SendNotification(n, to)
      BY <1>1, <1>8
    <2>2. PICK u \in to : <<u, p[1]>> \in registry /\ p[1] \in Sockets /\ p = <<p[1], n>> /\ p[2] = n
      BY <2>1, <1>6
    <2> QED
      BY <2>2, <1>1, <1>4, <1>5
  <1> QED
    BY <1>1, <1>3, <1>5, <1>7, <1>8

-----------------------------------------------------------------------------
(* Type correctness. *)

Typed == TypeOK /\ NewHasNothing /\ LookingOpen /\ TxNext

LEMMA TypedInit == Init => Typed
  <1> SUFFICES ASSUME Init
               PROVE  Typed
    OBVIOUS
  <1>1. pushes \in 0..MaxPushes /\ notes \in Seq(1..MaxPushes) /\ Len(notes) <= pushes /\ clock <= MaxReads
    BY BoundAssumption DEF Init
  <1> QED
    BY <1>1 DEF Init, Typed, TypeOK, NewHasNothing, LookingOpen, TxNext

\* The gateway's steps change the sockets' state and drop packets.
LEMMA SocketTyped ==
  ASSUME Typed, NEW s \in Sockets, SocketStep(s)
  PROVE  Typed'
  <1> USE DEF Typed
  <1>0. /\ user \in [Sockets -> Users \cup {None}]
        /\ link \in [Sockets -> {"new", "open", "closed", "early"}]
        /\ looking \subseteq Sockets /\ registry \subseteq Users \X Sockets
        /\ wire \subseteq Sockets \X Notification /\ due \subseteq Sockets \X (1..MaxPushes)
    BY DEF TypeOK
  <1>1. ASSUME NEW u \in Users, HandleConnection(s, u)
        PROVE  Typed'
    <2>1. TypeOK' /\ TxNext'
      BY <1>0, <1>1 DEF HandleConnection, TypeOK, TxNext, rowVars, pushVars
    <2>2. NewHasNothing'
      BY <1>0, <1>1, NoneAssumption DEF HandleConnection, NewHasNothing, rowVars, pushVars
    <2>3. LookingOpen'
      BY <1>0, <1>1 DEF HandleConnection, LookingOpen, NewHasNothing
    <2> QED
      BY <2>1, <2>2, <2>3
  <1>2. CASE Accepted(s)
    <2>1. user[s] \in Users /\ link[s] # "new"
      BY <1>0, <1>2 DEF Accepted, LookingOpen, NewHasNothing
    <2>2. registry' = registry \cup {<<user[s], s>>}
      BY <1>2 DEF Accepted, Register
    <2>3. TypeOK' /\ TxNext'
      BY <1>0, <1>2, <2>1, <2>2 DEF Accepted, TypeOK, TxNext, rowVars, pushVars
    <2>4. NewHasNothing'
      BY <1>0, <1>2, <2>1, <2>2 DEF Accepted, NewHasNothing, rowVars, pushVars
    <2>5. LookingOpen'
      BY <1>0, <1>2, <2>2 DEF Accepted, LookingOpen
    <2> QED
      BY <2>3, <2>4, <2>5
  <1>3. CASE Refused(s)
    <2>1. TypeOK' /\ TxNext'
      BY <1>0, <1>3 DEF Refused, DropPackets, TypeOK, TxNext, rowVars
    <2>2. NewHasNothing'
      BY <1>0, <1>3 DEF Refused, DropPackets, NewHasNothing, LookingOpen
    <2>3. LookingOpen'
      BY <1>0, <1>3 DEF Refused, LookingOpen
    <2> QED
      BY <2>1, <2>2, <2>3
  <1>4. CASE HandleDisconnect(s)
    <2>1. TypeOK' /\ TxNext'
      BY <1>0, <1>4 DEF HandleDisconnect, Close, Unregister, DropPackets, TypeOK, TxNext, rowVars
    <2>2. NewHasNothing'
      BY <1>0, <1>4 DEF HandleDisconnect, Close, Unregister, DropPackets, NewHasNothing
    <2>3. LookingOpen'
      BY <1>0, <1>4 DEF HandleDisconnect, Close, Unregister, LookingOpen
    <2> QED
      BY <2>1, <2>2, <2>3
  <1> QED
    BY <1>1, <1>2, <1>3, <1>4 DEF SocketStep

\* Every step but the gateway's keeps what the sockets are.
LEMMA SocketsStay ==
  ASSUME Typed, UNCHANGED socketVars, shown' \in [Sockets -> SUBSET Notification],
         \A s \in Sockets : link[s] = "new" => shown'[s] = {} /\ req'[s] = None,
         \A p \in wire' : p \in wire \/ <<user[p[1]], p[1]>> \in registry
  PROVE  NewHasNothing' /\ LookingOpen'
  <1> USE DEF Typed, socketVars
  <1>1. LookingOpen'
    BY DEF LookingOpen
  <1>2. ASSUME NEW s \in Sockets, link[s] = "new", NEW p \in wire'
        PROVE  p[1] # s
    <2>1. p \in wire => p[1] # s
      BY <1>2 DEF NewHasNothing
    <2>2. ASSUME <<user[p[1]], p[1]>> \in registry
          PROVE  p[1] # s
      <3>1. \A x \in registry : x[2] # s
        BY <1>2 DEF NewHasNothing
      <3>2. <<user[p[1]], p[1]>>[2] # s
        BY <2>2, <3>1
      <3> QED
        BY <3>2
    <2> QED
      BY <2>1, <2>2
  <1>3. NewHasNothing'
    BY <1>2 DEF NewHasNothing
  <1> QED
    BY <1>1, <1>3

LEMMA StoreTyped ==
  ASSUME Typed, RegistryAccurate,
         (\E to \in SUBSET Users : CreateAndBroadcast(to)) \/ Commit \/ Fail
  PROVE  Typed'
  <1> USE DEF Typed
  <1>0. /\ notes \in Seq(1..MaxPushes) /\ Len(notes) <= pushes /\ Len(notes) \in Nat
        /\ pushes \in 0..MaxPushes /\ status \subseteq (1..MaxPushes) \X Users
        /\ lost \subseteq 1..MaxPushes /\ wire \subseteq Sockets \X Notification
        /\ registry \subseteq Users \X Sockets
        /\ shown \in [Sockets -> SUBSET Notification]
    BY DEF TypeOK
  <1>1. ASSUME NEW to \in SUBSET Users, CreateAndBroadcast(to)
        PROVE  Typed'
    <2>1. /\ tx = None /\ pushes' = pushes + 1 /\ pushes' \in 1..MaxPushes
          /\ tx' \in Transaction /\ tx'.id = Len(notes) + 1
          /\ due' \subseteq Sockets \X (1..MaxPushes)
          /\ UNCHANGED <<socketVars, rowVars, lost, shown, req>>
      BY <1>1, Broadcasts
    <2>2. \A p \in wire' : p \in wire \/ (p \in Sockets \X Notification /\ <<user[p[1]], p[1]>> \in registry)
      <3>1. \A p \in wire' : p \in wire \/
              \E u \in to : <<u, p[1]>> \in registry /\ p[1] \in Sockets /\ p[2] \in Notification
                             /\ p = <<p[1], p[2]>>
        BY <1>1, Broadcasts
      <3>2. ASSUME NEW u \in to, NEW x, <<u, x>> \in registry
            PROVE  <<user[x], x>> \in registry
        <4>1. <<u, x>>[1] = user[<<u, x>>[2]]
          BY <3>2 DEF RegistryAccurate
        <4> QED
          BY <3>2, <4>1
      <3>3. ASSUME NEW p \in wire', p \notin wire
            PROVE  p \in Sockets \X Notification /\ <<user[p[1]], p[1]>> \in registry
        <4>1. PICK u \in to : <<u, p[1]>> \in registry /\ p[1] \in Sockets /\ p[2] \in Notification
                             /\ p = <<p[1], p[2]>>
          BY <3>1, <3>3
        <4>2. <<user[p[1]], p[1]>> \in registry
          BY <3>2, <4>1
        <4>3. p \in Sockets \X Notification
          BY <4>1
        <4> QED
          BY <4>2, <4>3
      <3> QED
        BY <3>3
    <2>3. TypeOK'
      <3>1. wire' \subseteq Sockets \X Notification
        BY <1>0, <2>2
      <3>2. pushes' \in 0..MaxPushes /\ Len(notes) <= pushes'
        BY <1>0, <2>1
      <3> QED
        BY <2>1, <3>1, <3>2 DEF TypeOK, socketVars, rowVars
    <2>4. TxNext'
      BY <1>0, <2>1 DEF TxNext, rowVars
    <2>5. NewHasNothing' /\ LookingOpen'
      BY <1>0, <2>1, <2>2, SocketsStay DEF NewHasNothing
    <2> QED
      BY <2>3, <2>4, <2>5
  <1>2. CASE Commit
    <2>1. tx # None /\ tx.push \in 1..MaxPushes /\ tx.id \in 1..MaxPushes /\ tx.to \subseteq Users
      BY <1>2, TransactionThere DEF Commit
    <2>2. notes' \in Seq(1..MaxPushes) /\ Len(notes') = Len(notes) + 1
      BY <1>0, <1>2, <2>1 DEF Commit
    <2>3. Len(notes') <= pushes /\ status' \subseteq (1..MaxPushes) \X Users
      BY <1>0, <1>2, <2>1, <2>2 DEF Commit, TxNext
    <2>4. TypeOK' /\ TxNext'
      BY <1>2, <2>2, <2>3 DEF Commit, TypeOK, TxNext, socketVars
    <2>5. NewHasNothing' /\ LookingOpen'
      BY <1>0, <1>2, SocketsStay DEF Commit, NewHasNothing
    <2> QED
      BY <2>4, <2>5
  <1>3. CASE Fail
    <2>1. tx # None /\ tx.push \in 1..MaxPushes
      BY <1>3, TransactionThere DEF Fail
    <2>2. TypeOK' /\ TxNext'
      BY <1>3, <2>1 DEF Fail, TypeOK, TxNext, socketVars, rowVars
    <2>3. NewHasNothing' /\ LookingOpen'
      BY <1>0, <1>3, SocketsStay DEF Fail, NewHasNothing
    <2> QED
      BY <2>2, <2>3
  <1> QED
    BY <1>1, <1>2, <1>3

LEMMA RouteTyped ==
  ASSUME Typed, NEW s \in Sockets, RouteStep(s) \/ \E p \in wire : Deliver(p)
  PROVE  Typed'
  <1> USE DEF Typed
  <1>0. /\ shown \in [Sockets -> SUBSET Notification] /\ req \in [Sockets -> Request \cup {None}]
        /\ notes \in Seq(1..MaxPushes) /\ Len(notes) \in Nat /\ Len(notes) <= pushes
        /\ pushes \in 0..MaxPushes /\ clock \in Nat /\ clock <= MaxReads
        /\ wire \subseteq Sockets \X Notification /\ due \subseteq Sockets \X (1..MaxPushes)
        /\ readAt \in [(1..MaxPushes) \X Users -> Nat]
    BY DEF TypeOK, TxNext
  <1>1. ASSUME NEW p \in wire, Deliver(p)
        PROVE  Typed'
    <2>1. p[1] \in Sockets /\ p[2] \in Notification /\ link[p[1]] # "new"
      BY <1>0 DEF NewHasNothing
    <2>2. shown' \in [Sockets -> SUBSET Notification] /\ \A x \in Sockets \ {p[1]} : shown'[x] = shown[x]
      BY <1>0, <1>1, <2>1 DEF Deliver
    <2>3. wire' \subseteq wire /\ due' \subseteq due
      BY <1>1 DEF Deliver
    <2>4. UNCHANGED <<socketVars, rowVars, tx, pushes, lost, req>>
      BY <1>1 DEF Deliver
    <2>5. TypeOK' /\ TxNext'
      BY <2>2, <2>3, <2>4 DEF TypeOK, TxNext, socketVars, rowVars
    <2>6. NewHasNothing' /\ LookingOpen'
      BY <2>1, <2>2, <2>3, <2>4, SocketsStay DEF NewHasNothing
    <2> QED
      BY <2>5, <2>6
  <1>2. CASE FindAllForUser(s)
    <2> DEFINE list == {[id |-> i, push |-> notes[i]] : i \in {x \in 1..Len(notes) : <<x, user[s]>> \in status}}
    <2>1. ASSUME NEW i \in 1..Len(notes)
          PROVE  i \in 1..MaxPushes /\ notes[i] \in 1..MaxPushes
      BY <1>0, BoundAssumption
    <2>2. list \subseteq Notification
      <3>1. \A i \in 1..Len(notes) : [id |-> i, push |-> notes[i]] \in Notification
        BY <2>1 DEF Notification
      <3> QED
        BY <3>1
    <2>4. shown' = [shown EXCEPT ![s] = list] /\ UNCHANGED <<socketVars, rowVars, pushVars, req>>
      BY <1>2 DEF FindAllForUser
    <2> HIDE DEF list
    <2>5. shown' \in [Sockets -> SUBSET Notification] /\ \A x \in Sockets \ {s} : shown'[x] = shown[x]
      BY <1>0, <2>2, <2>4
    <2>6. TypeOK' /\ TxNext'
      BY <2>4, <2>5 DEF TypeOK, TxNext, socketVars, rowVars, pushVars
    <2>7. link[s] # "new"
      BY <1>2 DEF FindAllForUser, NewHasNothing
    <2>8. NewHasNothing' /\ LookingOpen'
      BY <2>4, <2>5, <2>7, SocketsStay DEF NewHasNothing, pushVars
    <2> QED
      BY <2>6, <2>8
  <1>3. ASSUME NEW n \in shown[s], FindToMark(s, n)
        PROVE  Typed'
    <2>1. n \in Notification /\ link[s] # "new"
      BY <1>0, <1>3 DEF NewHasNothing
    <2>2. [n |-> n, at |-> clock] \in Request
      BY <1>0, <2>1, BoundAssumption DEF Request
    <2>3. req' \in [Sockets -> Request \cup {None}] /\ \A x \in Sockets \ {s} : req'[x] = req[x]
      BY <1>0, <1>3, <2>2 DEF FindToMark
    <2>4. TypeOK' /\ TxNext'
      BY <1>3, <2>3 DEF FindToMark, TypeOK, TxNext, socketVars, rowVars, pushVars
    <2>5. NewHasNothing' /\ LookingOpen'
      BY <1>0, <1>3, <2>1, <2>3, SocketsStay DEF FindToMark, NewHasNothing, pushVars
    <2> QED
      BY <2>4, <2>5
  <1>4. ASSUME NEW rows, Mark(rows), req' \in [Sockets -> Request \cup {None}],
               \A x \in Sockets : req'[x] \in {req[x], None}
        PROVE  Typed'
    <2>1. clock + 1 \in Nat /\ clock + 1 <= MaxReads
      BY <1>0, <1>4, BoundAssumption DEF Mark
    <2>2. readAt' \in [(1..MaxPushes) \X Users -> Nat] /\ clock' = clock + 1
      BY <1>0, <1>4, <2>1 DEF Mark
    <2>3. UNCHANGED <<socketVars, notes, status, pushVars, shown>>
      BY <1>4 DEF Mark
    <2>4. TypeOK' /\ TxNext'
      BY <1>4, <2>1, <2>2, <2>3 DEF TypeOK, TxNext, socketVars, pushVars
    <2>5. NewHasNothing' /\ LookingOpen'
      BY <1>0, <1>4, <2>3, SocketsStay DEF NewHasNothing, pushVars
    <2> QED
      BY <2>4, <2>5
  <1>5. CASE MarkAsRead(s)
    BY <1>0, <1>4, <1>5 DEF MarkAsRead
  <1>6. CASE MarkAllAsRead(s)
    BY <1>0, <1>4, <1>6 DEF MarkAllAsRead
  <1> QED
    BY <1>1, <1>2, <1>3, <1>5, <1>6 DEF RouteStep

LEMMA RestartTyped ==
  ASSUME Typed, Restart
  PROVE  Typed'
  <1> USE DEF Typed
  <1>1. tx # None => tx.push \in 1..MaxPushes
    BY TransactionThere
  <1>2. lost' \subseteq 1..MaxPushes
    BY <1>1 DEF Restart, TypeOK
  <1>3. TypeOK' /\ TxNext'
    BY <1>2 DEF Restart, TypeOK, TxNext, rowVars
  <1>4. NewHasNothing' /\ LookingOpen'
    BY DEF Restart, TypeOK, NewHasNothing, LookingOpen
  <1> QED
    BY <1>3, <1>4

LEMMA TypedStep ==
  ASSUME Typed, RegistryAccurate, [Next]_vars
  PROVE  Typed'
  <1>1. CASE UNCHANGED vars
    BY <1>1 DEF Typed, TypeOK, NewHasNothing, LookingOpen, TxNext, vars, socketVars, rowVars, pushVars
  <1>2. CASE \E p \in wire : Deliver(p)
    <2>1. PICK p \in wire : Deliver(p)
      BY <1>2
    <2>2. p[1] \in Sockets
      BY DEF Typed, TypeOK
    <2> QED
      BY <1>2, <2>2, RouteTyped
  <1> QED
    BY <1>1, <1>2, SocketTyped, RouteTyped, StoreTyped, RestartTyped DEF Next

-----------------------------------------------------------------------------
(* The registry. *)

LEMMA RegistryStep ==
  ASSUME Typed, RegistryAccurate, [Next]_vars
  PROVE  RegistryAccurate'
  <1> USE DEF RegistryAccurate, Listening
  <1>0. /\ user \in [Sockets -> Users \cup {None}]
        /\ link \in [Sockets -> {"new", "open", "closed", "early"}]
        /\ looking \subseteq Sockets /\ registry \subseteq Users \X Sockets
    BY DEF Typed, TypeOK
  <1>1. CASE UNCHANGED socketVars
    BY <1>1 DEF socketVars
  <1>2. ASSUME NEW s \in Sockets, NEW u \in Users, HandleConnection(s, u)
        PROVE  RegistryAccurate'
    <2>1. \A p \in registry : p[2] # s /\ p[2] \in Sockets
      BY <1>0, <1>2 DEF HandleConnection, Typed, NewHasNothing
    <2> QED
      BY <1>0, <1>2, <2>1 DEF HandleConnection
  <1>3. ASSUME NEW s \in Sockets, Accepted(s)
        PROVE  RegistryAccurate'
    <2>1. /\ s \in looking /\ looking' = looking \ {s} /\ UNCHANGED <<user, link>>
          /\ registry' = registry \cup {<<user[s], s>>} /\ link[s] \in {"open", "early"}
      BY <1>3 DEF Accepted, Register, Typed, LookingOpen
    <2> QED
      BY <1>0, <2>1
  <1>4. ASSUME NEW s \in Sockets, Refused(s)
        PROVE  RegistryAccurate'
    <2>1. \A p \in registry : p[2] # s /\ p[2] \in Sockets
      BY <1>0, <1>4 DEF Refused, Typed, LookingOpen
    <2> QED
      BY <1>0, <1>4, <2>1 DEF Refused
  <1>5. ASSUME NEW s \in Sockets, HandleDisconnect(s)
        PROVE  RegistryAccurate'
    BY <1>0, <1>5 DEF HandleDisconnect, Close, Unregister
  <1>6. CASE Restart
    BY <1>0, <1>6 DEF Restart
  <1>7. ASSUME NEW s \in Sockets, RouteStep(s)
        PROVE  UNCHANGED socketVars
    BY <1>7 DEF RouteStep, FindAllForUser, MarkAsRead, MarkAllAsRead, Mark, FindToMark
  <1>8. ASSUME NEW p \in wire, Deliver(p)
        PROVE  UNCHANGED socketVars
    BY <1>8 DEF Deliver
  <1>9. ASSUME NEW to \in SUBSET Users, CreateAndBroadcast(to)
        PROVE  UNCHANGED socketVars
    BY <1>9 DEF CreateAndBroadcast
  <1>10. Commit \/ Fail \/ UNCHANGED vars => UNCHANGED socketVars
    BY DEF Commit, Fail, vars
  <1> HIDE DEF RegistryAccurate
  <1> QED
    BY <1>1, <1>2, <1>3, <1>4, <1>5, <1>6, <1>7, <1>8, <1>9, <1>10 DEF Next, SocketStep

-----------------------------------------------------------------------------
(* What is shown was addressed. *)

\* No step takes the address from a notification, for a tab that has a user.
LEMMA AddressedStays ==
  ASSUME Typed, [Next]_vars, NEW s \in Sockets, user'[s] = user[s], NEW n, Addressed(s, n)
  PROVE  Addressed(s, n)'
  <1> USE DEF Addressed
  <1>0. Len(notes) \in Nat /\ notes \in Seq(1..MaxPushes)
    BY DEF Typed, TypeOK
  <1>1. CASE UNCHANGED <<notes, status, lost, tx>>
    BY <1>1
  <1>2. CASE Commit
    <2>1. /\ tx # None /\ notes' = Append(notes, tx.push) /\ lost' = lost
          /\ status' = status \cup ({tx.id} \X tx.to) /\ tx.id = Len(notes) + 1
      BY <1>2 DEF Commit, Typed, TxNext
    <2>2. /\ Len(notes') = Len(notes) + 1 /\ notes'[Len(notes) + 1] = tx.push
          /\ \A i \in 1..Len(notes) : notes'[i] = notes[i]
      BY <1>0, <2>1
    <2>3. CASE n.push \in lost
      BY <2>1, <2>3
    <2>4. CASE tx.id = n.id /\ tx.push = n.push /\ user[s] \in tx.to
      <3>1. n.id \in 1..Len(notes') /\ notes'[n.id] = n.push
        BY <1>0, <2>1, <2>2, <2>4
      <3>2. <<n.id, user'[s]>> \in status'
        BY <2>1, <2>4
      <3> QED
        BY <3>1, <3>2
    <2>5. CASE n.id \in 1..Len(notes) /\ notes[n.id] = n.push /\ <<n.id, user[s]>> \in status
      BY <1>0, <2>1, <2>2, <2>5
    <2> QED
      BY <2>3, <2>4, <2>5
  <1>3. CASE Fail
    BY <1>3 DEF Fail, rowVars
  <1>4. CASE Restart
    BY <1>4 DEF Restart, rowVars
  <1>5. ASSUME NEW to \in SUBSET Users, CreateAndBroadcast(to)
        PROVE  Addressed(s, n)'
    BY <1>5 DEF CreateAndBroadcast, rowVars
  <1>6. ASSUME NEW x \in Sockets, SocketStep(x)
        PROVE  UNCHANGED <<notes, status, lost, tx>>
    BY <1>6 DEF SocketStep, HandleConnection, Accepted, Refused, HandleDisconnect, rowVars, pushVars
  <1>7. ASSUME NEW x \in Sockets, RouteStep(x)
        PROVE  UNCHANGED <<notes, status, lost, tx>>
    BY <1>7 DEF RouteStep, FindAllForUser, MarkAsRead, MarkAllAsRead, Mark, FindToMark, rowVars, pushVars
  <1>8. ASSUME NEW p \in wire, Deliver(p)
        PROVE  UNCHANGED <<notes, status, lost, tx>>
    BY <1>8 DEF Deliver, rowVars
  <1>9. UNCHANGED vars => UNCHANGED <<notes, status, lost, tx>>
    BY DEF vars, rowVars, pushVars
  <1> HIDE DEF Addressed
  <1> QED
    BY <1>1, <1>2, <1>3, <1>4, <1>5, <1>6, <1>7, <1>8, <1>9 DEF Next

LEMMA UsersStay ==
  ASSUME Typed, [Next]_vars, NEW s \in Sockets, link[s] # "new"
  PROVE  user'[s] = user[s]
  <1>1. ASSUME NEW x \in Sockets, NEW u \in Users, HandleConnection(x, u)
        PROVE  user'[s] = user[s]
    BY <1>1 DEF HandleConnection, Typed, TypeOK
  <1>2. ASSUME NEW x \in Sockets, Accepted(x) \/ Refused(x) \/ HandleDisconnect(x) \/ RouteStep(x)
        PROVE  UNCHANGED user
    BY <1>2 DEF Accepted, Refused, HandleDisconnect, RouteStep, FindAllForUser, MarkAsRead,
                MarkAllAsRead, Mark, FindToMark, socketVars
  <1>3. ASSUME NEW p \in wire, Deliver(p)
        PROVE  UNCHANGED user
    BY <1>3 DEF Deliver, socketVars
  <1>4. ASSUME NEW to \in SUBSET Users, CreateAndBroadcast(to)
        PROVE  UNCHANGED user
    BY <1>4 DEF CreateAndBroadcast, socketVars
  <1>5. Commit \/ Fail \/ Restart \/ UNCHANGED vars => UNCHANGED user
    BY DEF Commit, Fail, Restart, vars, socketVars
  <1> QED
    BY <1>1, <1>2, <1>3, <1>4, <1>5 DEF Next, SocketStep

LEMMA WireStep ==
  ASSUME Typed, RegistryAccurate, WireAddressed, [Next]_vars
  PROVE  WireAddressed'
  <1>0. wire \subseteq Sockets \X Notification /\ registry \subseteq Users \X Sockets
    BY DEF Typed, TypeOK
  <1>1. ASSUME NEW p \in wire
        PROVE  Addressed(p[1], p[2])'
    <2>1. p[1] \in Sockets /\ link[p[1]] # "new"
      BY <1>0 DEF Typed, NewHasNothing
    <2>2. user'[p[1]] = user[p[1]]
      BY <2>1, UsersStay
    <2> QED
      BY <2>1, <2>2, AddressedStays DEF WireAddressed
  <1>2. ASSUME NEW to \in SUBSET Users, CreateAndBroadcast(to), NEW p \in wire', p \notin wire
        PROVE  Addressed(p[1], p[2])'
    <2>1. /\ tx'.to = to /\ tx'.push = pushes' /\ tx' \in Transaction /\ UNCHANGED socketVars
      BY <1>2, Broadcasts DEF Typed
    <2>2. PICK u \in to : <<u, p[1]>> \in registry /\ p[2].id = tx'.id /\ p[2].push = pushes'
      BY <1>2, Broadcasts DEF Typed
    <2>3. u = user[p[1]]
      <3>1. <<u, p[1]>>[1] = user[<<u, p[1]>>[2]]
        BY <2>2 DEF RegistryAccurate
      <3> QED
        BY <3>1
    <2>4. tx' # None /\ user'[p[1]] \in tx'.to
      BY <2>1, <2>2, <2>3, NoRecordAssumption DEF socketVars
    <2> QED
      BY <2>1, <2>2, <2>4 DEF Addressed
  <1>3. ASSUME NEW s \in Sockets, SocketStep(s) \/ RouteStep(s)
        PROVE  wire' \subseteq wire
    BY <1>3 DEF SocketStep, HandleConnection, Accepted, Refused, HandleDisconnect, DropPackets,
                RouteStep, FindAllForUser, MarkAsRead, MarkAllAsRead, Mark, FindToMark, pushVars
  <1>4. ASSUME NEW p \in wire, Deliver(p)
        PROVE  wire' \subseteq wire
    BY <1>4 DEF Deliver
  <1>5. Commit \/ Fail \/ Restart \/ UNCHANGED vars => wire' \subseteq wire
    BY DEF Commit, Fail, Restart, vars, pushVars
  <1>6. CASE wire' \subseteq wire
    BY <1>1, <1>6 DEF WireAddressed
  <1>7. CASE \E to \in SUBSET Users : CreateAndBroadcast(to)
    BY <1>1, <1>2, <1>7 DEF WireAddressed
  <1> QED
    BY <1>3, <1>4, <1>5, <1>6, <1>7 DEF Next

LEMMA ShownStep ==
  ASSUME Typed, RegistryAccurate, WireAddressed, ShownIsAddressed, [Next]_vars
  PROVE  ShownIsAddressed'
  <1>0. /\ shown \in [Sockets -> SUBSET Notification] /\ wire \subseteq Sockets \X Notification
        /\ Len(notes) \in Nat
    BY DEF Typed, TypeOK
  <1>1. ASSUME NEW s \in Sockets, NEW n \in shown[s]
        PROVE  Addressed(s, n)'
    <2>1. user'[s] = user[s]
      BY <1>1, UsersStay DEF Typed, NewHasNothing
    <2>2. Addressed(s, n)
      BY <1>1 DEF ShownIsAddressed, Addressed
    <2> QED
      BY <2>1, <2>2, AddressedStays
  <1>2. ASSUME NEW s \in Sockets, NEW n \in shown'[s], n \notin shown[s]
        PROVE  Addressed(s, n)'
    <2>1. ASSUME NEW p \in wire, Deliver(p)
          PROVE  Addressed(s, n)'
      <3>1. p[1] \in Sockets /\ link[p[1]] # "new" /\ user'[p[1]] = user[p[1]]
        BY <1>0, UsersStay DEF Typed, NewHasNothing
      <3>2. s = p[1] /\ n = p[2]
        BY <1>0, <1>2, <2>1, <3>1 DEF Deliver
      <3>3. Addressed(p[1], p[2])
        BY <2>1 DEF WireAddressed
      <3> QED
        BY <3>1, <3>2, <3>3, AddressedStays
    <2>2. ASSUME NEW x \in Sockets, FindAllForUser(x)
          PROVE  Addressed(s, n)'
      <3> DEFINE list == {[id |-> i, push |-> notes[i]] :
                            i \in {y \in 1..Len(notes) : <<y, user[x]>> \in status}}
      <3>1. shown' = [shown EXCEPT ![x] = list] /\ UNCHANGED <<user, notes, status>>
        BY <2>2 DEF FindAllForUser, socketVars, rowVars
      <3>2. s = x /\ n \in list
        BY <1>0, <1>2, <3>1
      <3>3. PICK i \in 1..Len(notes) : <<i, user[x]>> \in status /\ n = [id |-> i, push |-> notes[i]]
        BY <3>2
      <3>4. n.id = i /\ n.push = notes[i]
        BY <3>3
      <3> QED
        BY <3>1, <3>2, <3>3, <3>4 DEF Addressed
    <2>3. ASSUME NEW x \in Sockets,
                 SocketStep(x) \/ MarkAsRead(x) \/ MarkAllAsRead(x) \/ \E m \in shown[x] : FindToMark(x, m)
          PROVE  UNCHANGED shown
      BY <2>3 DEF SocketStep, HandleConnection, Accepted, Refused, HandleDisconnect,
                  MarkAsRead, MarkAllAsRead, Mark, FindToMark
    <2>4. ASSUME NEW to \in SUBSET Users, CreateAndBroadcast(to)
          PROVE  UNCHANGED shown
      BY <2>4 DEF CreateAndBroadcast
    <2>5. Commit \/ Fail \/ Restart \/ UNCHANGED vars => UNCHANGED shown
      BY DEF Commit, Fail, Restart, vars
    <2>6. shown' # shown
      BY <1>2
    <2> QED
      BY <2>1, <2>2, <2>3, <2>4, <2>5, <2>6 DEF Next, RouteStep
  <1> QED
    BY <1>1, <1>2 DEF ShownIsAddressed, Addressed

-----------------------------------------------------------------------------
(* Marking as read. *)

LEMMA RequestsStep ==
  ASSUME Typed, RequestsKnow, [Next]_vars
  PROVE  RequestsKnow'
  <1>0. /\ clock \in Nat /\ readAt \in [(1..MaxPushes) \X Users -> Nat]
        /\ req \in [Sockets -> Request \cup {None}] /\ status \subseteq (1..MaxPushes) \X Users
        /\ shown \in [Sockets -> SUBSET Notification]
    BY DEF Typed, TypeOK
  <1>1. ASSUME NEW s \in Sockets, req'[s] = req[s], req[s] # None
        PROVE  /\ user'[s] = user[s]
               /\ <<req[s].n.id, user[s]>> \in DOMAIN readAt
               /\ req[s].at \in Nat
    <2>1. link[s] # "new" /\ user[s] # None
      BY <1>1 DEF Typed, NewHasNothing
    <2>2. req[s].n.id \in 1..MaxPushes /\ user[s] \in Users /\ req[s].at \in Nat
      BY <1>1, <2>1, RequestThere, NotificationShape, BoundAssumption DEF Typed, TypeOK
    <2> QED
      BY <1>0, <2>1, <2>2, UsersStay
  <1>2. ASSUME UNCHANGED <<clock, readAt>>, \A s \in Sockets : req'[s] = req[s] \/ req'[s] = None
        PROVE  RequestsKnow'
    BY <1>1, <1>2 DEF RequestsKnow
  <1>3. ASSUME NEW rows, Mark(rows), \A s \in Sockets : req'[s] = req[s] \/ req'[s] = None
        PROVE  RequestsKnow'
    <2>1. clock' = clock + 1 /\ \A r \in DOMAIN readAt : readAt'[r] \in {readAt[r], clock + 1}
      BY <1>3 DEF Mark
    <2>2. ASSUME NEW s \in Sockets, req'[s] # None
          PROVE  /\ req'[s].at <= clock'
                 /\ LET r == <<req[s].n.id, user[s]>>'
                    IN  readAt'[r] = 0 \/ req'[s].at < readAt'[r]
      <3>1. req'[s] = req[s] /\ req[s] # None
        BY <1>3, <2>2
      <3>2. /\ user'[s] = user[s] /\ <<req[s].n.id, user[s]>> \in DOMAIN readAt /\ req[s].at \in Nat
        BY <3>1, <1>1
      <3>3. /\ req[s].at <= clock
            /\ LET r == <<req[s].n.id, user[s]>> IN readAt[r] = 0 \/ req[s].at < readAt[r]
        BY <3>1 DEF RequestsKnow
      <3> DEFINE r == <<req[s].n.id, user[s]>>
      <3>4. readAt'[r] \in {readAt[r], clock + 1} /\ readAt[r] \in Nat /\ r \in DOMAIN readAt
        BY <1>0, <2>1, <3>2
      <3>5. r = <<req'[s].n.id, user'[s]>>
        BY <3>1, <3>2
      <3>6. readAt'[r] = 0 \/ req[s].at < readAt'[r]
        BY <1>0, <3>2, <3>3, <3>4
      <3>7. req[s].at <= clock'
        BY <1>0, <2>1, <3>2, <3>3
      <3> HIDE DEF r
      <3> QED
        BY <3>1, <3>5, <3>6, <3>7
    <2> QED
      BY <2>2 DEF RequestsKnow
  <1>4. ASSUME NEW x \in Sockets, NEW n \in shown[x], FindToMark(x, n)
        PROVE  RequestsKnow'
    <2>1. /\ readAt[<<n.id, user[x]>>] = 0 /\ UNCHANGED <<user, clock, readAt>>
          /\ req' = [req EXCEPT ![x] = [n |-> n, at |-> clock]]
      BY <1>4 DEF FindToMark, Finds, Unread, socketVars, rowVars
    <2>2. req'[x].n = n /\ req'[x].at = clock /\ \A s \in Sockets \ {x} : req'[s] = req[s]
      BY <1>0, <2>1
    <2> QED
      BY <1>0, <2>1, <2>2 DEF RequestsKnow
  <1>5. ASSUME NEW x \in Sockets, MarkAsRead(x)
        PROVE  RequestsKnow'
    BY <1>0, <1>3, <1>5 DEF MarkAsRead
  <1>6. ASSUME NEW x \in Sockets, MarkAllAsRead(x)
        PROVE  RequestsKnow'
    BY <1>0, <1>3, <1>6 DEF MarkAllAsRead
  <1>7. ASSUME NEW x \in Sockets, SocketStep(x) \/ FindAllForUser(x)
        PROVE  UNCHANGED <<clock, readAt, req>>
    BY <1>7 DEF SocketStep, HandleConnection, Accepted, Refused, HandleDisconnect,
                FindAllForUser, rowVars
  <1>8. ASSUME NEW p \in wire, Deliver(p)
        PROVE  UNCHANGED <<clock, readAt, req>>
    BY <1>8 DEF Deliver, rowVars
  <1>9. ASSUME NEW to \in SUBSET Users, CreateAndBroadcast(to)
        PROVE  UNCHANGED <<clock, readAt, req>>
    BY <1>9 DEF CreateAndBroadcast, rowVars
  <1>10. Commit \/ Fail \/ UNCHANGED vars => UNCHANGED <<clock, readAt, req>>
    BY DEF Commit, Fail, vars, rowVars
  <1>11. CASE Restart
    BY <1>2, <1>11 DEF Restart, rowVars
  <1>12. CASE UNCHANGED <<clock, readAt, req>>
    BY <1>2, <1>12
  <1> QED
    BY <1>4, <1>5, <1>6, <1>7, <1>8, <1>9, <1>10, <1>11, <1>12 DEF Next, RouteStep

-----------------------------------------------------------------------------
(* The theorems. *)

LEMMA InvariantInit == Init => IInv
  BY TypedInit DEF Typed, IInv, Init, RegistryAccurate, Listening, WireAddressed,
                   ShownIsAddressed, RequestsKnow

LEMMA InvariantStep == IInv /\ [Next]_vars => IInv'
  BY TypedStep, RegistryStep, WireStep, ShownStep, RequestsStep DEF Typed, IInv

THEOREM Invariant == Spec => []IInv
  BY InvariantInit, InvariantStep, PTL DEF Spec

\* Every variable keeps its type.
THEOREM TypeCorrect == Spec => []TypeOK
  <1>1. IInv => TypeOK
    BY DEF IInv
  <1> QED
    BY <1>1, Invariant, PTL

\* An open, accepted tab is registered under its user, and besides those only
\* sockets that closed during their lookup are (NotificationsGateway).
THEOREM Registry == Spec => []RegistryAccurate
  <1>1. IInv => RegistryAccurate
    BY DEF IInv
  <1> QED
    BY <1>1, Invariant, PTL

\* What a tab displays was addressed to its user, and is stored or about to be
\* unless its transaction was lost (createAndBroadcastNotification).
THEOREM Shown == Spec => []ShownIsAddressed
  <1>1. IInv => ShownIsAddressed
    BY DEF IInv
  <1> QED
    BY <1>1, Invariant, PTL

LEMMA MarkKeeps ==
  ASSUME IInv, [Next]_vars, NEW r \in status, readAt[r] # 0, readAt'[r] # readAt[r]
  PROVE  \E s \in Sockets : /\ req[s] # None /\ req'[s] = None
                            /\ req[s].n.id = r[1] /\ user[s] = r[2]
                            /\ req[s].at < readAt[r]
  <1>0. readAt \in [(1..MaxPushes) \X Users -> Nat] /\ status \subseteq (1..MaxPushes) \X Users
        /\ req \in [Sockets -> Request \cup {None}]
    BY DEF IInv, TypeOK
  <1>1. ASSUME NEW s \in Sockets, MarkAsRead(s)
        PROVE  /\ req[s] # None /\ req'[s] = None
               /\ req[s].n.id = r[1] /\ user[s] = r[2] /\ req[s].at < readAt[r]
    <2>1. r \in {<<req[s].n.id, user[s]>>} /\ req[s] # None /\ req'[s] = None
      BY <1>0, <1>1 DEF MarkAsRead, Mark
    <2> QED
      BY <2>1 DEF IInv, RequestsKnow
  <1>2. ASSUME NEW s \in Sockets, MarkAllAsRead(s)
        PROVE  FALSE
    BY <1>0, <1>2 DEF MarkAllAsRead, Mark, Unread
  <1>3. ASSUME NEW x \in Sockets, SocketStep(x) \/ FindAllForUser(x) \/ \E n \in shown[x] : FindToMark(x, n)
        PROVE  UNCHANGED readAt
    BY <1>3 DEF SocketStep, HandleConnection, Accepted, Refused, HandleDisconnect,
                FindAllForUser, FindToMark, rowVars
  <1>4. ASSUME NEW p \in wire, Deliver(p)
        PROVE  UNCHANGED readAt
    BY <1>4 DEF Deliver, rowVars
  <1>5. ASSUME NEW to \in SUBSET Users, CreateAndBroadcast(to)
        PROVE  UNCHANGED readAt
    BY <1>5 DEF CreateAndBroadcast, rowVars
  <1>6. Commit \/ Fail \/ Restart \/ UNCHANGED vars => UNCHANGED readAt
    BY DEF Commit, Fail, Restart, vars, rowVars
  <1> QED
    BY <1>1, <1>2, <1>3, <1>4, <1>5, <1>6 DEF Next, RouteStep

\* What was read keeps its time, except from a markAsRead that had found it
\* unread before (NotificationService.markAsRead, markAllAsRead).
THEOREM TimesKept == Spec => ReadOnce
  <1>1. IInv /\ [Next]_vars =>
          [\A r \in status : readAt[r] # 0 /\ readAt'[r] # readAt[r] =>
             \E s \in Sockets : /\ req[s] # None /\ req'[s] = None
                                /\ req[s].n.id = r[1] /\ user[s] = r[2]
                                /\ req[s].at < readAt[r]]_vars
    BY MarkKeeps
  <1> QED
    BY <1>1, Invariant, PTL DEF Spec, ReadOnce
=============================================================================
