--------------------------- MODULE Locking_proofs ---------------------------
(***************************************************************************)
(* Proofs about Locking, for every set of users, resources and sockets and *)
(* all durations and bounds: type correctness, the agreement of what the   *)
(* subscribers are sent with the lock table, the bound on how long a dead  *)
(* lock is advertised, and that the swept Map implements LeaseTable.       *)
(***************************************************************************)
EXTENDS Locking, SequenceTheorems, TLAPS

USE DurationAssumption, TimerAssumption, BoundAssumption

-----------------------------------------------------------------------------
(* Type correctness. *)

LEMMA InitType == Init => TypeOK
BY DEF Init, TypeOK, Packet

\* A broadcast keeps the queues well-typed.
LEMMA BroadcastType ==
  ASSUME TypeOK, NEW rs \in SUBSET Resources, NEW packet \in Packet,
         BroadcastLockUpdate(rs, packet)
  PROVE  /\ wire' \in [Sockets -> [Resources -> Seq(Packet)]]
         /\ UNCHANGED <<session, rooms, shown>>
BY DEF BroadcastLockUpdate, TypeOK

LEMMA NextType == TypeOK /\ [Next]_vars => TypeOK'
<1> SUFFICES ASSUME TypeOK, [Next]_vars
             PROVE  TypeOK'
  OBVIOUS
<1>1. ASSUME NEW r \in Resources, NEW u \in Users, AcquireLock(r, u)
      PROVE  TypeOK'
  <2> DEFINE lock == [userId |-> u, expiresAt |-> now + LockDuration]
  <2>1. lock \in Packet
    BY DEF TypeOK, Packet, Lock
  <2>2. BroadcastLockUpdate({r}, lock)
    BY <1>1 DEF AcquireLock
  <2>3. locks' \in [Resources -> Packet] /\ UNCHANGED <<now, nextCleanup>>
    BY <1>1, <2>1 DEF AcquireLock, TypeOK
  <2> QED
    BY <2>1, <2>2, <2>3, BroadcastType DEF TypeOK
<1>2. ASSUME NEW r \in Resources, NEW u \in Users, ReleaseLock(r, u)
      PROVE  TypeOK'
  BY <1>2, BroadcastType DEF ReleaseLock, TypeOK, Packet
<1>3. CASE CleanupExpiredLocks
  <2>1. BroadcastLockUpdate(Expired, NoLock) /\ Expired \in SUBSET Resources
    BY <1>3 DEF CleanupExpiredLocks, Expired
  <2>2. locks' \in [Resources -> Packet] /\ now' = now /\ nextCleanup' \in Nat
    BY <1>3 DEF CleanupExpiredLocks, TypeOK, Packet
  <2> QED
    BY <2>1, <2>2, BroadcastType DEF TypeOK, Packet
<1>4. CASE Tick
  BY <1>4 DEF Tick, TypeOK, socketVars
<1>5. CASE Restart
  BY <1>5 DEF Restart, TypeOK, Packet
<1>6. ASSUME NEW s \in Sockets, HandleConnection(s) \/ Accepted(s)
      PROVE  TypeOK'
  BY <1>6 DEF HandleConnection, Accepted, TypeOK, tableVars
<1>11. ASSUME NEW s \in Sockets, Disconnect(s)
      PROVE  TypeOK'
  <2>1. /\ [r \in Resources |-> <<>>] \in [Resources -> Seq(Packet)]
        /\ [r \in Resources |-> NoLock] \in [Resources -> Packet]
    BY DEF Packet
  <2> QED
    BY <1>11, <2>1 DEF Disconnect, TypeOK, tableVars
<1>7. ASSUME NEW s \in Sockets, NEW r \in Resources, HandleSubscribe(s, r)
      PROVE  TypeOK'
  <2>1. GetLockStatus(r) \in Packet
    BY DEF GetLockStatus, TypeOK, Packet
  <2> QED
    BY <1>7, <2>1 DEF HandleSubscribe, TypeOK, tableVars
<1>8. ASSUME NEW s \in Sockets, NEW r \in Resources, HandleUnsubscribe(s, r)
      PROVE  TypeOK'
  BY <1>8 DEF HandleUnsubscribe, TypeOK, tableVars
<1>9. ASSUME NEW s \in Sockets, NEW r \in Resources, Deliver(s, r)
      PROVE  TypeOK'
  <2>1. wire[s][r] \in Seq(Packet) /\ wire[s][r] # <<>>
    BY <1>9 DEF Deliver, TypeOK
  <2>2. Head(wire[s][r]) \in Packet /\ Tail(wire[s][r]) \in Seq(Packet)
    BY <2>1
  <2> QED
    BY <1>9, <2>2 DEF Deliver, TypeOK, tableVars
<1>10. CASE UNCHANGED vars
  BY <1>10 DEF vars, TypeOK
<1> QED
  BY <1>1, <1>2, <1>3, <1>4, <1>5, <1>6, <1>7, <1>8, <1>9, <1>10, <1>11
     DEF Next, ServiceStep, GatewayStep

\* Every state variable keeps its type in every behaviour.
THEOREM TypeCorrect == Spec => []TypeOK
<1> QED
  BY InitType, NextType, PTL DEF Spec
-----------------------------------------------------------------------------
(* What the last packet to a subscriber says. *)

\* A packet appended to a queue is what its client will display in the end.
LEMMA LastOfAppend ==
  ASSUME TypeOK, NEW s \in Sockets, NEW r \in Resources, NEW packet \in Packet,
         wire'[s][r] = Append(wire[s][r], packet)
  PROVE  LastSent(s, r)' = packet
<1>1. wire[s][r] \in Seq(Packet)
  BY DEF TypeOK
<1>2. /\ wire'[s][r] # <<>>
      /\ wire'[s][r][Len(wire'[s][r])] = packet
  BY <1>1
<1> QED
  BY <1>2 DEF LastSent

LEMMA LastKept ==
  ASSUME NEW s \in Sockets, NEW r \in Resources,
         wire'[s][r] = wire[s][r], shown'[s][r] = shown[s][r]
  PROVE  LastSent(s, r)' = LastSent(s, r)
BY DEF LastSent

\* Taking the head of a queue leaves its last element where it was.
LEMMA LastOfTail ==
  ASSUME NEW S, NEW q \in Seq(S), q # <<>>
  PROVE  IF Tail(q) = <<>> THEN Head(q) = q[Len(q)]
                           ELSE Tail(q)[Len(Tail(q))] = q[Len(q)]
<1>1. /\ Tail(q) \in Seq(S) /\ Len(Tail(q)) = Len(q) - 1
      /\ \A i \in 1..Len(Tail(q)) : Tail(q)[i] = q[i + 1]
  BY HeadTailProperties
<1>2. Len(q) \in Nat /\ Len(q) # 0 /\ Head(q) = q[1]
  BY EmptySeq
<1>3. Tail(q) = <<>> <=> Len(Tail(q)) = 0
  BY <1>1, EmptySeq
<1> QED
  BY <1>1, <1>2, <1>3

\* Delivery does not change what the client will display in the end.
LEMMA LastDelivered ==
  ASSUME TypeOK, NEW s \in Sockets, NEW r \in Resources, Deliver(s, r)
  PROVE  LastSent(s, r)' = LastSent(s, r)
<1>1. /\ wire[s][r] \in Seq(Packet) /\ wire[s][r] # <<>>
      /\ wire'[s][r] = Tail(wire[s][r]) /\ shown'[s][r] = Head(wire[s][r])
  BY DEF Deliver, TypeOK
<1> QED
  BY <1>1, LastOfTail DEF LastSent

-----------------------------------------------------------------------------
(* The agreement of the subscribers' views with the table. *)

\* What one resource and one subscriber of it contribute to ViewCoherent.
Coherent(s, r) ==
  LastSent(s, r) = locks[r] \/ (LastSent(s, r) = NoLock /\ ~Live(r))

LEMMA BroadcastCoherent ==
  ASSUME TypeOK, ViewCoherent, NEW rs \in SUBSET Resources, NEW packet \in Packet,
         BroadcastLockUpdate(rs, packet), now' = now,
         \A r \in rs : locks'[r] = packet,
         \A r \in Resources \ rs : locks'[r] = locks[r]
  PROVE  ViewCoherent'
<1> SUFFICES ASSUME NEW r \in Resources, NEW s \in rooms'[r]
             PROVE  Coherent(s, r)'
  BY DEF ViewCoherent, Coherent
<1>1. s \in rooms[r] /\ s \in Sockets
  BY DEF BroadcastLockUpdate, TypeOK
<1>2. CASE r \in rs
  <2>1. wire'[s][r] = Append(wire[s][r], packet)
    BY <1>1, <1>2 DEF BroadcastLockUpdate
  <2> QED
    BY <1>1, <1>2, <2>1, LastOfAppend DEF Coherent
<1>3. CASE r \notin rs
  <2>1. wire'[s][r] = wire[s][r] /\ shown' = shown
    BY <1>1, <1>3 DEF BroadcastLockUpdate
  <2>2. LastSent(s, r)' = LastSent(s, r)
    BY <1>1, <2>1, LastKept
  <2>3. locks'[r] = locks[r] /\ (Live(r)' <=> Live(r))
    BY <1>3 DEF Live
  <2> QED
    BY <1>1, <2>2, <2>3 DEF ViewCoherent, Coherent
<1> QED
  BY <1>2, <1>3

\* A step of the gateway leaves the table alone; it is enough to look at the
\* queue of each socket that is in a room afterwards.
LEMMA GatewayCoherent ==
  ASSUME ViewCoherent, UNCHANGED tableVars,
         \A r \in Resources : \A s \in rooms'[r] :
           \/ Coherent(s, r)'
           \/ s \in rooms[r] /\ LastSent(s, r)' = LastSent(s, r)
  PROVE  ViewCoherent'
BY DEF ViewCoherent, Coherent, tableVars, Live

LEMMA NextCoherent == TypeOK /\ ViewCoherent /\ [Next]_vars => ViewCoherent'
<1> SUFFICES ASSUME TypeOK, ViewCoherent, [Next]_vars
             PROVE  ViewCoherent'
  OBVIOUS
<1>1. ASSUME NEW r \in Resources, NEW u \in Users, AcquireLock(r, u)
      PROVE  ViewCoherent'
  <2> DEFINE lock == [userId |-> u, expiresAt |-> now + LockDuration]
  <2>1. lock \in Packet /\ BroadcastLockUpdate({r}, lock) /\ now' = now
    BY <1>1 DEF AcquireLock, TypeOK, Packet, Lock
  <2>2. locks'[r] = lock /\ \A x \in Resources \ {r} : locks'[x] = locks[x]
    BY <1>1 DEF AcquireLock, TypeOK
  <2> HIDE DEF lock
  <2> QED
    BY <2>1, <2>2, BroadcastCoherent
<1>2. ASSUME NEW r \in Resources, NEW u \in Users, ReleaseLock(r, u)
      PROVE  ViewCoherent'
  <2>1. NoLock \in Packet /\ BroadcastLockUpdate({r}, NoLock) /\ now' = now
    BY <1>2 DEF ReleaseLock, Packet
  <2>2. locks'[r] = NoLock /\ \A x \in Resources \ {r} : locks'[x] = locks[x]
    BY <1>2 DEF ReleaseLock, TypeOK
  <2> QED
    BY <2>1, <2>2, BroadcastCoherent
<1>3. CASE CleanupExpiredLocks
  <2>1. /\ NoLock \in Packet /\ BroadcastLockUpdate(Expired, NoLock) /\ now' = now
        /\ Expired \in SUBSET Resources
    BY <1>3 DEF CleanupExpiredLocks, Packet, Expired
  <2>2. /\ \A r \in Expired : locks'[r] = NoLock
        /\ \A r \in Resources \ Expired : locks'[r] = locks[r]
    BY <1>3, <2>1 DEF CleanupExpiredLocks
  <2> QED
    BY <2>1, <2>2, BroadcastCoherent
<1>4. CASE Tick
  <2> SUFFICES ASSUME NEW r \in Resources, NEW s \in rooms'[r]
               PROVE  Coherent(s, r)'
    BY DEF ViewCoherent, Coherent
  <2>1. s \in rooms[r] /\ s \in Sockets
    BY <1>4 DEF Tick, socketVars, TypeOK
  <2>2. LastSent(s, r)' = LastSent(s, r)
    BY <1>4, <2>1, LastKept DEF Tick, socketVars
  <2>3. locks' = locks /\ (~Live(r) => ~Live(r)')
    BY <1>4 DEF Tick, Live, TypeOK, Packet, Lock
  <2> QED
    BY <2>1, <2>2, <2>3 DEF ViewCoherent, Coherent
<1>5. CASE Restart
  BY <1>5 DEF Restart, ViewCoherent
<1>6. ASSUME NEW s \in Sockets, HandleConnection(s) \/ Accepted(s)
      PROVE  ViewCoherent'
  BY <1>6 DEF HandleConnection, Accepted, ViewCoherent, LastSent, Live, tableVars
<1>7. ASSUME NEW s \in Sockets, Disconnect(s)
      PROVE  ViewCoherent'
  <2>1. ASSUME NEW r \in Resources, NEW x \in rooms'[r]
        PROVE  x \in rooms[r] /\ LastSent(x, r)' = LastSent(x, r)
    <3>1. x \in rooms[r] /\ x \in Sockets /\ x # s
      BY <1>7, <2>1 DEF Disconnect, TypeOK
    <3>2. wire'[x] = wire[x] /\ shown'[x] = shown[x]
      BY <1>7, <3>1 DEF Disconnect, TypeOK
    <3> QED
      BY <3>1, <3>2, LastKept
  <2> QED
    BY <1>7, <2>1, GatewayCoherent DEF Disconnect
<1>8. ASSUME NEW s \in Sockets, NEW r \in Resources, HandleSubscribe(s, r)
      PROVE  ViewCoherent'
  <2>1. GetLockStatus(r) \in Packet /\ UNCHANGED tableVars /\ shown' = shown
    BY <1>8 DEF GetLockStatus, TypeOK, Packet, HandleSubscribe
  <2>2. wire'[s][r] = Append(wire[s][r], GetLockStatus(r))
    BY <1>8 DEF HandleSubscribe, TypeOK
  <2>3. Coherent(s, r)'
    BY <2>1, <2>2, LastOfAppend DEF Coherent, GetLockStatus, Live, tableVars
  <2>4. ASSUME NEW y \in Resources, NEW x \in rooms'[y], x # s \/ y # r
        PROVE  x \in rooms[y] /\ LastSent(x, y)' = LastSent(x, y)
    <3>1. x \in rooms[y] /\ x \in Sockets
      BY <1>8, <2>4 DEF HandleSubscribe, TypeOK
    <3>2. wire'[x][y] = wire[x][y]
      BY <1>8, <2>4, <3>1 DEF HandleSubscribe, TypeOK
    <3> QED
      BY <2>1, <3>1, <3>2, LastKept
  <2> QED
    BY <2>1, <2>3, <2>4, GatewayCoherent
<1>9. ASSUME NEW s \in Sockets, NEW r \in Resources, HandleUnsubscribe(s, r)
      PROVE  ViewCoherent'
  <2>1. \A y \in Resources : \A x \in rooms'[y] : x \in rooms[y]
    BY <1>9 DEF HandleUnsubscribe, TypeOK
  <2>2. UNCHANGED <<wire, shown, tableVars>>
    BY <1>9 DEF HandleUnsubscribe
  <2> QED
    BY <2>1, <2>2, GatewayCoherent DEF LastSent
<1>10. ASSUME NEW s \in Sockets, NEW r \in Resources, Deliver(s, r)
       PROVE  ViewCoherent'
  <2>1. ASSUME NEW y \in Resources, NEW x \in rooms'[y]
        PROVE  x \in rooms[y] /\ LastSent(x, y)' = LastSent(x, y)
    <3>1. x \in rooms[y] /\ x \in Sockets
      BY <1>10, <2>1 DEF Deliver, TypeOK
    <3>2. CASE x = s /\ y = r
      BY <1>10, <3>1, <3>2, LastDelivered
    <3>3. CASE x # s \/ y # r
      <4>1. wire'[x][y] = wire[x][y] /\ shown'[x][y] = shown[x][y]
        BY <1>10, <3>1, <3>3 DEF Deliver, TypeOK
      <4> QED
        BY <3>1, <4>1, LastKept
    <3> QED
      BY <3>2, <3>3
  <2> QED
    BY <1>10, <2>1, GatewayCoherent DEF Deliver
<1>11. CASE UNCHANGED vars
  BY <1>11 DEF vars, ViewCoherent, LastSent, Live
<1> QED
  BY <1>1, <1>2, <1>3, <1>4, <1>5, <1>6, <1>7, <1>8, <1>9, <1>10, <1>11
     DEF Next, ServiceStep, GatewayStep

\* Every subscriber is told what is in the lock table, in every behaviour.
THEOREM ViewsCoherent == Spec => []ViewCoherent
<1>1. Init => ViewCoherent
  BY DEF Init, ViewCoherent
<1> QED
  BY <1>1, TypeCorrect, NextCoherent, PTL DEF Spec

-----------------------------------------------------------------------------
(* The bound on the advertisement of dead locks. *)

LEMMA NextSweep == TypeOK /\ SweepKeepsUp /\ [Next]_vars => SweepKeepsUp'
<1> SUFFICES ASSUME TypeOK, SweepKeepsUp, [Next]_vars
             PROVE  SweepKeepsUp'
  OBVIOUS
<1>1. ASSUME NEW r \in Resources, NEW u \in Users, AcquireLock(r, u)
      PROVE  SweepKeepsUp'
  <2>1. /\ now' = now /\ nextCleanup' = nextCleanup
        /\ locks'[r].expiresAt = now + LockDuration
        /\ \A x \in Resources \ {r} : locks'[x] = locks[x]
    BY <1>1 DEF AcquireLock, TypeOK
  <2>2. nextCleanup < now + LockDuration + CleanupInterval
    BY DEF SweepKeepsUp, TypeOK
  <2> QED
    BY <2>1, <2>2 DEF SweepKeepsUp, TypeOK
<1>2. ASSUME NEW r \in Resources, NEW u \in Users, ReleaseLock(r, u)
      PROVE  SweepKeepsUp'
  BY <1>2 DEF ReleaseLock, SweepKeepsUp, TypeOK
<1>3. CASE CleanupExpiredLocks
  <2>1. \A r \in Resources :
          locks'[r] # NoLock => locks'[r] = locks[r] /\ r \notin Expired
    BY <1>3 DEF CleanupExpiredLocks
  <2>2. \A r \in Resources :
          locks'[r] # NoLock => locks'[r].expiresAt \in Nat /\ now < locks'[r].expiresAt
    BY <2>1 DEF Expired, TypeOK, Packet, Lock
  <2>3. now' = now /\ nextCleanup' = now + CleanupInterval
    BY <1>3 DEF CleanupExpiredLocks
  <2> QED
    BY <2>2, <2>3 DEF SweepKeepsUp, TypeOK
<1>4. CASE Tick
  BY <1>4 DEF Tick, SweepKeepsUp, TypeOK
<1>5. CASE Restart
  BY <1>5 DEF Restart, SweepKeepsUp, TypeOK
<1>6. CASE GatewayStep
  <2>1. UNCHANGED tableVars
    BY <1>6 DEF GatewayStep, HandleConnection, Accepted, Disconnect,
                HandleSubscribe, HandleUnsubscribe, Deliver
  <2> QED
    BY <2>1 DEF tableVars, SweepKeepsUp
<1>7. CASE UNCHANGED vars
  BY <1>7 DEF vars, SweepKeepsUp
<1> QED
  BY <1>1, <1>2, <1>3, <1>4, <1>5, <1>6, <1>7 DEF Next, ServiceStep

THEOREM SweepsKeepUp == Spec => []SweepKeepsUp
<1>1. Init => SweepKeepsUp
  BY DEF Init, SweepKeepsUp
<1> QED
  BY <1>1, TypeCorrect, NextSweep, PTL DEF Spec

\* No dead lock is advertised for longer than a sweep interval and the lag.
THEOREM StaleViewsBounded == Spec => []StaleViewBounded
<1>1. TypeOK /\ ViewCoherent /\ SweepKeepsUp => StaleViewBounded
  <2> SUFFICES ASSUME TypeOK, ViewCoherent, SweepKeepsUp,
                      NEW r \in Resources, NEW s \in rooms[r], LastSent(s, r) # NoLock
               PROVE  now < LastSent(s, r).expiresAt + CleanupInterval + TimerLag
    BY DEF StaleViewBounded
  <2>1. LastSent(s, r) = locks[r] /\ locks[r] # NoLock
    BY DEF ViewCoherent
  <2>2. locks[r].expiresAt \in Nat
    BY <2>1 DEF TypeOK, Packet, Lock
  <2> QED
    BY <2>1, <2>2 DEF SweepKeepsUp, TypeOK
<1> QED
  BY <1>1, TypeCorrect, ViewsCoherent, SweepsKeepUp, PTL

-----------------------------------------------------------------------------
(* The swept Map implements the ideal lease table. *)

LeaseView == [r \in Resources |-> GetLockStatus(r)]

LEMMA EntryIsNotNull == \A l \in Lock : l # NoLock
BY NoLockAssumption DEF Lock

\* A step that leaves what getLockStatus says, and the clock, is a stutter.
LEMMA Stutter ==
  ASSUME now' = now, \A r \in Resources : GetLockStatus(r)' = GetLockStatus(r)
  PROVE  UNCHANGED <<now, LeaseView>>
BY DEF LeaseView

LEMMA AcquireIsGrant ==
  ASSUME TypeOK, NEW r \in Resources, NEW u \in Users, AcquireLock(r, u)
  PROVE  Ideal!Grant(r, u)
<1> DEFINE lock == [userId |-> u, expiresAt |-> now + LockDuration]
<1>1. lock \in Lock /\ lock.expiresAt > now
  BY DEF TypeOK, Lock
<1>2. /\ now' = now /\ locks'[r] = lock
      /\ \A x \in Resources \ {r} : locks'[x] = locks[x]
      /\ Live(r) => locks[r].userId = u
  BY DEF AcquireLock, TypeOK
<1>3. GetLockStatus(r)' = lock
  BY <1>1, <1>2, EntryIsNotNull DEF GetLockStatus, Live
<1>4. \A x \in Resources \ {r} : GetLockStatus(x)' = GetLockStatus(x)
  BY <1>2 DEF GetLockStatus, Live
<1>5. GetLockStatus(r) # NoLock => GetLockStatus(r).userId = u
  BY <1>2 DEF GetLockStatus
<1> QED
  BY <1>2, <1>3, <1>4, <1>5 DEF Ideal!Grant

LEMMA ReleaseIsGiveUp ==
  ASSUME TypeOK, NEW r \in Resources, NEW u \in Users, ReleaseLock(r, u)
  PROVE  Ideal!GiveUp(r, u) \/ UNCHANGED <<now, LeaseView>>
<1>1. /\ now' = now /\ locks'[r] = NoLock /\ locks[r] # NoLock
      /\ locks[r].userId = u
      /\ \A x \in Resources \ {r} : locks'[x] = locks[x]
  BY DEF ReleaseLock, TypeOK
<1>2. /\ GetLockStatus(r)' = NoLock
      /\ \A x \in Resources \ {r} : GetLockStatus(x)' = GetLockStatus(x)
  BY <1>1 DEF GetLockStatus, Live
<1>3. CASE Live(r)
  <2>1. GetLockStatus(r) # NoLock /\ GetLockStatus(r).userId = u
    BY <1>1, <1>3 DEF GetLockStatus
  <2> QED
    BY <1>1, <1>2, <2>1 DEF Ideal!GiveUp
<1>4. CASE ~Live(r)
  <2>1. GetLockStatus(r) = NoLock
    BY <1>4 DEF GetLockStatus
  <2> QED
    BY <1>1, <1>2, <2>1, Stutter
<1> QED
  BY <1>3, <1>4

LEMMA SweepIsStutter ==
  ASSUME TypeOK, CleanupExpiredLocks
  PROVE  UNCHANGED <<now, LeaseView>>
<1>1. ASSUME NEW r \in Resources
      PROVE  GetLockStatus(r)' = GetLockStatus(r)
  <2>1. now' = now /\ locks'[r] = IF r \in Expired THEN NoLock ELSE locks[r]
    BY DEF CleanupExpiredLocks
  <2>2. r \in Expired => ~Live(r)
    BY DEF Expired, Live, TypeOK, Packet, Lock
  <2> QED
    BY <2>1, <2>2 DEF GetLockStatus, Live
<1> QED
  BY <1>1, Stutter DEF CleanupExpiredLocks

LEMMA TickIsPass ==
  ASSUME TypeOK, Tick
  PROVE  Ideal!Pass
<1>1. now' = now + 1 /\ locks' = locks
  BY DEF Tick
<1>2. ASSUME NEW r \in Resources
      PROVE  GetLockStatus(r)' =
               IF GetLockStatus(r) # NoLock /\ GetLockStatus(r).expiresAt > now + 1
                 THEN GetLockStatus(r) ELSE NoLock
  BY <1>1 DEF GetLockStatus, Live, TypeOK, Packet, Lock
<1> QED
  BY <1>1, <1>2 DEF Ideal!Pass

LEMMA RestartIsReset ==
  ASSUME Restart
  PROVE  Ideal!Reset
BY DEF Restart, Ideal!Reset, GetLockStatus, Live

LEMMA StepIsIdeal ==
  TypeOK /\ [Next]_vars => Ideal!Next \/ UNCHANGED <<now, LeaseView>>
<1> SUFFICES ASSUME TypeOK, [Next]_vars
             PROVE  Ideal!Next \/ UNCHANGED <<now, LeaseView>>
  OBVIOUS
<1>1. CASE ServiceStep
  BY <1>1, AcquireIsGrant, ReleaseIsGiveUp, SweepIsStutter, TickIsPass, RestartIsReset
     DEF ServiceStep, Ideal!Next
<1>2. CASE GatewayStep \/ UNCHANGED vars
  <2>1. UNCHANGED tableVars
    BY <1>2 DEF GatewayStep, HandleConnection, Accepted, Disconnect, vars,
                HandleSubscribe, HandleUnsubscribe, Deliver, tableVars
  <2> QED
    BY <2>1, Stutter DEF tableVars, GetLockStatus, Live
<1> QED
  BY <1>1, <1>2 DEF Next

\* Locking implements LeaseTable: entries that wait for the sweep, late
\* releases and the sweep itself are invisible through getLockStatus.
THEOREM ImplementsLeaseTable == Spec => IdealLeases
<1>1. Init => Ideal!Init
  BY DEF Init, Ideal!Init, GetLockStatus, Live
<1>2. TypeOK /\ [Next]_vars => [Ideal!Next]_(Ideal!leaseVars)
  BY StepIsIdeal DEF LeaseView, Ideal!leaseVars
<1> QED
  BY <1>1, <1>2, TypeCorrect, PTL DEF Spec, IdealLeases, Ideal!Spec

\* Each of the service's calls keeps the ideal table's promise to its caller,
\* and the sweep ends nobody's lease.
THEOREM EachCallKeepsPromise == Spec => CallsKeepPromise
<1>1. ASSUME TypeOK, NEW r \in Resources, NEW u \in Users
      PROVE  /\ AcquireLock(r, u) => Ideal!Grant(r, u)
             /\ ReleaseLock(r, u) => Ideal!GiveUp(r, u) \/ UNCHANGED Ideal!leaseVars
  BY <1>1, AcquireIsGrant, ReleaseIsGiveUp DEF LeaseView, Ideal!leaseVars
<1>2. ASSUME TypeOK, CleanupExpiredLocks
      PROVE  UNCHANGED Ideal!leaseVars
  BY <1>2, SweepIsStutter DEF LeaseView, Ideal!leaseVars
<1>3. TypeOK /\ [Next]_vars =>
        /\ \A r \in Resources, u \in Users :
             /\ AcquireLock(r, u) => Ideal!Grant(r, u)
             /\ ReleaseLock(r, u) => Ideal!GiveUp(r, u) \/ UNCHANGED Ideal!leaseVars
        /\ CleanupExpiredLocks => UNCHANGED Ideal!leaseVars
  BY <1>1, <1>2
<1> QED
  BY <1>3, TypeCorrect, PTL DEF Spec, CallsKeepPromise
=============================================================================
