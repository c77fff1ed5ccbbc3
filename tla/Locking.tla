------------------------------- MODULE Locking -------------------------------
(***************************************************************************)
(* LockingService (locking.service.ts) and LockingGateway                  *)
(* (locking.gateway.ts).  The service keeps an in-memory Map from resource *)
(* id to lock; an expired entry stays in the Map until the setInterval     *)
(* sweep, a new acquisition or its holder's release removes it.  Every     *)
(* change is broadcast to the sockets that joined the resource's room.     *)
(* The handlers are synchronous, so each is one step; what is asynchronous *)
(* is the delivery of packets and the authentication of a connection.      *)
(***************************************************************************)
EXTENDS Integers, Sequences

CONSTANTS Users, Resources, Sockets,
          NoLock,           \* "no entry in the Map", and `lock: null` in a packet
          LockDuration,     \* app.lockDurationMs
          CleanupInterval,  \* app.lockCleanupIntervalMs
          TimerLag,         \* how late the event loop may run a due timer
          MaxTime,          \* bound on the clock
          MaxQueue          \* bound on undelivered packets per socket and room

ASSUME DurationAssumption == LockDuration \in Nat \ {0}
ASSUME TimerAssumption == CleanupInterval \in Nat \ {0} /\ TimerLag \in Nat
ASSUME BoundAssumption == MaxTime \in Nat /\ MaxQueue \in Nat \ {0}
ASSUME NoLockAssumption == NoLock \notin [userId : Users, expiresAt : Nat]

VARIABLES now,          \* Date.now()
          locks,        \* LockingService.locks: Resources -> entry, or NoLock
          nextCleanup,  \* when the setInterval callback is due
          session,      \* a socket's connection: "off", "verifying", "on"
          rooms,        \* Resources -> the sockets in room `resource:<id>`
          wire,         \* Sockets -> Resources -> packets emitted, not delivered
          shown         \* Sockets -> Resources -> the lock the client displays

tableVars == <<now, locks, nextCleanup>>
socketVars == <<session, rooms, wire, shown>>
vars == <<now, locks, nextCleanup, session, rooms, wire, shown>>

Lock == [userId : Users, expiresAt : Nat]
Packet == Lock \cup {NoLock}

TypeOK ==
  /\ now \in Nat
  /\ locks \in [Resources -> Packet]
  /\ nextCleanup \in Nat
  /\ session \in [Sockets -> {"off", "verifying", "on"}]
  /\ rooms \in [Resources -> SUBSET Sockets]
  /\ wire \in [Sockets -> [Resources -> Seq(Packet)]]
  /\ shown \in [Sockets -> [Resources -> Packet]]

Init ==
  /\ now = 0
  /\ locks = [r \in Resources |-> NoLock]
  /\ nextCleanup = CleanupInterval
  /\ session = [s \in Sockets |-> "off"]
  /\ rooms = [r \in Resources |-> {}]
  /\ wire = [s \in Sockets |-> [r \in Resources |-> <<>>]]
  /\ shown = [s \in Sockets |-> [r \in Resources |-> NoLock]]

-----------------------------------------------------------------------------
(* The lock table. *)

\* Mutant: an entry still counts at the instant it expires.
LiveAtExpiry(r) == locks[r] # NoLock /\ locks[r].expiresAt >= now

Live(r) == locks[r] # NoLock /\ locks[r].expiresAt > now

GetLockStatus(r) == IF Live(r) THEN locks[r] ELSE NoLock

IsLockedBy(r, u) == Live(r) /\ locks[r].userId = u

\* The same packet to the room of each resource of rs.
BroadcastLockUpdate(rs, packet) ==
  /\ \A r \in rs : \A s \in rooms[r] : Len(wire[s][r]) < MaxQueue
  /\ wire' = [s \in Sockets |-> [r \in Resources |->
                IF r \in rs /\ s \in rooms[r]
                  THEN Append(wire[s][r], packet) ELSE wire[s][r]]]
  /\ UNCHANGED <<session, rooms, shown>>

\* Mutant: a refresh is not broadcast.
QuietRefresh(r, u) ==
  /\ Live(r) => locks[r].userId = u
  /\ locks' = [locks EXCEPT ![r] = [userId |-> u, expiresAt |-> now + LockDuration]]
  /\ BroadcastLockUpdate(IF Live(r) THEN {} ELSE {r}, locks'[r])
  /\ UNCHANGED <<now, nextCleanup>>

\* Refresh of an own live lock and grant of a free or expired one leave the
\* same entry; a live lock of another user is refused (no step).
AcquireLock(r, u) ==
  LET lock == [userId |-> u, expiresAt |-> now + LockDuration] IN
  /\ Live(r) => locks[r].userId = u
  /\ locks' = [locks EXCEPT ![r] = lock]
  /\ BroadcastLockUpdate({r}, lock)
  /\ UNCHANGED <<now, nextCleanup>>

\* Mutant: anybody's release removes the entry.
ReleaseByAnyone(r, u) ==
  /\ locks[r] # NoLock
  /\ locks' = [locks EXCEPT ![r] = NoLock]
  /\ BroadcastLockUpdate({r}, NoLock)
  /\ UNCHANGED <<now, nextCleanup>>

\* The holder's entry goes even when it has expired.
ReleaseLock(r, u) ==
  /\ locks[r] # NoLock
  /\ locks[r].userId = u
  /\ locks' = [locks EXCEPT ![r] = NoLock]
  /\ BroadcastLockUpdate({r}, NoLock)
  /\ UNCHANGED <<now, nextCleanup>>

Expired == {r \in Resources : locks[r] # NoLock /\ locks[r].expiresAt <= now}

\* Mutant: the sweep does not tell the rooms.
SilentCleanup ==
  /\ now >= nextCleanup
  /\ locks' = [r \in Resources |-> IF r \in Expired THEN NoLock ELSE locks[r]]
  /\ nextCleanup' = now + CleanupInterval
  /\ UNCHANGED <<now, socketVars>>

CleanupExpiredLocks ==
  /\ now >= nextCleanup
  /\ locks' = [r \in Resources |-> IF r \in Expired THEN NoLock ELSE locks[r]]
  /\ BroadcastLockUpdate(Expired, NoLock)
  /\ nextCleanup' = now + CleanupInterval
  /\ UNCHANGED now

Tick ==
  /\ now < MaxTime
  /\ now < nextCleanup + TimerLag
  /\ now' = now + 1
  /\ UNCHANGED <<locks, nextCleanup, socketVars>>

\* The process ends and a new one starts: the Map and every socket are gone,
\* onModuleInit starts the timer afresh.
Restart ==
  /\ locks' = [r \in Resources |-> NoLock]
  /\ nextCleanup' = now + CleanupInterval
  /\ session' = [s \in Sockets |-> "off"]
  /\ rooms' = [r \in Resources |-> {}]
  /\ wire' = [s \in Sockets |-> [r \in Resources |-> <<>>]]
  /\ shown' = [s \in Sockets |-> [r \in Resources |-> NoLock]]
  /\ UNCHANGED now

-----------------------------------------------------------------------------
(* The gateway. *)

HandleConnection(s) ==
  /\ session[s] = "off"
  /\ session' = [session EXCEPT ![s] = "verifying"]
  /\ UNCHANGED <<tableVars, rooms, wire, shown>>

\* The user row arrived and its tokenVersion is the token's.
Accepted(s) ==
  /\ session[s] = "verifying"
  /\ session' = [session EXCEPT ![s] = "on"]
  /\ UNCHANGED <<tableVars, rooms, wire, shown>>

\* A failed authentication, handleDisconnect, or a lost connection: socket.io
\* takes the socket out of its rooms, and its packets are lost.
Disconnect(s) ==
  /\ session[s] # "off"
  /\ session' = [session EXCEPT ![s] = "off"]
  /\ rooms' = [r \in Resources |-> rooms[r] \ {s}]
  /\ wire' = [wire EXCEPT ![s] = [r \in Resources |-> <<>>]]
  /\ shown' = [shown EXCEPT ![s] = [r \in Resources |-> NoLock]]
  /\ UNCHANGED tableVars

\* The in-memory adapter joins within the call, so the initial state and the
\* membership are one step.
HandleSubscribe(s, r) ==
  /\ session[s] # "off"
  /\ Len(wire[s][r]) < MaxQueue
  /\ wire' = [wire EXCEPT ![s][r] = Append(@, GetLockStatus(r))]
  /\ rooms' = [rooms EXCEPT ![r] = @ \cup {s}]
  /\ UNCHANGED <<tableVars, session, shown>>

HandleUnsubscribe(s, r) ==
  /\ s \in rooms[r]
  /\ rooms' = [rooms EXCEPT ![r] = @ \ {s}]
  /\ UNCHANGED <<tableVars, session, wire, shown>>

\* The client receives a lock_updated packet and redraws.
Deliver(s, r) ==
  /\ wire[s][r] # <<>>
  /\ shown' = [shown EXCEPT ![s][r] = Head(wire[s][r])]
  /\ wire' = [wire EXCEPT ![s][r] = Tail(@)]
  /\ UNCHANGED <<tableVars, session, rooms>>

-----------------------------------------------------------------------------
ServiceStep ==
  \/ \E r \in Resources, u \in Users : AcquireLock(r, u) \/ ReleaseLock(r, u)
  \/ CleanupExpiredLocks
  \/ Tick
  \/ Restart

GatewayStep ==
  \E s \in Sockets :
    \/ HandleConnection(s) \/ Accepted(s) \/ Disconnect(s)
    \/ \E r \in Resources :
         HandleSubscribe(s, r) \/ HandleUnsubscribe(s, r) \/ Deliver(s, r)

Next == ServiceStep \/ GatewayStep

Spec == Init /\ [][Next]_vars

\* Time passes, the timer fires once due, and a connected client's packets
\* arrive.  Nothing makes a user act or a connection last.
Fairness ==
  /\ WF_vars(Tick)
  /\ WF_vars(CleanupExpiredLocks)
  /\ \A s \in Sockets, r \in Resources : WF_vars(Deliver(s, r))

FairSpec == Spec /\ Fairness

-----------------------------------------------------------------------------
(* Properties. *)

\* What the client of s will display of r once its packets have arrived.
LastSent(s, r) ==
  IF wire[s][r] = <<>> THEN shown[s][r] ELSE wire[s][r][Len(wire[s][r])]

\* Every client in a resource's room is told, once its packets have arrived,
\* exactly the table's entry; only an expired entry may be hidden from a
\* client that joined after the expiry (initial state by getLockStatus).
ViewCoherent ==
  \A r \in Resources : \A s \in rooms[r] :
    \/ LastSent(s, r) = locks[r]
    \/ LastSent(s, r) = NoLock /\ ~Live(r)

\* A lock nobody can use any more is not advertised for longer than one sweep
\* interval and the timer's lag after its expiry: no subscriber is left with
\* a dead lock because the sweep and an acquisition, a refresh or a restart
\* interleaved badly.
StaleViewBounded ==
  \A r \in Resources : \A s \in rooms[r] :
    LastSent(s, r) # NoLock =>
      now < LastSent(s, r).expiresAt + CleanupInterval + TimerLag

\* Why StaleViewBounded holds: the next sweep comes less than an interval
\* after the expiry of every entry that is still in the Map.
SweepKeepsUp ==
  /\ now <= nextCleanup + TimerLag
  /\ nextCleanup <= now + CleanupInterval
  /\ \A r \in Resources :
       locks[r] # NoLock => nextCleanup < locks[r].expiresAt + CleanupInterval

\* The lazily swept Map is an ideal lease table: seen through getLockStatus,
\* entries vanish at the instant they expire, a live lease never changes hands,
\* and what lingers in the Map until the sweep cannot be noticed.
Ideal == INSTANCE LeaseTable
           WITH clock <- now, LeaseDuration <- LockDuration, NoLease <- NoLock,
                lease <- [r \in Resources |-> GetLockStatus(r)]

IdealLeases == Ideal!Spec

\* Each call does for its caller what the ideal table's operation does: a lease
\* is granted or extended for the one who asked, only its holder's release ends
\* it (a release that comes after the expiry ends nobody's), the sweep ends none.
CallsKeepPromise ==
  [][/\ \A r \in Resources, u \in Users :
          /\ AcquireLock(r, u) => Ideal!Grant(r, u)
          /\ ReleaseLock(r, u) => Ideal!GiveUp(r, u) \/ UNCHANGED Ideal!leaseVars
     /\ CleanupExpiredLocks => UNCHANGED Ideal!leaseVars]_vars

\* A client that is displaying a lock past its expiry stops displaying that
\* lock, when a sweep is still due within the clock's bound (the sweep, its
\* broadcast and the delivery all have to happen).
DeadLockLeavesScreen ==
  \A s \in Sockets, r \in Resources, t \in 0..(MaxTime + LockDuration) :
    LET Displayed == /\ s \in rooms[r]
                     /\ shown[s][r] # NoLock
                     /\ shown[s][r].expiresAt = t
    IN  (Displayed /\ t <= now /\ nextCleanup <= MaxTime) ~> ~Displayed
=============================================================================
