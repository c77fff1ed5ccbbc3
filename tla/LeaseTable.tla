----------------------------- MODULE LeaseTable -----------------------------
(***************************************************************************)
(* The promise behind the locking service: a table of exclusive leases.    *)
(* At most one user holds a resource; a lease is granted or extended only  *)
(* for its full duration, belongs to its holder until he gives it up, its  *)
(* time is over or the server restarts, and it is over at the very instant *)
(* it expires.  There is no sweeping and no leftover entry here.           *)
(***************************************************************************)
EXTENDS Integers

CONSTANTS Users, Resources, LeaseDuration, NoLease

VARIABLES clock,    \* the time, in clock units
          lease     \* Resources -> a lease [userId, expiresAt], or NoLease

leaseVars == <<clock, lease>>

Init ==
  /\ clock = 0
  /\ lease = [r \in Resources |-> NoLease]

Grant(r, u) ==
  /\ lease[r] # NoLease => lease[r].userId = u
  /\ lease' = [lease EXCEPT ![r] =
                 [userId |-> u, expiresAt |-> clock + LeaseDuration]]
  /\ UNCHANGED clock

GiveUp(r, u) ==
  /\ lease[r] # NoLease
  /\ lease[r].userId = u
  /\ lease' = [lease EXCEPT ![r] = NoLease]
  /\ UNCHANGED clock

Pass ==
  /\ clock' = clock + 1
  /\ lease' = [r \in Resources |->
                 IF lease[r] # NoLease /\ lease[r].expiresAt > clock + 1
                   THEN lease[r] ELSE NoLease]

Reset ==
  /\ lease' = [r \in Resources |-> NoLease]
  /\ UNCHANGED clock

Next ==
  \/ \E r \in Resources, u \in Users : Grant(r, u) \/ GiveUp(r, u)
  \/ Pass
  \/ Reset

Spec == Init /\ [][Next]_leaseVars
=============================================================================
