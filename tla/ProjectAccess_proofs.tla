------------------------ MODULE ProjectAccess_proofs ------------------------
(***************************************************************************)
(* What holds of ProjectAccess for all sets of users and teams.            *)
(*                                                                         *)
(* The argument: "held" contains everybody who has an OWNER row, so who    *)
(* passes ProjectOwnerGuard speaks for somebody in it.  Whatever takes     *)
(* anybody out of "held" writes the project's row, so a request let in     *)
(* before it carries a version that no longer matches.                     *)
(***************************************************************************)
EXTENDS ProjectAccess, TLAPS

\* Who is in the administrator's handlers was loaded as one.
AdminsOnly == \A u \in Users : At(u, "handle", "admin") => req[u].role = "admin"

\* No request has a version from the future.
SeenBefore == \A u \in Users : req[u] # Idle => req[u].seen <= version

OwnersHeld == Owners \subseteq held /\ (project = "unborn" => Owners = {})

\* Who is let in and has the version in place speaks for an owner.
Backed(u) ==
  At(u, "handle", "own") /\ Matches(u) =>
    req[u].role = "admin" \/ ActsAs(u) \cap held # {}
AllBacked == \A u \in Users : Backed(u)

IInv == /\ TypeOK /\ NewTeamsStartEmpty /\ AdminsOnly
        /\ SeenBefore /\ OwnersHeld /\ AllBacked

-----------------------------------------------------------------------------
(* Requests. *)

LEMMA RequestThere ==
  ASSUME TypeOK, NEW u \in Users, req[u] # Idle
  PROVE  /\ req[u] \in Request
         /\ req[u].pc \in {"guard", "handle"} /\ req[u].kind \in Kinds
         /\ req[u].role \in Roles /\ req[u].teams \subseteq Teams /\ req[u].seen \in Nat
  BY DEF TypeOK, Request

\* Only u's request changes.
LEMMA Starts ==
  ASSUME TypeOK, NEW u \in Users, NEW r \in Request \cup {Idle}, Start(u, r)
  PROVE  /\ req' \in [Users -> Request \cup {Idle}] /\ req'[u] = r
         /\ \A v \in Users \ {u} : req'[v] = req[v]
  BY DEF TypeOK, Start

LEMMA LetIn ==
  ASSUME TypeOK, NEW u \in Users, req[u] # Idle
  PROVE  LET r == [req[u] EXCEPT !.pc = "handle"]
         IN  /\ r \in Request /\ r.pc = "handle" /\ r.kind = req[u].kind
             /\ r.role = req[u].role /\ r.teams = req[u].teams /\ r.seen = req[u].seen
  BY RequestThere DEF Request

\* What Send starts.
LEMMA Sends ==
  ASSUME TypeOK, NEW u \in Users, Send(u)
  PROVE  /\ req' \in [Users -> Request \cup {Idle}]
         /\ \A v \in Users \ {u} : req'[v] = req[v]
         /\ req'[u] # Idle /\ req'[u].seen <= version
         /\ req'[u].kind = "admin" => req'[u].role = "admin"
         /\ req'[u].kind = "own" /\ req'[u].pc = "handle" => req'[u].role = "admin"
         /\ UNCHANGED <<accountVars, teamVars, projectVars, changes>>
  <1>1. role[u] \in Roles /\ version \in Nat /\ LoadsTeams(u) \in SUBSET Teams
    BY DEF TypeOK, LoadsTeams, TeamsOf
  <1> DEFINE own == [pc |-> IF role[u] = "admin" THEN "handle" ELSE "guard", kind |-> "own",
                     role |-> role[u], teams |-> LoadsTeams(u), seen |-> version]
             other(k) == [pc |-> "handle", kind |-> k, role |-> role[u], teams |-> {}, seen |-> 0]
  <1>2. /\ own \in Request /\ own.kind = "own" /\ own.role = role[u] /\ own.seen = version
        /\ own.pc = IF role[u] = "admin" THEN "handle" ELSE "guard"
    BY <1>1 DEF Request, Kinds
  <1>3. \A k \in {"create", "admin"} :
          /\ other(k) \in Request /\ other(k).kind = k /\ other(k).role = role[u]
          /\ other(k).seen = 0
    BY <1>1 DEF Request, Kinds
  <1>4. \/ Start(u, own)
        \/ Start(u, other("create"))
        \/ role[u] = "admin" /\ Start(u, other("admin"))
    BY DEF Send
  <1>5. UNCHANGED <<accountVars, teamVars, projectVars, changes>>
    BY DEF Send
  <1> HIDE DEF own, other
  <1>6. CASE Start(u, own)
    <2>1. /\ req' \in [Users -> Request \cup {Idle}] /\ req'[u] = own
          /\ \A v \in Users \ {u} : req'[v] = req[v]
      BY <1>2, <1>6, Starts
    <2> QED
      BY <2>1, <1>1, <1>2, <1>5, IdleAssumption
  <1>7. CASE Start(u, other("create"))
    <2>1. /\ req' \in [Users -> Request \cup {Idle}] /\ req'[u] = other("create")
          /\ \A v \in Users \ {u} : req'[v] = req[v]
      BY <1>3, <1>7, Starts
    <2> QED
      BY <2>1, <1>1, <1>3, <1>5, IdleAssumption
  <1>8. CASE role[u] = "admin" /\ Start(u, other("admin"))
    <2>1. /\ req' \in [Users -> Request \cup {Idle}] /\ req'[u] = other("admin")
          /\ \A v \in Users \ {u} : req'[v] = req[v]
      BY <1>3, <1>8, Starts
    <2> QED
      BY <2>1, <1>1, <1>3, <1>5, <1>8, IdleAssumption
  <1> QED
    BY <1>4, <1>6, <1>7, <1>8

\* A request that is done is gone; the others stay.
LEMMA Ends ==
  ASSUME TypeOK, NEW u \in Users, Done(u)
  PROVE  /\ req' \in [Users -> Request \cup {Idle}] /\ req'[u] = Idle
         /\ \A v \in Users \ {u} : req'[v] = req[v]
  BY Starts DEF Done

\* What OwnerGuard makes of a request.
LEMMA Guards ==
  ASSUME TypeOK, NEW u \in Users, OwnerGuard(u)
  PROVE  /\ req' \in [Users -> Request \cup {Idle}]
         /\ \A v \in Users \ {u} : req'[v] = req[v]
         /\ req'[u] # Idle =>
              /\ CanOwn(u) /\ req'[u].kind = "own"
              /\ req'[u].teams = req[u].teams /\ req'[u].seen = req[u].seen
         /\ req[u] # Idle
         /\ UNCHANGED <<accountVars, teamVars, projectVars, changes>>
  <1> DEFINE r == [req[u] EXCEPT !.pc = "handle"]
  <1>1. req[u] # Idle /\ req[u].kind = "own"
    BY DEF OwnerGuard, At
  <1>2. /\ r \in Request /\ r.kind = "own"
        /\ r.teams = req[u].teams /\ r.seen = req[u].seen
    BY <1>1, LetIn
  <1>3. Start(u, IF CanOwn(u) THEN r ELSE Idle)
        /\ UNCHANGED <<accountVars, teamVars, projectVars, changes>>
    BY DEF OwnerGuard
  <1> HIDE DEF r
  <1>4. CASE CanOwn(u)
    <2>1. Start(u, r)
      BY <1>3, <1>4
    <2>2. /\ req' \in [Users -> Request \cup {Idle}] /\ req'[u] = r
          /\ \A v \in Users \ {u} : req'[v] = req[v]
      BY <2>1, <1>2, Starts
    <2> QED
      BY <2>2, <1>1, <1>2, <1>3, <1>4
  <1>5. CASE ~CanOwn(u)
    <2>1. Start(u, Idle)
      BY <1>3, <1>5
    <2>2. /\ req' \in [Users -> Request \cup {Idle}] /\ req'[u] = Idle
          /\ \A v \in Users \ {u} : req'[v] = req[v]
      BY <2>1, Starts
    <2> QED
      BY <2>2, <1>1, <1>3
  <1> QED
    BY <1>4, <1>5

\* The steps that end a request.
Acts(u) == Refuse(u) \/ ProjectStep(u) \/ AdminStep(u)

LEMMA ActsEnd ==
  ASSUME TypeOK, NEW u \in Users, Acts(u)
  PROVE  Done(u) /\ req[u] # Idle /\ req[u].pc = "handle"
  BY DEF Acts, Refuse, ProjectStep, AdminStep, Create, Save, UpdateAccess, Drop, Touch,
         Change, CreateTeam, RenameTeam, RemoveTeam, UpdateUser, RemoveUser, At

LEMMA Steps ==
  ASSUME Next
  PROVE  \E u \in Users : Send(u) \/ OwnerGuard(u) \/ Acts(u)
  BY DEF Next, Acts

-----------------------------------------------------------------------------
(* Type correctness. *)

LEMMA MovedShape ==
  ASSUME members \subseteq Users \X Teams, NEW t \in Teams, NEW n \in Teams
  PROVE  /\ Moved(t, n) \subseteq Users \X Teams
         /\ \A u \in Users, x \in Teams : <<u, x>> \in Moved(t, n) <=>
              \/ x # t /\ <<u, x>> \in members
              \/ x = n /\ <<u, t>> \in members
  <1>1. \A m \in members : m[1] \in Users /\ m[2] \in Teams /\ m = <<m[1], m[2]>>
    OBVIOUS
  <1>2. Moved(t, n) \subseteq Users \X Teams
    BY <1>1 DEF Moved
  <1>3. ASSUME NEW u \in Users, NEW x \in Teams
        PROVE  <<u, x>> \in Moved(t, n) <=>
                 \/ x # t /\ <<u, x>> \in members
                 \/ x = n /\ <<u, t>> \in members
    <2>1. (\E m \in members : m[2] = t /\ <<u, x>> = <<m[1], n>>)
            <=> x = n /\ <<u, t>> \in members
      BY <1>1
    <2> QED
      BY <2>1 DEF Moved
  <1> QED
    BY <1>2, <1>3

LEMMA TypeInit == Init => TypeOK
  BY FirstAssumption DEF Init, TypeOK, Roles, Access, Principals

\* What a project route leaves of the tables.
LEMMA ProjectTypes ==
  ASSUME TypeOK, NEW u \in Users, ProjectStep(u)
  PROVE  /\ UNCHANGED <<accountVars, teamVars, changes>>
         /\ project' \in {"unborn", "there", "gone"} /\ version' \in Nat
         /\ access' \in [Principals -> Access] /\ denied' \subseteq Users /\ held' \subseteq Principals
  <1>1. version \in Nat /\ project \in {"unborn", "there", "gone"} /\ held \subseteq Principals
        /\ denied \subseteq Users /\ access \in [Principals -> Access] /\ teams \subseteq Teams
    BY DEF TypeOK
  <1>2. CASE Create(u)
    BY <1>1, <1>2 DEF Create, Touch, Principals, Access
  <1>3. CASE Save(u)
    BY <1>1, <1>3 DEF Save, Touch
  <1>4. CASE UpdateAccess(u)
    BY <1>1, <1>4 DEF UpdateAccess, Touch, Principals, Access
  <1>5. CASE Drop(u)
    BY <1>1, <1>5 DEF Drop, Access
  <1> QED
    BY <1>2, <1>3, <1>4, <1>5 DEF ProjectStep

\* What an administrator's route leaves of the tables.
LEMMA AdminTypes ==
  ASSUME TypeOK, NEW u \in Users, AdminStep(u)
  PROVE  /\ UNCHANGED <<project, version, denied>>
         /\ role' \in [Users -> Roles] /\ removed' \subseteq Users
         /\ teams' \subseteq Teams /\ members' \subseteq Users \X Teams
         /\ access' \in [Principals -> Access] /\ held' \subseteq Principals
         /\ changes' \in Nat
  <1>1. /\ role \in [Users -> Roles] /\ removed \subseteq Users /\ changes \in Nat
        /\ teams \subseteq Teams /\ members \subseteq Users \X Teams
        /\ access \in [Principals -> Access] /\ held \subseteq Principals
        /\ Teams \subseteq Principals /\ Users \subseteq Principals /\ "none" \in Access
    BY DEF TypeOK, Principals, Access
  <1>2. ASSUME NEW t \in Teams, CreateTeam(u, t)
        PROVE  /\ UNCHANGED <<accountVars, members, projectVars>>
               /\ teams' \subseteq Teams /\ changes' \in Nat
    BY <1>1, <1>2 DEF CreateTeam, Change
  <1>3. ASSUME NEW t \in Teams, RemoveTeam(u, t)
        PROVE  /\ UNCHANGED <<accountVars, project, version, denied, held>>
               /\ teams' \subseteq Teams /\ changes' \in Nat
               /\ members' \subseteq Users \X Teams /\ access' \in [Principals -> Access]
    BY <1>1, <1>3 DEF RemoveTeam, RemovesRows, Change
  <1>4. ASSUME NEW t \in Teams, NEW n \in Teams, RenameTeam(u, t, n)
        PROVE  /\ UNCHANGED <<accountVars, project, version, denied>>
               /\ teams' \subseteq Teams /\ changes' \in Nat
               /\ members' \subseteq Users \X Teams /\ access' \in [Principals -> Access]
               /\ held' \subseteq Principals
    <2>1. members' \subseteq Users \X Teams
      BY <1>1, <1>4, MovedShape DEF RenameTeam, RenamesRows
    <2>2. access' \in [Principals -> Access] /\ held' \subseteq Principals
      BY <1>1, <1>4 DEF RenameTeam, RenamesRows
    <2>3. changes' \in Nat
      BY <1>1, <1>4 DEF RenameTeam, Change
    <2>4. UNCHANGED <<accountVars, project, version, denied>> /\ teams' \subseteq Teams
      BY <1>1, <1>4 DEF RenameTeam
    <2> QED
      BY <2>1, <2>2, <2>3, <2>4
  <1>5. ASSUME NEW v \in Users, RemoveUser(u, v)
        PROVE  /\ UNCHANGED <<role, teams, project, version, denied, held>>
               /\ removed' \subseteq Users /\ changes' \in Nat
               /\ members' \subseteq Users \X Teams /\ access' \in [Principals -> Access]
    BY <1>1, <1>5 DEF RemoveUser, Change
  <1>6. ASSUME NEW v \in Users, NEW r \in Roles, NEW ts \in SUBSET Teams, UpdateUser(u, v, r, ts)
        PROVE  /\ UNCHANGED <<removed, teams, projectVars>>
               /\ role' \in [Users -> Roles] /\ changes' \in Nat
               /\ members' \subseteq Users \X Teams
    BY <1>1, <1>6 DEF UpdateUser, Change
  <1> QED
    BY <1>1, <1>2, <1>3, <1>4, <1>5, <1>6 DEF AdminStep, accountVars, projectVars

LEMMA TypeStep ==
  ASSUME TypeOK, [Next]_vars
  PROVE  TypeOK'
  <1>1. CASE UNCHANGED vars
    BY <1>1 DEF TypeOK, vars, accountVars, teamVars, projectVars
  <1>2. ASSUME NEW u \in Users, Send(u)
        PROVE  TypeOK'
    BY <1>2, Sends DEF TypeOK, accountVars, teamVars, projectVars
  <1>3. ASSUME NEW u \in Users, OwnerGuard(u)
        PROVE  TypeOK'
    BY <1>3, Guards DEF TypeOK, accountVars, teamVars, projectVars
  <1>4. ASSUME NEW u \in Users, Acts(u)
        PROVE  TypeOK'
    <2>1. req' \in [Users -> Request \cup {Idle}]
      BY <1>4, ActsEnd, Ends
    <2>2. CASE Refuse(u)
      BY <2>1, <2>2 DEF Refuse, TypeOK, accountVars, teamVars, projectVars
    <2>3. CASE ProjectStep(u)
      BY <2>1, <2>3, ProjectTypes DEF TypeOK, accountVars, teamVars
    <2>4. CASE AdminStep(u)
      BY <2>1, <2>4, AdminTypes DEF TypeOK
    <2> QED
      BY <1>4, <2>2, <2>3, <2>4 DEF Acts
  <1> QED
    BY <1>1, <1>2, <1>3, <1>4, Steps

\* Every variable keeps its type.
THEOREM TypeCorrect == Spec => []TypeOK
  <1> QED
    BY TypeInit, TypeStep, PTL DEF Spec

-----------------------------------------------------------------------------
(* Names without a team have neither members nor rights. *)

LEMMA NewTeamsInit == Init => NewTeamsStartEmpty
  BY FirstAssumption DEF Init, NewTeamsStartEmpty, Principals

LEMMA NewTeamsStep ==
  ASSUME TypeOK, NewTeamsStartEmpty, [Next]_vars
  PROVE  NewTeamsStartEmpty'
  <1> USE DEF NewTeamsStartEmpty
  <1>0. /\ access \in [Principals -> Access] /\ members \subseteq Users \X Teams /\ teams \subseteq Teams
        /\ Teams \subseteq Principals /\ \A t \in Teams : t \notin Users
    BY DisjointAssumption DEF TypeOK, Principals
  <1>1. CASE UNCHANGED <<teams, members, access>>
    BY <1>1
  <1>2. ASSUME NEW u \in Users, ProjectStep(u)
        PROVE  NewTeamsStartEmpty'
    <2>1. CASE Create(u)
      BY <1>0, <2>1 DEF Create, teamVars
    <2>2. CASE Save(u)
      BY <2>2 DEF Save, teamVars
    <2>3. CASE UpdateAccess(u)
      <3>1. PICK owners \in SUBSET (Users \cup teams) :
              \E viewers \in SUBSET ((Users \cup teams) \ owners) :
                access' = [p \in Principals |-> CASE p \in owners -> "OWNER"
                                                  [] p \in viewers -> "VIEWER"
                                                  [] OTHER -> "none"]
        BY <2>3 DEF UpdateAccess
      <3>2. \A t \in Teams \ teams : access'[t] = "none"
        BY <1>0, <3>1
      <3> QED
        BY <3>2, <2>3 DEF UpdateAccess, teamVars
    <2>4. CASE Drop(u)
      BY <1>0, <2>4 DEF Drop, teamVars
    <2> QED
      BY <1>2, <2>1, <2>2, <2>3, <2>4 DEF ProjectStep
  <1>3. ASSUME NEW u \in Users, AdminStep(u)
        PROVE  NewTeamsStartEmpty'
    <2>1. ASSUME NEW t \in Teams, CreateTeam(u, t)
          PROVE  NewTeamsStartEmpty'
      BY <2>1 DEF CreateTeam, projectVars
    <2>2. ASSUME NEW t \in Teams, RemoveTeam(u, t)
          PROVE  NewTeamsStartEmpty'
      BY <1>0, <2>2 DEF RemoveTeam, RemovesRows
    <2>3. ASSUME NEW t \in Teams, NEW n \in Teams, RenameTeam(u, t, n)
          PROVE  NewTeamsStartEmpty'
      <3>1. /\ t \in teams /\ n \notin teams /\ teams' = (teams \ {t}) \cup {n}
            /\ members' = Moved(t, n)
            /\ access' = [access EXCEPT ![n] = access[t], ![t] = "none"]
        BY <2>3 DEF RenameTeam, RenamesRows
      <3>2. ASSUME NEW x \in Teams \ teams'
            PROVE  access'[x] = "none" /\ \A v \in Users : <<v, x>> \notin members'
        <4>1. x # n /\ (x = t \/ x \notin teams)
          BY <3>1
        <4>2. access'[x] = "none"
          BY <1>0, <3>1, <4>1
        <4>3. ASSUME NEW v \in Users
              PROVE  <<v, x>> \notin members'
          BY <1>0, <3>1, <4>1, MovedShape
        <4> QED
          BY <4>2, <4>3
      <3> QED
        BY <3>2
    <2>4. ASSUME NEW v \in Users, RemoveUser(u, v)
          PROVE  NewTeamsStartEmpty'
      BY <1>0, <2>4 DEF RemoveUser
    <2>5. ASSUME NEW v \in Users, NEW r \in Roles, NEW ts \in SUBSET Teams, UpdateUser(u, v, r, ts)
          PROVE  NewTeamsStartEmpty'
      BY <2>5 DEF UpdateUser, projectVars
    <2> QED
      BY <1>3, <2>1, <2>2, <2>3, <2>4, <2>5 DEF AdminStep
  <1>4. ASSUME NEW u \in Users, Send(u) \/ OwnerGuard(u) \/ Refuse(u)
        PROVE  UNCHANGED <<teams, members, access>>
    BY <1>4 DEF Send, OwnerGuard, Refuse, teamVars, projectVars
  <1> QED
    BY <1>1, <1>2, <1>3, <1>4, Steps DEF Acts, vars, teamVars, projectVars

-----------------------------------------------------------------------------
(* Owners, and what the requests let in rely on. *)

LEMMA RestInit == Init => AdminsOnly /\ SeenBefore /\ OwnersHeld /\ AllBacked
  BY DEF Init, AdminsOnly, SeenBefore, OwnersHeld, Owners, AllBacked, Backed, At

\* A step leaves version and owners alone, writes the project's row, or drops
\* the project; those who held it go on to unless it does one of the latter.
LEMMA HeldStep ==
  ASSUME TypeOK, OwnersHeld, [Next]_vars
  PROVE  /\ OwnersHeld'
         /\ \/ version' = version /\ project' = project /\ held \subseteq held'
            \/ version' = version + 1 /\ \E u \in Users : Create(u) \/ Save(u) \/ UpdateAccess(u)
            \/ version' = version /\ project' = "gone"
  <1> USE DEF OwnersHeld, Owners
  <1>0. access \in [Principals -> Access] /\ Users \subseteq Principals /\ Teams \subseteq Principals
    BY DEF TypeOK, Principals
  <1>1. CASE UNCHANGED projectVars
    BY <1>1 DEF projectVars
  <1>2. ASSUME NEW u \in Users, Create(u)
        PROVE  OwnersHeld' /\ version' = version + 1
    BY <1>0, <1>2 DEF Create, Touch
  <1>3. ASSUME NEW u \in Users, Save(u)
        PROVE  OwnersHeld' /\ version' = version + 1
    BY <1>3 DEF Save, Touch
  <1>4. ASSUME NEW u \in Users, UpdateAccess(u)
        PROVE  OwnersHeld' /\ version' = version + 1
    <2>1. project = "there" /\ project' = project
      BY <1>4 DEF UpdateAccess, Matches
    <2>2. \A p \in Principals : access'[p] = "OWNER" => p \in held'
      BY <1>4 DEF UpdateAccess
    <2>3. version' = version + 1
      BY <1>4 DEF UpdateAccess, Touch
    <2> QED
      BY <2>1, <2>2, <2>3
  <1>5. ASSUME NEW u \in Users, Drop(u)
        PROVE  OwnersHeld' /\ version' = version /\ project' = "gone"
    BY <1>5 DEF Drop
  <1>6. ASSUME NEW u \in Users, AdminStep(u)
        PROVE  OwnersHeld' /\ version' = version /\ project' = project /\ held \subseteq held'
    <2>1. ASSUME NEW t \in Teams, CreateTeam(u, t)
          PROVE  UNCHANGED projectVars
      BY <2>1 DEF CreateTeam
    <2>2. ASSUME NEW t \in Teams, RemoveTeam(u, t)
          PROVE  Owners' \subseteq Owners /\ UNCHANGED <<version, project, held>>
      BY <1>0, <2>2 DEF RemoveTeam, RemovesRows
    <2>3. ASSUME NEW t \in Teams, NEW n \in Teams, RenameTeam(u, t, n)
          PROVE  /\ \A p \in Owners' : p \in Owners \/ (p = n /\ t \in Owners /\ n \in held')
                 /\ held \subseteq held' /\ UNCHANGED <<version, project>>
      BY <1>0, <2>3 DEF RenameTeam, RenamesRows
    <2>4. ASSUME NEW v \in Users, RemoveUser(u, v)
          PROVE  Owners' \subseteq Owners /\ UNCHANGED <<version, project, held>>
      BY <1>0, <2>4 DEF RemoveUser
    <2>5. ASSUME NEW v \in Users, NEW r \in Roles, NEW ts \in SUBSET Teams, UpdateUser(u, v, r, ts)
          PROVE  UNCHANGED projectVars
      BY <2>5 DEF UpdateUser
    <2>6. CASE \E t \in Teams, n \in Teams : RenameTeam(u, t, n)
      BY <2>3, <2>6
    <2>7. CASE UNCHANGED projectVars
      BY <2>7 DEF projectVars
    <2> HIDE DEF Owners
    <2>8. CASE Owners' \subseteq Owners /\ UNCHANGED <<version, project, held>>
      BY <2>8
    <2> QED
      BY <1>6, <2>1, <2>2, <2>4, <2>5, <2>6, <2>7, <2>8 DEF AdminStep
  <1>7. ASSUME NEW u \in Users, Send(u) \/ OwnerGuard(u) \/ Refuse(u)
        PROVE  UNCHANGED projectVars
    BY <1>7 DEF Send, OwnerGuard, Refuse
  <1>8. UNCHANGED vars => UNCHANGED projectVars
    BY DEF vars
  <1>9. UNCHANGED projectVars => version' = version /\ project' = project /\ held' = held
    BY DEF projectVars
  <1> HIDE DEF OwnersHeld, Owners
  <1> QED
    BY <1>1, <1>2, <1>3, <1>4, <1>5, <1>6, <1>7, <1>8, <1>9, Steps DEF Acts, ProjectStep

LEMMA RequestsStep ==
  ASSUME TypeOK, OwnersHeld, AdminsOnly, SeenBefore, [Next]_vars
  PROVE  AdminsOnly' /\ SeenBefore'
  <1>1. version \in Nat /\ version' \in Nat /\ version <= version'
    <2>1. version \in Nat
      BY DEF TypeOK
    <2> QED
      BY <2>1, HeldStep
  <1>2. \A v \in Users : req[v] # Idle => req[v].seen \in Nat
    BY RequestThere
  <1>3. ASSUME NEW v \in Users, req'[v] = req[v] \/ req'[v] = Idle
        PROVE  /\ At(v, "handle", "admin")' => req'[v].role = "admin"
               /\ req'[v] # Idle => req'[v].seen <= version'
    BY <1>1, <1>2, <1>3 DEF AdminsOnly, SeenBefore, At
  <1>4. ASSUME NEW u \in Users, Send(u)
        PROVE  /\ At(u, "handle", "admin")' => req'[u].role = "admin"
               /\ req'[u] # Idle => req'[u].seen <= version'
               /\ \A v \in Users \ {u} : req'[v] = req[v]
    <2>1. version' = version
      BY <1>4 DEF Send, projectVars
    <2> QED
      BY <1>4, <2>1, Sends DEF At
  <1>5. ASSUME NEW u \in Users, OwnerGuard(u)
        PROVE  /\ At(u, "handle", "admin")' => req'[u].role = "admin"
               /\ req'[u] # Idle => req'[u].seen <= version'
               /\ \A v \in Users \ {u} : req'[v] = req[v]
    <2>1. version' = version
      BY <1>5 DEF OwnerGuard, projectVars
    <2>2. req[u] # Idle /\ req[u].seen <= version
      BY <1>5 DEF OwnerGuard, At, SeenBefore
    <2>3. /\ req'[u] # Idle => req'[u].kind = "own" /\ req'[u].seen = req[u].seen
          /\ \A v \in Users \ {u} : req'[v] = req[v]
      BY <1>5, Guards
    <2> QED
      BY <2>1, <2>2, <2>3 DEF At
  <1>6. ASSUME NEW u \in Users, Acts(u)
        PROVE  \A v \in Users : req'[v] = req[v] \/ req'[v] = Idle
    BY <1>6, ActsEnd, Ends
  <1>7. UNCHANGED vars => \A v \in Users : req'[v] = req[v]
    BY DEF vars
  <1>8. \A v \in Users : /\ At(v, "handle", "admin")' => req'[v].role = "admin"
                         /\ req'[v] # Idle => req'[v].seen <= version'
    BY <1>3, <1>4, <1>5, <1>6, <1>7, Steps
  <1> QED
    BY <1>8 DEF AdminsOnly, SeenBefore

\* Who was let in stays backed, or has a version that no longer matches.
LEMMA StaysBacked ==
  ASSUME TypeOK, OwnersHeld, SeenBefore, AllBacked, [Next]_vars,
         NEW v \in Users, req'[v] = req[v]
  PROVE  Backed(v)'
  <1> SUFFICES ASSUME At(v, "handle", "own")', Matches(v)'
               PROVE  (req[v].role = "admin" \/ ActsAs(v) \cap held # {})'
    BY DEF Backed
  <1>1. /\ At(v, "handle", "own") /\ req[v] # Idle /\ project' = "there" /\ version' = req[v].seen
        /\ req'[v].role = req[v].role /\ ActsAs(v)' = ActsAs(v)
    BY DEF At, Matches, ActsAs
  <1>2. req[v].seen <= version /\ req[v].seen \in Nat /\ version \in Nat
    BY <1>1, RequestThere DEF SeenBefore, TypeOK
  <1>3. version' = version /\ project' = project /\ held \subseteq held'
    BY <1>1, <1>2, HeldStep
  <1>4. req[v].role = "admin" \/ ActsAs(v) \cap held # {}
    BY <1>1, <1>3 DEF AllBacked, Backed, Matches
  <1> QED
    BY <1>1, <1>3, <1>4

LEMMA BackedStep ==
  ASSUME TypeOK, OwnersHeld, SeenBefore, AllBacked, [Next]_vars
  PROVE  AllBacked'
  <1>1. ASSUME NEW u \in Users, Send(u)
        PROVE  Backed(u)' /\ \A v \in Users \ {u} : req'[v] = req[v]
    <2>1. req'[u].kind = "own" /\ req'[u].pc = "handle" => req'[u].role = "admin"
      BY <1>1, Sends
    <2> QED
      BY <1>1, <2>1, Sends DEF Backed, At
  <1>2. ASSUME NEW u \in Users, OwnerGuard(u)
        PROVE  Backed(u)' /\ \A v \in Users \ {u} : req'[v] = req[v]
    <2>1. /\ req'[u] # Idle => CanOwn(u) /\ req'[u].teams = req[u].teams
          /\ \A v \in Users \ {u} : req'[v] = req[v]
          /\ held' = held /\ req[u] # Idle
      BY <1>2, Guards DEF projectVars
    <2>2. CASE req'[u] # Idle
      <3>1. PICK p \in ActsAs(u) : access[p] = "OWNER"
        BY <2>1, <2>2 DEF CanOwn
      <3>2. ActsAs(u)' = ActsAs(u) /\ ActsAs(u) \subseteq Principals
        BY <2>1, <2>2, RequestThere DEF ActsAs, Principals
      <3>3. p \in held'
        BY <2>1, <3>1, <3>2 DEF OwnersHeld, Owners
      <3> QED
        BY <2>1, <3>1, <3>2, <3>3 DEF Backed
    <2>3. CASE req'[u] = Idle
      <3>1. ~At(u, "handle", "own")'
        BY <2>3 DEF At
      <3> QED
        BY <2>1, <3>1 DEF Backed
    <2> QED
      BY <2>1, <2>2, <2>3
  <1>3. ASSUME NEW u \in Users, Acts(u)
        PROVE  Backed(u)' /\ \A v \in Users \ {u} : req'[v] = req[v]
    BY <1>3, ActsEnd, Ends DEF Backed, At
  <1>4. UNCHANGED vars => \A v \in Users : req'[v] = req[v]
    BY DEF vars
  <1>5. \A v \in Users : req'[v] = req[v] => Backed(v)'
    BY StaysBacked
  <1> QED
    BY <1>1, <1>2, <1>3, <1>4, <1>5, Steps DEF AllBacked

THEOREM Invariant == Spec => []IInv
  <1>1. Init => IInv
    BY TypeInit, NewTeamsInit, RestInit DEF IInv
  <1>2. IInv /\ [Next]_vars => IInv'
    BY TypeStep, NewTeamsStep, HeldStep, RequestsStep, BackedStep DEF IInv
  <1> QED
    BY <1>1, <1>2, PTL DEF Spec

\* A name without a team has neither members nor rights, so that a new team
\* starts with none (the cascades of TeamMembership and ProjectTeamAccess).
THEOREM NewTeamsStart == Spec => []NewTeamsStartEmpty
  <1>1. IInv => NewTeamsStartEmpty
    BY DEF IInv
  <1> QED
    BY <1>1, Invariant, PTL

-----------------------------------------------------------------------------
(* Who sets the access lists, and when the owners are gone. *)

\* The request that writes the project's row.
LEMMA Writers ==
  ASSUME TypeOK, NEW u \in Users, Create(u) \/ Save(u) \/ UpdateAccess(u),
         NEW v \in Users, req[v] # Idle, req'[v] = Idle
  PROVE  v = u
  <1>1. Acts(u)
    BY DEF Acts, ProjectStep
  <1> QED
    BY <1>1, ActsEnd, Ends

LEMMA StandingStep ==
  ASSUME IInv, [Next]_vars, NEW v \in Users,
         At(v, "handle", "own"), version' # version, req'[v] = Idle
  PROVE  req[v].role = "admin" \/ ActsAs(v) \cap held # {}
  <1>1. PICK u \in Users : Create(u) \/ Save(u) \/ UpdateAccess(u)
    BY HeldStep DEF IInv
  <1>2. u = v
    BY <1>1, Writers DEF IInv, At
  <1>3. Matches(v)
    BY <1>1, <1>2 DEF Create, Save, UpdateAccess, At
  <1> QED
    BY <1>3 DEF IInv, AllBacked, Backed

\* An access update is never the work of somebody whom another access update
\* had taken off the owner list after his request was let in
\* (ProjectOwnerGuard, ProjectsService.updateAccess).
THEOREM StandingOwners == Spec => OnlyStandingOwnersSetAccess
  <1>1. IInv /\ [Next]_vars =>
          [\A u \in Users : At(u, "handle", "own") /\ version' # version /\ req'[u] = Idle =>
             req[u].role = "admin" \/ ActsAs(u) \cap held # {}]_vars
    BY StandingStep
  <1> QED
    BY <1>1, Invariant, PTL DEF Spec, OnlyStandingOwnersSetAccess

LEMMA LastOwnerStep ==
  ASSUME IInv, [Next]_vars, project = "there", project' = "there", Owners # {}, Owners' = {}
  PROVE  \E u \in Users : req[u] # Idle /\ req[u].role = "admin" /\ req'[u] = Idle
  <1>0. TypeOK /\ access \in [Principals -> Access] /\ Users \subseteq Principals /\ Teams \subseteq Principals
    BY DEF IInv, TypeOK, Principals
  <1>1. access' # access
    BY DEF Owners
  <1>2. PICK u \in Users : ProjectStep(u) \/ AdminStep(u)
    BY <1>1, Steps DEF Acts, Send, OwnerGuard, Refuse, projectVars, vars
  <1>3. req[u] # Idle /\ req'[u] = Idle
    BY <1>0, <1>2, ActsEnd, Ends DEF Acts
  <1>4. CASE Create(u)
    BY <1>4 DEF Create
  <1>5. CASE Save(u)
    BY <1>1, <1>5 DEF Save
  <1>6. CASE UpdateAccess(u)
    <2>1. PICK owners \in SUBSET (Users \cup teams) :
            \E viewers \in SUBSET ((Users \cup teams) \ owners) :
              /\ StaysOn(u, owners, viewers)
              /\ access' = [p \in Principals |-> CASE p \in owners -> "OWNER"
                                                   [] p \in viewers -> "VIEWER"
                                                   [] OTHER -> "none"]
      BY <1>6 DEF UpdateAccess
    <2>2. ActsAs(u) \subseteq Principals
      BY <1>0, <1>3, RequestThere DEF ActsAs, Principals
    <2>3. ActsAs(u) \cap owners = {}
      BY <2>1, <2>2 DEF Owners
    <2> QED
      BY <1>3, <2>1, <2>3 DEF StaysOn
  <1>7. CASE Drop(u)
    BY <1>7 DEF Drop
  <1>8. CASE AdminStep(u)
    <2>1. At(u, "handle", "admin")
      BY <1>8 DEF AdminStep, CreateTeam, RenameTeam, RemoveTeam, UpdateUser, RemoveUser, Change
    <2> QED
      BY <1>3, <2>1 DEF IInv, AdminsOnly
  <1> QED
    BY <1>2, <1>4, <1>5, <1>6, <1>7, <1>8 DEF ProjectStep

\* A project loses its last OWNER row only by what an administrator does
\* (the check of ProjectsService.updateAccess, and the cascades).
THEOREM LastOwner == Spec => LastOwnerRowStays
  <1>1. IInv /\ [Next]_vars =>
          [project = "there" /\ project' = "there" /\ Owners # {} /\ Owners' = {} =>
             \E u \in Users : req[u] # Idle /\ req[u].role = "admin" /\ req'[u] = Idle]_vars
    BY LastOwnerStep
  <1> QED
    BY <1>1, Invariant, PTL DEF Spec, LastOwnerRowStays

-----------------------------------------------------------------------------
(* What steps on teams do to rights. *)

\* The rights u's access rows give.
Rights(u) == {access[p] : p \in {u} \cup TeamsOf(u)} \ {"none"}

LEMMA RightsTell ==
  ASSUME NEW u \in Users
  PROVE  /\ MayOwn(u) <=> "OWNER" \in Rights(u)
         /\ MayView(u) <=> u \notin denied /\ Rights(u) # {}
         /\ MayOwn(u)' <=> "OWNER" \in Rights(u)'
         /\ MayView(u)' <=> u \notin denied' /\ Rights(u)' # {}
  <1>1. /\ MayOwn(u) <=> "OWNER" \in Rights(u)
        /\ MayView(u) <=> u \notin denied /\ Rights(u) # {}
    BY DEF MayOwn, MayView, Rights
  <1>2. /\ MayOwn(u)' <=> "OWNER" \in Rights(u)'
        /\ MayView(u)' <=> u \notin denied' /\ Rights(u)' # {}
    BY DEF MayOwn, MayView, Rights
  <1> QED
    BY <1>1, <1>2

LEMMA RenameKeepsRights ==
  ASSUME TypeOK, NewTeamsStartEmpty, NEW w \in Users, NEW t \in Teams, NEW n \in Teams,
         RenameTeam(w, t, n), NEW u \in Users
  PROVE  Rights(u)' = Rights(u)
  <1>1. /\ t \in teams /\ n \notin teams /\ t # n /\ u # t /\ u # n
        /\ members' = Moved(t, n)
        /\ access' = [access EXCEPT ![n] = access[t], ![t] = "none"]
    BY DisjointAssumption DEF RenameTeam, RenamesRows
  <1>2. /\ access \in [Principals -> Access] /\ members \subseteq Users \X Teams
        /\ t \in Principals /\ n \in Principals
    BY DEF TypeOK, Principals
  <1>3. access[n] = "none" /\ <<u, n>> \notin members
    BY <1>1 DEF NewTeamsStartEmpty
  <1>4. \A x \in Teams : <<u, x>> \in members' <=>
          \/ x # t /\ <<u, x>> \in members
          \/ x = n /\ <<u, t>> \in members
    BY <1>1, <1>2, MovedShape
  <1>5. /\ access'[n] = access[t] /\ access'[t] = "none" /\ access'[u] = access[u]
        /\ \A x \in Teams \ {t, n} : access'[x] = access[x]
    BY <1>1, <1>2 DEF Principals
  <1>6. \A x \in Teams \ {t, n} : x \in TeamsOf(u)' <=> x \in TeamsOf(u)
    BY <1>4 DEF TeamsOf
  <1>7. /\ n \in TeamsOf(u)' <=> t \in TeamsOf(u)
        /\ t \notin TeamsOf(u)' /\ n \notin TeamsOf(u)
    BY <1>1, <1>3, <1>4 DEF TeamsOf
  <1>8. TeamsOf(u) \subseteq Teams /\ TeamsOf(u)' \subseteq Teams
    BY DEF TeamsOf
  <1>9. ASSUME NEW a, a \in Rights(u)
        PROVE  a \in Rights(u)'
    <2>1. PICK p \in {u} \cup TeamsOf(u) : access[p] = a
      BY <1>9 DEF Rights
    <2>2. a # "none"
      BY <1>9 DEF Rights
    <2>3. CASE p = t
      BY <2>1, <2>2, <2>3, <1>1, <1>5, <1>7 DEF Rights
    <2>4. CASE p # t
      BY <2>1, <2>2, <2>4, <1>5, <1>6, <1>7, <1>8 DEF Rights
    <2> QED
      BY <2>3, <2>4
  <1>10. ASSUME NEW a, a \in Rights(u)'
         PROVE  a \in Rights(u)
    <2>1. PICK p \in {u} \cup TeamsOf(u)' : access'[p] = a
      BY <1>10 DEF Rights
    <2>2. a # "none"
      BY <1>10 DEF Rights
    <2>3. CASE p = n
      BY <2>1, <2>2, <2>3, <1>1, <1>5, <1>7 DEF Rights
    <2>4. CASE p # n
      BY <2>1, <2>2, <2>4, <1>5, <1>6, <1>7, <1>8 DEF Rights
    <2> QED
      BY <2>3, <2>4
  <1> QED
    BY <1>9, <1>10

LEMMA TeamStep ==
  ASSUME TypeOK, NewTeamsStartEmpty, [Next]_vars, teams' # teams, NEW u \in Users
  PROVE  /\ MayOwn(u)' => MayOwn(u)
         /\ MayView(u)' => MayView(u)
         /\ teams' \subseteq teams \/ (MayOwn(u)' = MayOwn(u) /\ MayView(u)' = MayView(u))
  <1>1. PICK w \in Users : AdminStep(w)
    <2>1. PICK w \in Users : Send(w) \/ OwnerGuard(w) \/ Acts(w)
      BY Steps DEF vars, teamVars
    <2>2. ProjectStep(w) => UNCHANGED teamVars
      BY ProjectTypes
    <2>3. Send(w) \/ OwnerGuard(w) \/ Refuse(w) => UNCHANGED teamVars
      BY DEF Send, OwnerGuard, Refuse
    <2> QED
      BY <2>1, <2>2, <2>3 DEF Acts, teamVars
  <1>2. denied' = denied
    BY <1>1, AdminTypes
  <1>3. CASE Rights(u)' = Rights(u)
    <2>1. (MayOwn(u)' <=> MayOwn(u)) /\ (MayView(u)' <=> MayView(u))
      BY <1>2, <1>3, RightsTell
    <2>2. MayOwn(u) \in BOOLEAN /\ MayView(u) \in BOOLEAN /\ MayOwn(u)' \in BOOLEAN /\ MayView(u)' \in BOOLEAN
      BY DEF MayOwn, MayView
    <2> QED
      BY <2>1, <2>2, Zenon
  <1>4. CASE Rights(u)' \subseteq Rights(u) /\ teams' \subseteq teams
    BY <1>2, <1>4, RightsTell
  <1>5. ASSUME NEW t \in Teams, CreateTeam(w, t)
        PROVE  Rights(u)' = Rights(u)
    BY <1>5 DEF CreateTeam, projectVars, Rights, TeamsOf
  <1>6. ASSUME NEW t \in Teams, RemoveTeam(w, t)
        PROVE  Rights(u)' \subseteq Rights(u) /\ teams' \subseteq teams
    <2>1. members' \subseteq members /\ access' = [access EXCEPT ![t] = "none"] /\ teams' \subseteq teams
      BY <1>6 DEF RemoveTeam, RemovesRows
    <2>2. TeamsOf(u)' \subseteq TeamsOf(u)
      BY <2>1 DEF TeamsOf
    <2>3. {u} \cup TeamsOf(u) \subseteq Principals /\ access \in [Principals -> Access]
      BY DEF TeamsOf, Principals, TypeOK
    <2>4. \A p \in {u} \cup TeamsOf(u) : access'[p] \in {access[p], "none"}
      BY <2>1, <2>3
    <2> QED
      BY <2>1, <2>2, <2>4 DEF Rights
  <1>7. ASSUME NEW t \in Teams, NEW n \in Teams, RenameTeam(w, t, n)
        PROVE  Rights(u)' = Rights(u)
    BY <1>7, RenameKeepsRights
  <1>8. ASSUME NEW v \in Users, RemoveUser(w, v)
        PROVE  FALSE
    BY <1>8 DEF RemoveUser
  <1>9. ASSUME NEW v \in Users, NEW r \in Roles, NEW ts \in SUBSET Teams, UpdateUser(w, v, r, ts)
        PROVE  FALSE
    BY <1>9 DEF UpdateUser
  <1> QED
    BY <1>1, <1>3, <1>4, <1>5, <1>6, <1>7, <1>8, <1>9 DEF AdminStep

\* Creating and renaming teams changes nobody's rights, and removing one gives
\* none (AdminTeamsService; the id of a team is its name).
THEOREM TeamsGiveNothing == Spec => TeamStepsGiveNothing
  <1>1. IInv /\ [Next]_vars =>
          [teams' # teams =>
             \A u \in Users :
               /\ MayOwn(u)' => MayOwn(u)
               /\ MayView(u)' => MayView(u)
               /\ teams' \subseteq teams
                    \/ (MayOwn(u)' = MayOwn(u) /\ MayView(u)' = MayView(u))]_vars
    BY TeamStep DEF IInv
  <1> QED
    BY <1>1, Invariant, PTL DEF Spec, TeamStepsGiveNothing
=============================================================================
