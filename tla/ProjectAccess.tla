---------------------------- MODULE ProjectAccess ----------------------------
(***************************************************************************)
(* Who may see and change a project: roles, team memberships, the access   *)
(* rows of users and teams, the deny list; ProjectOwnerGuard and the other *)
(* guards, ProjectsService.updateAccess, AdminTeamsService and the user    *)
(* routes of the administrator that move memberships.                      *)
(*                                                                         *)
(* A request is authorised by what JwtStrategyFastify loaded with it (role *)
(* and teams), then by the access rows its guard finds, and acts later:    *)
(* each of the three is a query of its own.  One project is followed from  *)
(* its creation to its deletion.  What an access update asks for is chosen *)
(* when it reaches the database; nothing depends on it earlier, and the    *)
(* check of the request alone leaves out the requests it refuses.          *)
(***************************************************************************)
EXTENDS Integers, FiniteSets

CONSTANTS Users,
          Teams,       \* team names; the id of a team is its name in lower case
          FirstRoles, FirstTeams, FirstMembers, \* before the project is created
          MaxVersion,  \* bound on the writes to the project's row
          MaxChanges,  \* bound on what administrators do to users and teams
          Idle

ASSUME DisjointAssumption == Users \cap Teams = {}
ASSUME FirstAssumption ==
  /\ FirstRoles \in [Users -> {"guest", "member", "admin"}]
  /\ FirstTeams \subseteq Teams /\ FirstMembers \subseteq Users \X FirstTeams
ASSUME BoundAssumption == MaxVersion \in Nat /\ MaxChanges \in Nat

VARIABLES role,     \* Users -> role
          removed,  \* users deleted (softly)
          teams,    \* the teams there are
          members,  \* TeamMembership rows, pairs <<user, team>>
          project,  \* "unborn", "there" or "gone"
          version,  \* its updatedAt, as the number of the write
          access,   \* the access rows of users and teams
          denied,   \* its deny list
          held,     \* history: who had an OWNER row since the lists were last set
          changes,  \* how often administrators changed users and teams
          req       \* Users -> the request in progress, or Idle

accountVars == <<role, removed>>
teamVars == <<teams, members>>
projectVars == <<project, version, access, denied, held>>
vars == <<accountVars, teamVars, projectVars, changes, req>>

Roles == {"guest", "member", "admin"}
Principals == Users \cup Teams
Access == {"none", "VIEWER", "OWNER"}
Kinds == {"own", "create", "admin"}
Request == [pc : {"guard", "handle"}, kind : Kinds, role : Roles,
            teams : SUBSET Teams, seen : Nat]

ASSUME IdleAssumption == Idle \notin Request

TypeOK ==
  /\ role \in [Users -> Roles] /\ removed \subseteq Users
  /\ teams \subseteq Teams /\ members \subseteq Users \X Teams
  /\ project \in {"unborn", "there", "gone"} /\ version \in Nat
  /\ access \in [Principals -> Access]
  /\ denied \subseteq Users /\ held \subseteq Principals
  /\ changes \in Nat
  /\ req \in [Users -> Request \cup {Idle}]

Init ==
  /\ role = FirstRoles /\ removed = {}
  /\ teams = FirstTeams /\ members = FirstMembers
  /\ project = "unborn" /\ version = 0
  /\ access = [p \in Principals |-> "none"]
  /\ denied = {} /\ held = {}
  /\ changes = 0
  /\ req = [u \in Users |-> Idle]

TeamsOf(u) == {t \in Teams : <<u, t>> \in members}
Owners == {p \in Principals : access[p] = "OWNER"}

-----------------------------------------------------------------------------
(* Requests: the strategy, then the route's guard. *)

Start(u, r) == req' = [req EXCEPT ![u] = r]
Done(u) == Start(u, Idle)

\* The teams a request acts for, as the strategy loaded them.
LoadsTeams(u) == TeamsOf(u)

\* A request on a route of the project's owners carries the version its client
\* has loaded (one with an older version is refused); ProjectCreationGuard and
\* RolesGuard, on the other routes, look at the loaded role only.  An
\* administrator passes ProjectOwnerGuard without a query.
Send(u) ==
  /\ req[u] = Idle /\ u \notin removed
  /\ \/ Start(u, [pc |-> IF role[u] = "admin" THEN "handle" ELSE "guard", kind |-> "own",
                  role |-> role[u], teams |-> LoadsTeams(u), seen |-> version])
     \/ /\ role[u] \in {"admin", "member"}
        /\ Start(u, [pc |-> "handle", kind |-> "create", role |-> role[u], teams |-> {}, seen |-> 0])
     \/ /\ role[u] = "admin"
        /\ Start(u, [pc |-> "handle", kind |-> "admin", role |-> role[u], teams |-> {}, seen |-> 0])
  /\ UNCHANGED <<accountVars, teamVars, projectVars, changes>>

At(u, pc, kind) == req[u] # Idle /\ req[u].pc = pc /\ req[u].kind = kind

\* The access rows that speak for u's request.
ActsAs(u) == {u} \cup req[u].teams
CanOwn(u) == project = "there" /\ \E p \in ActsAs(u) : access[p] = "OWNER"

OwnerGuard(u) ==
  /\ At(u, "guard", "own")
  /\ Start(u, IF CanOwn(u) THEN [req[u] EXCEPT !.pc = "handle"] ELSE Idle)
  /\ UNCHANGED <<accountVars, teamVars, projectVars, changes>>

\* A handler that refuses, or fails, leaves everything as it was.
Refuse(u) ==
  /\ req[u] # Idle /\ req[u].pc = "handle"
  /\ Done(u)
  /\ UNCHANGED <<accountVars, teamVars, projectVars, changes>>

-----------------------------------------------------------------------------
(* The project's routes. *)

\* The row is written: its version moves.
Touch(u) ==
  /\ version < MaxVersion
  /\ version' = version + 1
  /\ Done(u)

\* Project and OWNER row in one transaction.
Create(u) ==
  /\ At(u, "handle", "create") /\ project = "unborn"
  /\ project' = "there"
  /\ access' = [access EXCEPT ![u] = "OWNER"]
  /\ held' = {u}
  /\ Touch(u)
  /\ UNCHANGED <<accountVars, teamVars, denied, changes>>

\* Mutant: any version will do.
MatchesAny(u) == project = "there"
\* lastKnownUpdatedAt is the version in place.
Matches(u) == project = "there" /\ version = req[u].seen

Save(u) ==
  /\ At(u, "handle", "own") /\ Matches(u)
  /\ Touch(u)
  /\ UNCHANGED <<accountVars, teamVars, project, access, denied, held, changes>>

\* Mutant: a sender who stays on as a viewer is let through.
StaysOnAny(u, owners, viewers) ==
  req[u].role = "admin" \/ ActsAs(u) \cap (owners \cup viewers) # {}
\* "Project owners cannot remove themselves from the owner list."
StaysOn(u, owners, viewers) ==
  req[u].role = "admin" \/ ActsAs(u) \cap owners # {}

\* The lists are replaced as a whole.  A user or team named twice violates the
\* primary key, a team that is gone the foreign key: the transaction fails.
UpdateAccess(u) ==
  /\ At(u, "handle", "own") /\ Matches(u)
  /\ \E owners \in SUBSET (Users \cup teams) :
       \E viewers \in SUBSET ((Users \cup teams) \ owners), deny \in SUBSET Users :
         /\ StaysOn(u, owners, viewers)
         /\ access' = [p \in Principals |-> CASE p \in owners -> "OWNER"
                                              [] p \in viewers -> "VIEWER"
                                              [] OTHER -> "none"]
         /\ denied' = deny
         /\ held' = owners
  /\ Touch(u)
  /\ UNCHANGED <<accountVars, teamVars, project, changes>>

\* The access rows go by cascade.
Drop(u) ==
  /\ At(u, "handle", "own") /\ project = "there"
  /\ project' = "gone"
  /\ access' = [p \in Principals |-> "none"]
  /\ denied' = {} /\ held' = {}
  /\ Done(u)
  /\ UNCHANGED <<accountVars, teamVars, version, changes>>

-----------------------------------------------------------------------------
(* The administrator's routes. *)

Change(u) ==
  /\ At(u, "handle", "admin")
  /\ changes < MaxChanges /\ changes' = changes + 1
  /\ Done(u)

CreateTeam(u, t) ==
  /\ Change(u) /\ t \notin teams
  /\ teams' = teams \cup {t}
  /\ UNCHANGED <<accountVars, members, projectVars>>

Moved(t, n) == {m \in members : m[2] # t} \cup {<<m[1], n>> : m \in {x \in members : x[2] = t}}
\* Mutant: the access rows stay with the old name.
RenamesMembers(t, n) == members' = Moved(t, n) /\ UNCHANGED <<access, held>>
\* The id changes, and the rows that refer to it follow (ON UPDATE CASCADE).
RenamesRows(t, n) ==
  /\ members' = Moved(t, n)
  /\ access' = [access EXCEPT ![n] = access[t], ![t] = "none"]
  /\ held' = IF access[t] = "OWNER" THEN held \cup {n} ELSE held

RenameTeam(u, t, n) ==
  /\ Change(u) /\ t \in teams /\ n \notin teams
  /\ teams' = (teams \ {t}) \cup {n}
  /\ RenamesRows(t, n)
  /\ UNCHANGED <<accountVars, project, version, denied>>

\* Mutant: the access rows of a removed team stay.
RemovesMembers(t) ==
  /\ members' = {m \in members : m[2] # t}
  /\ UNCHANGED access
\* Memberships and access rows go with the team (ON DELETE CASCADE); neither
\* this nor a new name moves the project's version.
RemovesRows(t) ==
  /\ members' = {m \in members : m[2] # t}
  /\ access' = [access EXCEPT ![t] = "none"]

RemoveTeam(u, t) ==
  /\ Change(u) /\ t \in teams
  /\ teams' = teams \ {t}
  /\ RemovesRows(t)
  /\ UNCHANGED <<accountVars, project, version, denied, held>>

\* The role, and the teams as a whole; removed users are not excluded.
UpdateUser(u, v, r, ts) ==
  /\ Change(u)
  /\ ts \subseteq teams
  /\ role' = [role EXCEPT ![v] = r]
  /\ members' = {m \in members : m[1] # v} \cup ({v} \X ts)
  /\ UNCHANGED <<removed, teams, projectVars>>

\* Memberships and access rows are deleted; the deny list keeps the user.
RemoveUser(u, v) ==
  /\ Change(u) /\ v # u /\ v \notin removed
  /\ removed' = removed \cup {v}
  /\ members' = {m \in members : m[1] # v}
  /\ access' = [access EXCEPT ![v] = "none"]
  /\ UNCHANGED <<role, teams, project, version, denied, held>>

AdminStep(u) ==
  \/ \E t \in Teams : CreateTeam(u, t) \/ RemoveTeam(u, t)
  \/ \E t, n \in Teams : RenameTeam(u, t, n)
  \/ \E v \in Users : RemoveUser(u, v) \/ \E r \in Roles, ts \in SUBSET Teams : UpdateUser(u, v, r, ts)

ProjectStep(u) ==
  Create(u) \/ Save(u) \/ UpdateAccess(u) \/ Drop(u)

Next ==
  \E u \in Users :
    \/ Send(u) \/ OwnerGuard(u) \/ Refuse(u) \/ ProjectStep(u) \/ AdminStep(u)

Spec == Init /\ [][Next]_vars

-----------------------------------------------------------------------------
(* Properties. *)

\* Memberships and access rows speak of teams there are: a team created under
\* the name of one that was removed or renamed starts without members and
\* without rights, whatever access update was under way meanwhile.
NewTeamsStartEmpty ==
  \A t \in Teams \ teams : access[t] = "none" /\ \A u \in Users : <<u, t>> \notin members

\* An access update is never the work of somebody whom another access update
\* had taken off the owner list after his own request was let in: the sender
\* is, or his teams are, among those who own the project by the lists he
\* replaces (or owned it until an administrator removed the account or team).
OnlyStandingOwnersSetAccess ==
  [][\A u \in Users : At(u, "handle", "own") /\ version' # version /\ req'[u] = Idle =>
       req[u].role = "admin" \/ ActsAs(u) \cap held # {}]_vars

\* A project loses its last OWNER row by an administrator's doing only: the
\* check that an owner stays on his own list is made before the transaction
\* and with the teams loaded earlier, but what it lets through names an owner.
LastOwnerRowStays ==
  [][project = "there" /\ project' = "there" /\ Owners # {} /\ Owners' = {} =>
       \E u \in Users : req[u] # Idle /\ req[u].role = "admin" /\ req'[u] = Idle]_vars

\* u's rights as a request that begins now would have them.
MayOwn(u) == \E p \in {u} \cup TeamsOf(u) : access[p] = "OWNER"
MayView(u) == u \notin denied /\ \E p \in {u} \cup TeamsOf(u) : access[p] # "none"

\* Creating and renaming teams changes nobody's rights, and removing a team
\* takes rights but gives none, although ids are names and names are used again.
TeamStepsGiveNothing ==
  [][teams' # teams =>
       \A u \in Users :
         /\ MayOwn(u)' => MayOwn(u)
         /\ MayView(u)' => MayView(u)
         /\ teams' \subseteq teams \/ (MayOwn(u)' = MayOwn(u) /\ MayView(u)' = MayView(u))]_vars
=============================================================================
