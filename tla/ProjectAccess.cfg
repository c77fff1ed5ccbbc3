CONSTANTS
  u1 = u1
  u2 = u2
  t1 = t1
  Users = {u1, u2}
  Teams = {t1, t2}
  FirstRoles <- AdminAndMember
  FirstTeams = {t1}
  FirstMembers <- MemberOfTeam
  MaxVersion = 3
  MaxChanges = 1
  Idle = Idle
SPECIFICATION Spec
INVARIANT NewTeamsStartEmpty
PROPERTIES OnlyStandingOwnersSetAccess LastOwnerRowStays TeamStepsGiveNothing
CHECK_DEADLOCK FALSE
