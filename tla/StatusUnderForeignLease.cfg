CONSTANTS
  u1 = u1
  u2 = u2
  c1 = c1
  c2 = c2
  Users = {u1, u2}
  Clients = {c1, c2}
  UserOf <- TwoTabs
  Endpoints = {e1}
  Keys = {k1}
  Statuses = {DRAFT, IN_REVIEW}
  Draft = DRAFT
  Kinds = {"lock", "status", "delete"}
  LockDuration = 2
  WriteGap = 1
  MaxTime = 4
  MaxCommits = 3
  NoLease = NoLease
  Unborn = Unborn
  Deleted = Deleted
  Idle = Idle
  Fresh = Fresh
  Omitted = Omitted
SPECIFICATION Spec
PROPERTIES LeaseProtectsEndpoint
