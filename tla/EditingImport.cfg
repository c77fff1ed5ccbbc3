CONSTANTS
  u1 = u1
  u2 = u2
  c1 = c1
  c2 = c2
  Users = {u1, u2}
  Clients = {c1, c2}
  UserOf <- TwoTabs
  Endpoints = {e1, e2}
  Keys = {k1, k2}
  Statuses = {DRAFT, IN_REVIEW}
  Draft = DRAFT
  Kinds = {"create", "import", "save", "delete", "drop"}
  LockDuration = 2
  WriteGap = 1
  MaxTime = 2
  MaxCommits = 2
  NoLease = NoLease
  Unborn = Unborn
  Deleted = Deleted
  Idle = Idle
  Fresh = Fresh
  Omitted = Omitted
SPECIFICATION Spec
SYMMETRY Symmetry
INVARIANTS KeysUnique
PROPERTIES ImportInstallsSpec ProjectWriteReplacesWhatWasSeen DeletedForGood
