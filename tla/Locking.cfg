CONSTANTS
  Users = {u1, u2}
  Resources = {r1}
  Sockets = {s1}
  NoLock = NoLock
  LockDuration = 2
  CleanupInterval = 3
  TimerLag = 1
  MaxTime = 6
  MaxQueue = 2
SPECIFICATION FairSpec
INVARIANTS ViewCoherent StaleViewBounded
PROPERTIES IdealLeases CallsKeepPromise DeadLockLeavesScreen
