CONSTANTS
  u1 = u1
  u2 = u2
  s1 = s1
  s2 = s2
  Users = {u1, u2}
  Sockets = {s1, s2}
  Tokens <- OneOrTwoUsers
  MaxPushes = 2
  MaxReads = 2
  None = None
SPECIFICATION FairSpec
INVARIANTS RegistryAccurate ShownIsAddressed
PROPERTIES ReadOnce PushArrives
