CONSTANTS
  Ids = {a1, a2}
  Names = {n1, n2}
  Passwords = {p1, p2}
  Identities = {i1, i2}
  Clients = {c1, c2}
  Kinds = {"login", "oauth", "set", "change", "create", "reset", "remove"}
  MaxVersion = 3
  MaxTokens = 2
  Absent = Absent
  Retired = Retired
  NoPassword = NoPassword
  Nobody = Nobody
  Idle = Idle
SPECIFICATION Spec
SYMMETRY Symmetry
INVARIANTS TokenVouches RemovedShutOut Enterable NamesUnique
PROPERTIES ChangeRevokes IdentityStays
