CONSTANTS
  Users = {u1, u2}
  FirstUsers = {u1}
  Requests = {r1, r2}
  Destinations = {"./public/uploads"}
  MaxTime = 1
  None = None
SPECIFICATION Spec
PROPERTY CleansUpTheOldOne
CHECK_DEADLOCK FALSE
