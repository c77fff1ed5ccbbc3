CONSTANTS
  Users = {u1, u2}
  FirstUsers = {u1}
  Requests = {r1, r2, r3}
  Destinations = {"./public/uploads", "/uploads"}
  MaxTime = 2
  None = None
SPECIFICATION Spec
INVARIANT PictureThere
CHECK_DEADLOCK FALSE
