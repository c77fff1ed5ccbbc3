CONSTANTS
  Users = {u1, u2}
  Ids = {e1, e2}
  Methods = {"get", "post"}
  Paths <- SortedPaths
  Params <- ParamSegments
  Lower <- LowerCase
  Contents <- SmallContents
  None = None
SPECIFICATION Spec
INVARIANTS TypeOK ReimportIsIdle LiteralWins AnswersDeclared
PROPERTIES CreatorKept
SYMMETRY Symmetry
