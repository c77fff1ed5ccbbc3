CONSTANTS
  Users = {u1, u2}
  Admins = {u1}
  Names = {n1, n2}
  Values = {v1, v2}
  MaxIds = 2
  None = None
SPECIFICATION Spec
INVARIANTS NoOrphans NamesUnique OnlyFailuresHideNames
PROPERTIES NotesAreTheirAuthors
SYMMETRY Symmetry
