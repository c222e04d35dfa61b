CONSTANTS
  Proc = {p1, p2}
  NBUF = 2
  Sector = {1, 2, 3}
  Value = {1, 2}
  DiskErrors = FALSE
  None = None
  INPUT_BUF = 2
  EditKeys = {"a", "NL", "^D", "^U", "^H"}
  EditN = 2
  EditUINT = 4
  EditHistory = 1
  EditLine = 1
  RecallProc = {q1}
  RecallKeys = {"a", "NL", "up"}
  RecallN = 1
  RecallUINT = 8
  RecallHistory = 2
  RecallLine = 2
SYMMETRY Symmetry
SPECIFICATION MCSpec
INVARIANTS
  BuffersCoherent
  InputKept
PROPERTIES
  BlocksServed
