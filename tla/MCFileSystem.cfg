CONSTANTS
  Proc = {q1, q2}
  NFILE = 2
  NOFILE = 2
  MaxOff = 2
  p1 = p1
  p2 = p2
  p3 = p3
  q1 = q1
  q2 = q2
SYMMETRY Symmetry
SPECIFICATION MCSpec
INVARIANTS
  ReferencesCounted
  
  FilesCounted
  BlocksOwned
  ContentsReadBack
