CONSTANTS
  CPU = {c1, c2}
  Proc = {p1, p2}
  NLOCK = 2
  NoCpu = NoCpu
SPECIFICATION MCSpec
SYMMETRY Symmetry
INVARIANTS
  MutualExclusion
  HoldingAccurate
  NoPanic
  InterruptFlag
  PagesAccounted
  
PROPERTIES
  FreeListWhole
