CONSTANTS
  Reader = {r1, r2}
  Writer = {w1, w2}
  Byte = {0, 1}
  PIPESIZE = 2
  Modulus = 4
  MaxCount = 3
  Recycle = TRUE
  Killable = {r1, r2}
  NoProc = NoProc
SPECIFICATION Spec
SYMMETRY Symmetry
INVARIANTS
  NoLostWakeup
  NotUsedAfterFree
PROPERTIES
  PipeIsFifo
