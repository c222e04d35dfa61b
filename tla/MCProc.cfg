CONSTANTS
  CPU = {1, 2}
  NPROC = 3
  MaxPid = 3
SPECIFICATION Spec
INVARIANTS
  RunningOnOneCpu
  Lineage
  WaiterHasNothingToDo
  SlotOwnership
