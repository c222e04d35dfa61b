CONSTANTS
  NPROC = 3
  NiceCPU = {1}
  NiceSlots = {1, 2, 3}
  PlainCPU = {1, 2}
  FairSlots = {2, 3}
  FairTicks = 2
  TimerProc = {1, 2}
  QUANTA = 2
  TimerTicks = 5
SPECIFICATION Spec
INVARIANTS
  TimerExact

  
  
