CONSTANTS
  Proc = {p1, p2, p3}
  Inode = {i1, i2}
  NoProc = NoProc
  NoChan = NoChan
  None = None
  ncpu = 4
  bcpu = 1
SPECIFICATION MCSpec
INVARIANTS
  InodeExclusive
  NoLostWakeup
  OwnStack
PROPERTIES
  SleepIsAtomic
  WaitersServed
