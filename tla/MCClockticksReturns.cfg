CONSTANTS
  p1 = p1
  p2 = p2
  r1 = r1
  r2 = r2
  w = w
  Proc = {p1, p2}
  Timer = Timer
  Sched = Sched
  Modulus = 3
  Delay <- MCDelay
  None = None
SPECIFICATION MCSpec
CHECK_DEADLOCK FALSE
CONSTANT Fair2Q = FALSE
PROPERTIES
  ClockticksReturns
