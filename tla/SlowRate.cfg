SPECIFICATION Spec
CONSTANTS
  Threads = {t1}
  NoThread = NoThread
  One = 4
  Eps = 1
  Rate = 1
  TicksPerSecond = 2
  Capacity = 2
  Quota = 1
  MaxTime = 8
INVARIANTS
  ConvergesInOneExtraLoop
CHECK_DEADLOCK FALSE
