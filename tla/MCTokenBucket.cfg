SPECIFICATION FairSpec
CONSTANTS
  Threads = {t1, t2}
  NoThread = NoThread
  One = 3
  Eps = 1
  Rate = 2
  TicksPerSecond = 2
  Capacity = 4
  Quota = 2
  MaxTime = 4
INVARIANTS
  TypeOK
  WindowCap
  WallClockCap
  ConvergesInOneExtraLoop
PROPERTIES
  ImplementsRateCap
  AcquireReturns
CHECK_DEADLOCK FALSE
