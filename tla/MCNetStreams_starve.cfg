SPECIFICATION FairSpec
CONSTANTS
  Streams = {s1, s2}
  Waiters = {s1, s2}
  Bufs = 3
  FragMax = 1
  WriteMax = 1
  MaxBad = 0
  None = None
CHECK_DEADLOCK FALSE
PROPERTIES
  WaiterServed
