SPECIFICATION FairSpec
CONSTANTS
  t1 = t1
  t2 = t2
  t3 = t3
  Threads = {t1}
  Tasks = {k}
  Idle = idle
  Waitables = {c}
  Mutexes = {}
  SoftIrqs = {0, 1}
  TASK_PRIOS = 3
  Requested = {1, 2}
  Nobody = Nobody
PROPERTIES
  TopRuns
  DeadlineEndsSleep
  SoftIrqServed
