SPECIFICATION Spec
CONSTANTS
  t1 = t1
  t2 = t2
  t3 = t3
  Threads = {t1, t2, t3}
  Tasks = {}
  Idle = idle
  Waitables = {c}
  Mutexes = {m}
  SoftIrqs = {}
  TASK_PRIOS = 3
  Requested = {2, 3}
  Nobody = Nobody
SYMMETRY ThreadSymmetry
INVARIANTS
  LinkInv
  HighestRuns
  NoSleepwalking
  MutualExclusion
  NoLostUnlock
  WaitersSorted
  TimedHasTimer
PROPERTIES
  ZeroMeansWoken
