SPECIFICATION LifeSpec
CONSTANTS
  t1 = t1
  t2 = t2
  t3 = t3
  Threads = {t1, t2, t3}
  Tasks = {}
  Idle = idle
  Waitables = {join_wait}
  Mutexes = {heap_mutex}
  SoftIrqs = {}
  TASK_PRIOS = 3
  Requested = {1, 2}
  Nobody = Nobody
  JoinWait = join_wait
  HeapMutex = heap_mutex
  Detach = {FALSE}
  PsReaders = {t1}
CHECK_DEADLOCK FALSE
SYMMETRY JoinerSymmetry
INVARIANTS
  NoUseAfterFree
  OnlyExitedReleased
  CountCovers
