SPECIFICATION FairSpec
CONSTANTS
  Streams = {s1}
  Waiters = {s1}
  Bufs = 7
  FragMax = 2
  WriteMax = 1
  MaxBad = 1
  None = None
INVARIANTS
  NetInv
  BuffersAccounted
  PushFinds
PROPERTIES
  WriterResumes
  CloseCompletes
