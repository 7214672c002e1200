SPECIFICATION Spec
CONSTANTS
  SeqSpace = 32
  Iss <- MCIss
  TxSize = 4
  RxSize = 4
  Mss = 2
  RejectMax = 2
  MaxData <- MCSegment
  AnyFlush = TRUE
  MaxFaults = 1
CHECK_DEADLOCK FALSE
INVARIANTS
  ReceivedIsBetween
