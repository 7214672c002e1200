SPECIFICATION Spec
CONSTANTS
  SeqSpace = 32
  Iss <- MCIss
  TxSize = 2
  RxSize = 4
  Mss = 2
  RejectMax = 1
  MaxData <- MCData
  AnyFlush = FALSE
  MaxFaults = 1
\* Both ends are gone in the end.
CHECK_DEADLOCK FALSE
INVARIANTS
  TcpInv
  ReceivedIsWritten
  EofComplete
  
