SPECIFICATION FairSpec
CONSTANTS
  MsgFrags = 2
  MaxSent <- MCMaxSent
  Closers = {"dev"}
  MaxFaults = 1
  WireMax = 1
\* Both ends are gone in the end.
CHECK_DEADLOCK FALSE
INVARIANTS
  SeqpktInv
  PushFindsRoom
PROPERTIES
  BothWays
  Drains
  BothClose
