SPECIFICATION Spec
CONSTANTS
  Ids = {0}
  Handles = {c1}
  Reconnect = {c1}
  Waits = {FALSE}
  Slots = {1, 2}
  Cookies = {1, 2}
  Nil = Nil
  Cmc = Cmc
  MsgFrags = 1
  OpenFrags = 2
  PbufFrags = 2
  MaxTraffic = 1
  WireMax = 2
  MaxFaults = 1
\* No new session once the cookies are used up.
CHECK_DEADLOCK FALSE
INVARIANTS
  VllpInv
  NoFalseCrc
PROPERTIES
  BothLinks
