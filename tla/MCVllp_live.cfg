SPECIFICATION FairSpec
CONSTANTS
  Ids = {0}
  Handles = {c1}
  Reconnect = {c1}
  Waits = {TRUE}
  Slots = {1, 2}
  Cookies = {1}
  Nil = Nil
  Cmc = Cmc
  MsgFrags = 1
  OpenFrags = 1
  PbufFrags = 2
  MaxTraffic = 2
  WireMax = 1
  MaxFaults = 0
\* No new session once the cookies are used up.
CHECK_DEADLOCK FALSE
PROPERTIES
  ActiveDrains
  OpenAnswered
