\* A condition under the interlock mutex and a terminal, beside a blocking
\* reader.
CONSTANTS
  p1 = p1  p2 = p2  s1 = s1  s2 = s2  cond = cond  pipe = pipe  uart = uart
  Env = Env  Nobody = Nobody
  Pollers = {p1, p2}
  Sleepers = {s1}
  Objects = {cond, uart}
  Conds = {cond}
  Level <- MCLevel
  PollSet <- MCTwo
  Interlock = TRUE
  Prio <- MCPrio
  Garbage = {0, 3}
SPECIFICATION FairSpec
INVARIANTS
  PollInv
  NoLostEvent
  MinusOneMeansTimeout
PROPERTIES
  EventEndsPoll
