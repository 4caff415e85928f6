SPECIFICATION Spec
CONSTANTS
  t1 = t1
  t2 = t2
  t3 = t3
  s1 = s1
  s2 = s2
  shared = shared
  own = own
  plain = plain
  v1 = v1
  v2 = v2
  Turns = {t1}
  Sessions = {s1}
  Agents = {shared}
  Viewers = {v1, v2}
  SessionOf <- OneSession
  AgentOf <- OneAgent
  MaxEvents = 2
  Cap = 1
  V2Agents = {shared}
  StopTargets = {}
  Leavers = {}
  None = None
INVARIANTS
  ClosedAfterReplay
CHECK_DEADLOCK FALSE
