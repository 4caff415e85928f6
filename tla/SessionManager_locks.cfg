SPECIFICATION FairSpec
CONSTANTS
  t1 = t1
  t2 = t2
  t3 = t3
  s1 = s1
  s2 = s2
  shared = shared
  own = own
  plain = plain
  v1 = v1
  v2 = v2
  Turns = {t1, t2, t3}
  Sessions = {s1, s2}
  Agents = {shared, own}
  Viewers = {}
  SessionOf <- CrossSession
  AgentOf <- CrossAgent
  MaxEvents = 1
  Cap = 1
  V2Agents = {shared, own}
  StopTargets = {t1}
  Leavers = {}
  None = None
INVARIANTS
  TurnsDoNotOverlap
PROPERTIES
  TerminatedTurnEnds
  EveryRunEnds
CHECK_DEADLOCK FALSE
