SPECIFICATION FairSpec
CONSTANTS
  t1 = t1
  t2 = t2
  t3 = t3
  s1 = s1
  s2 = s2
  shared = shared
  own = own
  plain = plain
  v1 = v1
  v2 = v2
  Turns = {t1, t2}
  Sessions = {s1}
  Agents = {shared, plain}
  Viewers = {v1}
  SessionOf <- WatchedSession
  AgentOf <- WatchedAgent
  MaxEvents = 3
  Cap = 1
  V2Agents = {shared}
  StopTargets = {}
  Leavers = {t1}
  None = None
INVARIANTS
  CallerSeesWholeTurn
  ViewerMissesNothing
PROPERTIES
  ViewerIsReleased
CHECK_DEADLOCK FALSE
