SPECIFICATION FairSpec
CONSTANTS
  q1 = q1
  q2 = q2
  r1 = r1
  r2 = r2
  Requests = {q1, q2}
  Replicas = {r1, r2}
  ReplicaOf <- Across
  TTL = 2
  MaxEvents = 0
  OutCap = 1
  Stalls = FALSE
  BusErrors = FALSE
  Reapers = {}
  Crashers = {}
  Cancels = {r2}
  Leavers = {}
  None = None
PROPERTIES
  CancelStopsTurn
CHECK_DEADLOCK FALSE
