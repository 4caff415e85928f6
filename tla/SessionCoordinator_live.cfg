SPECIFICATION FairSpec
CONSTANTS
  q1 = q1
  q2 = q2
  r1 = r1
  r2 = r2
  Requests = {q1, q2}
  Replicas = {r1, r2}
  ReplicaOf <- Across
  TTL = 2
  MaxEvents = 0
  OutCap = 1
  Stalls = TRUE
  BusErrors = TRUE
  Reapers = {r2}
  Crashers = {r1}
  Cancels = {}
  Leavers = {}
  None = None
PROPERTIES
  
  StaleHolderStops
CHECK_DEADLOCK FALSE
