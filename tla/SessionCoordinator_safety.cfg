SPECIFICATION Spec
CONSTANTS
  q1 = q1
  q2 = q2
  r1 = r1
  r2 = r2
  Requests = {q1, q2}
  Replicas = {r1, r2}
  ReplicaOf <- Across
  TTL = 2
  MaxEvents = 2
  OutCap = 1
  Stalls = FALSE
  BusErrors = FALSE
  Reapers = {}
  Crashers = {r1}
  Cancels = {}
  Leavers = {q1}
  None = None
INVARIANTS
  OneReplicaRuns
  RunningTurnHasMarker
  TurnsAreContiguousInLog
CHECK_DEADLOCK FALSE
