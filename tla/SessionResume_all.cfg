SPECIFICATION Spec
CONSTANTS
    r1 = r1
    r2 = r2
    x1 = x1
    Replicas = {r1, r2}
    Fronts = {r1, r2}
    Posters = {x1}
    MaxAsks = 1
    MaxAnswers = 2
    MaxWakeups = 1
    MaxFaults = 1
    MaxTurns = 2
    None = None
SYMMETRY ReplicaSymmetry
INVARIANTS RanOnlyApproved CalmRunsOnce
CHECK_DEADLOCK FALSE
