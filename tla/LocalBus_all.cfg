SPECIFICATION Spec
CONSTANTS
    w1 = w1
    w2 = w2
    w3 = w3
    w4 = w4
    Workers = {w1, w2, w3, w4}
    Consumers = {w1, w2}
    Topics = {"a", "b"}
    Values = {1, 2, 3}
    Cap = 1
    MaxPublishes = 2
    MaxLocks = 4
    Retention = 2
    Page = 2
    MaxEntries = 9
    Overrun = FALSE
    CloseEarly = FALSE
INVARIANTS  MutualExclusion FirstInFirstOut LogIsBounded
PROPERTIES TakenLockIsFreed ValuesAreTaken
CHECK_DEADLOCK FALSE
