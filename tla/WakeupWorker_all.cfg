SPECIFICATION Spec
CONSTANTS
    w1 = w1
    w2 = w2
    h1 = h1
    h2 = h2
    m1 = m1
    m2 = m2
    Workers = {w1, w2}
    Handlers = {h1, h2}
    Messages = {m1, m2}
    Buffer = 1
    MaxFaults = 1
    None = None
INVARIANTS DeliveredOnce NothingIsLost  OneDispatcher
PROPERTIES RoleIsTakenOver
CHECK_DEADLOCK FALSE
