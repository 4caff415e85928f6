SPECIFICATION Spec
CONSTANTS
    MaxTurns = 2
    MaxCalls = 2
    MaxIters = 3
    Threshold = 2
    MaxAsks = 1
    MaxSteers = 1
    MaxInterrupts = 1
INVARIANTS StreamFits  InterruptTakesHold EvaluatedBeforeRun 
PROPERTIES TurnsEnd
CHECK_DEADLOCK FALSE
