SPECIFICATION Spec
CONSTANTS
    c1 = c1
    c2 = c2
    t1 = t1
    t2 = t2
    d1 = d1
    d2 = d2
    a1 = a1
    a2 = a2
    None = None
    Callers = {c1, c2}
    Turns = {t1, t2}
    Todos = {d1, d2}
    First = d1
    Agents = {a1, a2}
    AgentOf <- MCAgentOf
    OutcomeOf <- MCOutcomeOf
    Registered = {}
    Allowed = 1
    MaxOps = 2
    MaxMints = 2
SYMMETRY CallerSymmetry
INVARIANTS ChargedOnce ChargeIsWhole   DoneWorkIsSpendable
CHECK_DEADLOCK FALSE
