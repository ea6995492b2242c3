SPECIFICATION Spec
CONSTANTS
    r1 = r1  r2 = r2
    c1 = c1  c2 = c2
    p1 = p1  p2 = p2
    a = a
    Runs = {r1, r2}
    Ids = {a}
    Calls <- MostOnFirst
    Outcomes = {"SUCCEEDED", "PAUSED"}
    Callers = {c1, c2}
    Processes = {p1, p2}
    MaxRevision <- Bounds
    MaxFaults = 1
    None = None
SYMMETRY Interchangeable
INVARIANTS
    OneMutatingRun
    EngineOwnsRun
    ClosedHonest
    HandoffCurrent
CHECK_DEADLOCK FALSE
