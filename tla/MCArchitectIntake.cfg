SPECIFICATION Spec
CONSTANTS
    u1 = u1  u2 = u2  r1 = r1  r2 = r2  a1 = a1  a2 = a2  m1 = m1  m2 = m2
    Users = {u1, u2}
    Requirements = {r1, r2}
    Criteria = {a1, a2}
    Milestones = {m1, m2}
    Updates <- Blocks
    Delegate = 1
    MaxTurns = 3
    MaxFaults = 1
    None = None
SYMMETRY Symmetric
INVARIANTS
    PlanWasComplete
    BoundaryMatchesRoadmap
PROPERTIES
    NothingForgotten
CHECK_DEADLOCK FALSE
