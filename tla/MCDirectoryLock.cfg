SPECIFICATION LockSpec
CONSTANTS
    p1 = p1  p2 = p2  p3 = p3  p4 = p4
    m1 = m1  m2 = m2
    Processes = {p1, p2, p3, p4}
    Machines = {m1, m2}
    MachineOf <- MachineOfFour
    Kinds = {"owned", "transaction"}
    NoOwner = NoOwner
SYMMETRY Interchangeable
INVARIANTS
    ExclusiveUnlessStolen
    OwnerFileTruthful
CHECK_DEADLOCK FALSE
