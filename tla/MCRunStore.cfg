SPECIFICATION FairSpec
CONSTANTS
    c1 = c1  c2 = c2
    p1 = p1  p2 = p2
    m1 = m1  m2 = m2
    Controllers = {c1, c2}
    Processes = {p1, p2}
    Machines = {m1, m2}
    ProcessOf <- OwnProcess
    MachineOf <- OneMachine
    Statuses = {}
    TaskLists = {planned}
    MaxRevision = 2
    MaySplitNewline = FALSE
    None = None
    Orphan = Orphan
    Torn = Torn
INVARIANTS
    CrashConsistent
    SnapshotsReplayLog
    WriterHoldsLease
PROPERTIES
    PreparedNeverDropped
    ImplementsHistory
    OperationsEnd
CHECK_DEADLOCK FALSE
