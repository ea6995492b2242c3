SPECIFICATION MSpec
CONSTANTS
    c1 = c1  c2 = c2
    p1 = p1  p2 = p2
    m1 = m1
    Controllers = {c1, c2}
    Processes = {p1, p2}
    Machines = {m1}
    ProcessOf <- ProcessOfTwo
    MachineOf <- MachineOfTwo
    Statuses = {running}
    TaskLists = {planned}
    MaxRevision = 1
    MaySplitNewline = FALSE
    None = None
    Orphan = Orphan
    Torn = Torn
    InitialSchema = 0
    CurrentSchema = 1
PROPERTY MigrationCompletes
CHECK_DEADLOCK FALSE
