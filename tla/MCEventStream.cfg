SPECIFICATION FairSpec
CONSTANTS
    r1 = r1  p1 = p1
    Runs = {r1}
    Pages = {p1}
    Limit = 1
    MaxReconnects = 2
    MaxPolls = 2
    MaxRevision = 2
    MaxRequests = 2
    MaxFaults = 2
    MaxRestarts = 1
    None = None
PROPERTIES
    StreamContiguous
    FollowersCatchUp
    PagesComeToRest
CHECK_DEADLOCK FALSE
