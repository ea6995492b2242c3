SPECIFICATION Spec
CONSTANTS
    c1 = c1  c2 = c2  e1 = e1  e2 = e2  core = core  docs = docs
    Creators = {c1, c2}
    Editors = {e1, e2}
    Subsystems = {core, docs}
    PriorityLock = FALSE
    Proposals <- Tasks
    PanelSize = 3
    MaxRounds = 2
    Quorum = "majority"
    MaxJobs = 2
    MaxScripts = 4
    AllowConcurrent = FALSE
    MaxParallel = 0
    None = None
SYMMETRY Symmetric
INVARIANTS
    PanelFollowsPolicy
    DebtOfTheLastTwo
    OwnDirectory
    PrunedStaysAccepted
