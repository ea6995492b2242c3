SPECIFICATION Spec
CONSTANTS
    solo = solo  full = full
    config = config  skill = skill  agent = agent
    Profiles = {solo, full}
    SkillFiles <- FilesOf
    Config = config
    MaxVersion = 2
    MaxEdits = 2
    MaxBackups = 2
    MaxFaults = 2
    None = None
INVARIANTS
    LockTruthful
PROPERTIES
    UserWorkKept
    AllOrNothing
CHECK_DEADLOCK FALSE
