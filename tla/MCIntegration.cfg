SPECIFICATION Spec
CONSTANTS
    None = None
    added = added
    changed = changed
    own = own
    Paths <- ThreePaths
    Branches = {main, side}
    BaseTree <- Tree0
    Touched <- TwoPaths
    MaxMoves = 3
    MaxFaults = 2
INVARIANTS
    FailedLeavesNothing
    CrashesKeepCandidate
PROPERTIES
    UserWorkKept
    ImplementsTarget
CHECK_DEADLOCK FALSE
