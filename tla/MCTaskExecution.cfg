SPECIFICATION FairSpec
CONSTANTS
    None = None
    Foreign = Foreign
    a = a
    b = b
    Runs <- AllRuns
    BudgetChoices <- BothBudgets
    MaxAttempts = 2
    Signatures = {s1}
INVARIANTS
    AcceptedIsReal
    IntegratedOnce
    AlwaysRestorable
PROPERTIES
    RunsEnd
    DebtPaidFirst
    CompletedIntegrationKept
    ImplementsTarget
