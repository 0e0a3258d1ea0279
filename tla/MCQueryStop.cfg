CONSTANTS
    Blocks = {b1, b2}
    MaxTurns = 2
    RecoveryLimit = 1
    MaxNudges = 1
    FailureLimit = 2
    ManyChecks = 1
    BudgetSteps = 2
SPECIFICATION Spec
INVARIANT StopHonoured
CHECK_DEADLOCK FALSE
