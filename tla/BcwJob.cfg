CONSTANTS
    MaxRuns = 2
    MaxSteps = 2
    MaxCrashes = 1
SPECIFICATION Spec
CHECK_DEADLOCK FALSE
INVARIANTS
    ScannersApart
    RunningIsNewest
    OutcomeIsReal
    CancelledIsDead
PROPERTIES
    EveryRunCollected
    Unblocks
