CONSTANTS
    MaxRuns = 2
    MaxSteps = 1
    MaxCrashes = 0
SPECIFICATION Spec
CHECK_DEADLOCK FALSE
INVARIANT RunningIsVisible
