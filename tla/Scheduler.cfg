CONSTANTS
    Day = 2
    Steps = {2}
    Ats = {1}
    DaySets = {{1}}
    MaxTime = 4
    MaxPosts = 2
    MaxCrashes = 1
SPECIFICATION Spec
INVARIANTS
    ArmedForPlan
PROPERTIES
    NoBurst
    DueMoves
