CONSTANTS
    Options <- MCOptions
    Payloads <- MCPayloads
    MaxLength = 4
SPECIFICATION TextSpec
INVARIANTS
    
    ProfilesKept
    
CHECK_DEADLOCK FALSE
