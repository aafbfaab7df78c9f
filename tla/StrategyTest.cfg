CONSTANTS
    Tests = {t1, t2}
    Baseline = {t2}
    Formats = 2
    MaxCrashes = 1
SPECIFICATION Spec

    
    
PROPERTIES
    
    LockFreed
