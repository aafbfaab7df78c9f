CONSTANTS
    Requests = {r1, r2}
    Strategies = {"none", "bad"}
    Broken = {"bad"}
    Flaky = {"redsocks"}
    Mortal = {}
    UdpRelay = FALSE
    MaxCrashes = 1
SPECIFICATION Spec
CHECK_DEADLOCK FALSE
PROPERTIES
    LockFreed
    EveryChangeAnswered
    ComesBack
