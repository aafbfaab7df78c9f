CONSTANTS
    Requests = {r1, r2}
    Strategies = {"none", "split", "bad"}
    Broken = {"bad"}
    Flaky = {"udprelay"}
    Mortal = {"nfqws", "udprelay"}
    UdpRelay = TRUE
    MaxCrashes = 1
SPECIFICATION Spec
CHECK_DEADLOCK FALSE
INVARIANTS
    SingleWriter
    
    SuccessApplies
    FailureRestores
    RelayRouted
