CONSTANTS
    Requests = {r1}
    Strategies = {"none", "split", "bad"}
    Broken = {"bad"}
    Flaky = {}
    Mortal = {}
    UdpRelay = TRUE
    MaxCrashes = 0
SPECIFICATION Spec
CHECK_DEADLOCK FALSE
INVARIANT TimeoutKeepsAgreement
