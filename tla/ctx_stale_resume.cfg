CONSTANTS
    Leases = 2
    Work = 1
    PutAttempts = 2
    Keys = {k1}
    Raisable <- MCRaisable
    Overrides <- MCOverrides
SPECIFICATION Spec
CHECK_DEADLOCK FALSE
PROPERTIES
    NeverPaidTwice
