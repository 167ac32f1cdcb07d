CONSTANTS
    Leases = 2
    Work = 2
    PutAttempts = 2
    Keys = {k1}
    Raisable <- MCRaisable
    Overrides <- MCOverrides
SPECIFICATION FairSpec
\* The job is done or dead and every execution has ended.
CHECK_DEADLOCK FALSE
INVARIANTS
    SignalledWaitFlows
PROPERTIES
    ResumesFromConfirmed
    WritesSettle
