CONSTANTS
    Jobs = {j1, j2, j3}
    MaxWorkers = 2
    JobsPerProcess = 2
    MaxProcs = 6
    NoJob = NoJob
SPECIFICATION FairSpec
\* Every run may be over, or wait for a slot that was lost: the pool may stop.
CHECK_DEADLOCK FALSE
INVARIANTS
    CleanHandover
    OwnAnswer
    NoLostWakeup
PROPERTIES
    ServedWithoutLoss
