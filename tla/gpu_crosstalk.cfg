CONSTANTS
    Jobs = {j1, j2}
    Threshold = 2
    Readers = 2
    Cancellable = {j1, j2}
    MaxProcs = 5
    NoJob = NoJob
SPECIFICATION Spec
\* Every run may be over, or wait on a torn pipe: the executor may stop.
CHECK_DEADLOCK FALSE
INVARIANT OwnAnswer
