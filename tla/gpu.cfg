CONSTANTS
    Jobs = {j1, j2, j3}
    Threshold = 2
    Readers = 2
    Cancellable = {j1}
    MaxProcs = 4
    NoJob = NoJob
SPECIFICATION FairSpec
\* Every run may be over, or wait on a torn pipe: the executor may stop.
CHECK_DEADLOCK FALSE
INVARIANTS
    
    OneWarmChild
PROPERTIES
    CircuitStopsWork
    QueuedServed
