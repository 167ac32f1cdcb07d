CONSTANTS
    Callers = {c1, c2}
    Closers = {x1, x2}
    Timed = {c2}
    Series = {c2}
    MaxRetries = 2
SPECIFICATION SyncFairSpec
\* Every call has returned and the loop is closed: nothing is left to do.
CHECK_DEADLOCK FALSE
INVARIANTS
    StrandedByLastBatch
PROPERTIES
    CallsReturn
