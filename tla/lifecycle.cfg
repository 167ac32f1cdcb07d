CONSTANTS
    a1 = a1
    a2 = a2
    a3 = a3
    Cores = 2
    NotGiven = NotGiven
    Assignments = {a1, a2, a3}
    Offered <- MCOffered
    Settings <- MCSettings
SPECIFICATION Spec
\* arun has ended, and nothing that runs is left.
CHECK_DEADLOCK FALSE
INVARIANTS
    JobsKeepTools
    NothingLeftOpen
    TagsFollowCircuit
    BeatsFitLease
