CONSTANTS
    s1 = s1
    s2 = s2
    g1 = g1
    NoKey = NoKey
    Submits = {s1, s2}
    ByDict = {s2}
    FromCtx = {s2}
    FanOuts = {g1}
    KeyOf <- MCKeyOf
    Specs <- MCSpecs
    Retries = 1
    PageSize = 1
    Limit = 2
    MaxJobs = 3
SPECIFICATION FairSpec
\* Every coroutine has ended.
CHECK_DEADLOCK FALSE
INVARIANTS
    KeyedSubmitOnce
    EmitsInOrder
    ReplayLosesNothing
    ListsEachOnce
PROPERTIES
    GateResolves
