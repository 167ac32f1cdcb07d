CONSTANTS
    Drivers = {d1, d2}
    Keys = {k1}
    NoKey = NoKey
    Identities = {key}
    NoIdentity = NoIdentity
    Contexts = {ctx, other}
    ctx = ctx
    other = other
    key = key
    MaxSubmits = 1
    MaxFanOuts = 1
    Specs <- SomeSpecs
    Plans <- SomePlans
SPECIFICATION FairSpec
\* Nothing to drive, no call left: the engine is idle.
CHECK_DEADLOCK FALSE
INVARIANTS
    SignalMeetsWaiter
    
    GateSettles
PROPERTIES
    
    FirstWordStands
    Quiesces
