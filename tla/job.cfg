SPECIFICATION FairSpec
CONSTANTS
    MaxMisses = 2
    HasTimeout = TRUE
    OldWaitFor = TRUE
INVARIANTS
    QuietBeforeReport
PROPERTIES
    KeepsContract
    ReportIsFinal
    ShellCancels
    DispatchEnds
    DrainEnds
