CONSTANTS
    Jobs = {j1, j2, j3}
    Slots = 1
    AdmissionHook = FALSE
    GpuWorker = FALSE
SPECIFICATION FairSpec
PROPERTIES
    KeepsLedger
    AssignmentsAnswered
    CapacityReannounced
    StoppedWorkerCloses
