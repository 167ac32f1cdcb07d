CONSTANTS
    Jobs = {j1, j2, j3, j4}
    Slots = 2
    AdmissionHook = TRUE
    GpuWorker = TRUE
SPECIFICATION Spec
SYMMETRY JobSymmetry
INVARIANTS
    SlotsConserved
    WaiterNotStranded
