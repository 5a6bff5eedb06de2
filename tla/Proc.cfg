SPECIFICATION Spec
CONSTANTS
    NPROC = 4
    CPU = {c0, c1}
    CPU0 = c0
    NoCPU = NoCPU
    MaxPid = 4
    KillArgs = {3}
    KallocFails = TRUE
INVARIANTS
    TypeOK
    StackOwned
    TickNoticed
    FamilyInOrder
