SPECIFICATION FairSpec
CONSTANTS
    NPROC = 3
    CPU = {c0}
    CPU0 = c0
    NoCPU = NoCPU
    MaxPid = 3
    KillArgs = {2, 3}
    KallocFails = FALSE
PROPERTIES
    RunnableRuns
    KilledExits
