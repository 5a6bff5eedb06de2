SPECIFICATION Spec
CONSTANTS
    CPU = {c1, c2}
    Lock = {1, 2}
    NoCPU = NoCPU
    NoLock = NoLock
INVARIANTS
    TypeOK
    MutualExclusion
    HoldingMeansIntrOff
    FlagRestored
    NoPanic
