SPECIFICATION Spec
CONSTANTS
    Buf = {x1, x2, x3}
    NoBuf = NoBuf
    Sector = {s1, s2, s3, s4}
    NoSector = NoSector
    Value = {0, 1}
    Zero = 0
    Proc = {p1, p2}
    NoProc = NoProc
    MaxPinned = 2
    ReadSucceeds = {TRUE}
SYMMETRY Symmetry
INVARIANTS
    TypeOK
    OneBufferPerSector
    SleepersServed
PROPERTIES
    ImplementsBlockStore
