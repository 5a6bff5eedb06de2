SPECIFICATION Spec
CONSTANTS
    Block = {b1, b2, b3}
    Value = {v0, v1}
    Zero = v0
    Proc = {p1, p2}
    FirstProc = p1
    NoProc = NoProc
    LOGSIZE = 3
    Size = 4
    MaxBlocks = 2
    NoValue = NoValue
INVARIANTS
    TypeOK
    OneTransaction
PROPERTIES
    ImplementsAtomicDisk
