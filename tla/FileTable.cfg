SPECIFICATION Spec
CONSTANTS
    Proc = {p1, p2}
    NoProc = NoProc
    Init1 = p1
    NFILE = 3
    NOFILE = 2
    NPipe = 1
INVARIANTS
    TypeOK
    RefsCounted
    ClosedWithLast
