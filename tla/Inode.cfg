SPECIFICATION Spec
CONSTANTS
    Proc = {p1, p2}
    NoProc = NoProc
    Name = {a, b}
    NoName = NoName
    Ninodes = 3
    NINODE = 2
    NBlock = 2
SYMMETRY Symmetry
INVARIANTS
    TypeOK
    RefsCounted
    DiskConsistent
