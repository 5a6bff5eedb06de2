SPECIFICATION Spec
CONSTANTS
    Reader = {p1, p2}
    NoOne = NoOne
    INPUT_BUF = 4
    Wrap = 8
    Sizes = {1, 4}
    Typed = {"nul", "x", "cr", "^U", "^H", "^D"}
SYMMETRY Symmetry
INVARIANTS
    TypeOK
    SleepersMustWait
PROPERTIES
    ImplementsTty
