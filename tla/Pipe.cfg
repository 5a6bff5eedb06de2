SPECIFICATION Spec
CONSTANTS
    PIPESIZE = 2
    Wrap = 6
    Byte = {x, y}
    NoByte = NoByte
    Reader = {r1, r2}
    Writer = {w1}
    NoProc = NoProc
    Sizes = {0, 1, 3}
CHECK_DEADLOCK FALSE
INVARIANTS
    TypeOK
    SleepersMustWait
PROPERTIES
    ImplementsFifo
