SPECIFICATION Spec
CONSTANTS
    NPROC = 4
    NPAGE = 4
    ImageSize = 3
    NFRAME = 12
CHECK_DEADLOCK FALSE
INVARIANTS
    NoSharedWritable
