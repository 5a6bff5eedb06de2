SPECIFICATION Spec
CONSTANTS
    MAXARGS = 3
    Letter = {"c", "e"}
    Keys = {"e", " ", "<", "|", ">", "&", ";", "(", ")"}
    MaxLine = 5
    NPROC = 6
    NPIPE = 2
    PIPESIZE = 1
    Output = 2
    MaxLeft = 1
    Lines <- TypedLines
    Header = 2
    NALLOC = 4
    Limit = 10
    Requests = {0, 3, 7}
    BSIZE = 2
    NDIRECT = 2
    BPB = 32
    size = 16
    ninodes = 5
    nblocks = 8
    nlog = 2
    Nil = Nil
CHECK_DEADLOCK FALSE
INVARIANTS
    ParsesTheGrammar
    PromptsWhenDone
    HeapTiled
    ImageMounts
PROPERTIES
    PromptsAgain
