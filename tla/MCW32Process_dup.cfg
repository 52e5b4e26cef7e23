SPECIFICATION FairSpec
CONSTANTS
    MaxChildren = 3
    ReadBuffer = 2
    WriteBuffer = 1
    AppBuffer = 2
    PipeSize = 1
    Setups <- SendsWithChild
INVARIANTS
    CopyFaithful
CHECK_DEADLOCK FALSE
