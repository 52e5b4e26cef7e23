SPECIFICATION FairSpec
CONSTANTS
    MaxChildren = 3
    ReadBuffer = 2
    WriteBuffer = 1
    AppBuffer = 2
    PipeSize = 1
    Setups <- Copies
INVARIANTS
    CopyFaithful
    ChildrenTracked
    ProfilesFollow
PROPERTIES
    CopyCompletes
    ChildrenReaped
CHECK_DEADLOCK FALSE
