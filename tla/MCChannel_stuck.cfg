SPECIFICATION MCFairSpec
CONSTANTS
    Kind = "session"
    DetachClose = FALSE
    WindowMax = 2
    MaxPacket = 1
    Bytes <- OneEach
    StderrBytes = 1
    ErrorText = 0
    Expiring = {}
    WriteFails = {"client"}
    Scenarios = {"session"}
PROPERTIES
    EventuallyFreed
CHECK_DEADLOCK FALSE
