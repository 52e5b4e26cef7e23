SPECIFICATION Spec
CONSTANTS
    Jobs <- Resumed
    BufLen = 2
    MinRead = 1
    NumRequests = 3
    ReplyRoom = 1
    MaxFaults = 1
INVARIANT ContiguousUpload
