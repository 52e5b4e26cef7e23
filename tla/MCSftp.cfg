SPECIFICATION Spec
CONSTANTS
    Jobs <- All
    BufLen = 2
    MinRead = 1
    NumRequests = 3
    ReplyRoom = 1
    MaxFaults = 2
INVARIANTS TransferFaithful NoHoles
PROPERTIES TransferEnds
