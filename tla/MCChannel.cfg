SPECIFICATION MCFairSpec
CONSTANTS
    Kind = "session"
    DetachClose = FALSE
    WindowMax = 2
    MaxPacket = 1
    Bytes <- ServerTwo
    StderrBytes = 1
    ErrorText = 0
    Expiring = {}
    WriteFails = {"server", "stderr"}
    Scenarios = {"session", "mux", "read", "tty", "tcp"}
INVARIANTS
    TypeOK
    NoFault
    QuietAfterClose
    FreedAfterClose
    OutputComplete
    ExitStatusBeforeClose
    WindowAgreement
PROPERTIES
    CloseHandshake
    FreedInTheEnd
CHECK_DEADLOCK FALSE
