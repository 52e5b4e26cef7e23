SPECIFICATION MCFairSpec
CONSTANTS
    h1 = h1
    h2 = h2
    h3 = h3
    h4 = h4
    h5 = h5
    h6 = h6
    Hosts = {h1, h3}
    NoHost = NoHost
    Block <- HostBlock
    Family <- BlockFamily
    Exempt = {}
    Secs <- SecsOne
    PenaltyMin = 0
    PenaltyMax = 1
    MaxSources <- OneEach
    DenyAll = {"v4"}
    MaxPersource = 2
    MaxStartups = 1
    Begin = 1
    Rate = 50
    Pids = {1, 2}
    Statuses = {"noauth"}
PROPERTIES
    SlotsRecycled
    SighupCompletes
    LockoutEnds
CHECK_DEADLOCK FALSE
