SPECIFICATION MCSpec
CONSTANTS
    h1 = h1
    h2 = h2
    h3 = h3
    h4 = h4
    h5 = h5
    h6 = h6
    Hosts = {h1}
    NoHost = NoHost
    Block <- HostBlock
    Family <- BlockFamily
    Exempt = {}
    Secs <- SecsOne
    PenaltyMin = 0
    PenaltyMax = 1
    MaxSources <- OneEach
    DenyAll = {}
    MaxPersource = 1
    MaxStartups = 2
    Begin = 1
    Rate = 50
    Pids = {p1, p2, p3}
    Statuses = {"none"}
SYMMETRY PidSymmetry
INVARIANTS
    TypeOK
    NoFault
    StartupsLimited
    NeverStranded
    SourcesTracked
    TableBounded
PROPERTIES
    PenaltiesStand
CHECK_DEADLOCK FALSE
