SPECIFICATION Spec
CONSTANTS
    Keys = {"fido", "token", "tokencert"}
    SkKeys = {"fido"}
    WebKeys = {"fido"}
    TokenKeys = {"token"}
    CertOf <- TokenCert
    Conns = {"c1"}
    Sessions = {"s1", "s2", "s3", "long"}
    LongIds = {"long"}
    HostKey <- TwoHosts
    Users = {"alice", "bob"}
    Passwords = {"", "pw"}
    KeyConstraints <- Constraints
    DefaultLife <- Forever
    RemoteProviders = FALSE
    MaxSessionIds = 2
    MaxHeld = 2
INVARIANTS DestinationHonoured HiddenIsUnusable KeysDieOnTime
