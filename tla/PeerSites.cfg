SPECIFICATION FairSpec
CONSTANTS
    Site = {s, t}
    QuerySite = QuerySite
    Ip = {a, b}
    FirstIp = a
    OwnIp = OwnIp
    Loopback = Loopback
    None = None
    PingLimit <- MCPingLimit
    MaxMissed = 1
    MaxTries = 2
    MaxAnswers = 1
    MaxChanges = 2
INVARIANTS
    TypeOK
    EveryListHasQuerySite
    WrongOnlyWhenRaced
    StaleAddressOnlyWhenRaced
PROPERTIES
    ViewConverges
CHECK_DEADLOCK TRUE
