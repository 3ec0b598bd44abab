SPECIFICATION FairSpec
CONSTANTS
    s1 = s1
    s2 = s2
    t1 = t1
    Site = {s1}
    Thread = {t1, t2}
    t2 = t2
    CountDown = CountDown
    NoClient = NoClient
    PingLimit <- MCPingLimit
    MaxMissed = 3
    HubMayCrash = TRUE
    SiteMayStop = TRUE
INVARIANTS
    TypeOK
    AnnouncedAsRecorded
PROPERTIES
    LivingSitesStay
    DeadSitesAreDropped
    SubscribersReRegister
CHECK_DEADLOCK TRUE
