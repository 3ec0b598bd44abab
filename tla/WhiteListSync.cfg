SPECIFICATION FairSpec
CONSTANTS
    p1 = p1
    p2 = p2
    d1 = d1
    d2 = d2
    Panel = {p1, p2}
    Device = {d1, d2}
    Time = {1, 2}
    MaxTime = 2
    Kind = "whiteList"
    NoFile = NoFile
    MaxFaults = 0
PROPERTIES
    DevicesSpread
CHECK_DEADLOCK TRUE
