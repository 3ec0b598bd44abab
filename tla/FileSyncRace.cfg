SPECIFICATION FairSpec
CONSTANTS
    p1 = p1
    p2 = p2
    d1 = d1
    d2 = d2
    Panel = {p1, p2}
    Device = {}
    Time = {1, 2}
    MaxTime = 2
    Kind = "sceneFile"
    NoFile = NoFile
    MaxFaults = 0
PROPERTIES
    SyncNeverGoesBack
CHECK_DEADLOCK TRUE
