SPECIFICATION FairSpec
CONSTANTS
    p1 = p1
    p2 = p2
    d1 = d1
    d2 = d2
    Panel = {p1, p2}
    Device = {}
    Time = {1, 2, 3}
    MaxTime = 3
    Kind = "sceneFile"
    NoFile = NoFile
    MaxFaults = 2
INVARIANTS
    TypeOK
PROPERTIES
    GoesBackOnlyWhenRaced
    PanelsAgree
CHECK_DEADLOCK TRUE
