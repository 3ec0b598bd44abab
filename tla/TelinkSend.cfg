SPECIFICATION FairSpec
CONSTANTS
    c1 = c1
    c2 = c2
    s1 = s1
    s2 = s2
    s3 = s3
    A = A
    B = B
    CommonCommand = {c1, c2}
    SwitchCommand = {s1, s2, s3}
    Address = {A, B}
    AddressOf <- MCAddressOf
    NoAddress = NoAddress
    NoCommand = NoCommand
    MaxTries = 6
    MaxCallers = 2
    MaxReports = 1
INVARIANTS
    TypeOK
    CountBelongsToFront
    BoundedBypass
PROPERTIES
    EveryCommonIsWritten
    EverySwitchLeaves
CHECK_DEADLOCK TRUE
