SPECIFICATION Spec
CONSTANTS
    Device = {d, e}
    NoDevice = NoDevice
    Worker = {w1, w2}
    PackageThread = PackageThread
    NoThread = NoThread
    LastStored = 2
    MaxBinds = 3
    MaxOps = 4
INVARIANTS TypeOK StuckOnlyOnAddresses 
SYMMETRY Symmetry
CHECK_DEADLOCK FALSE
PROPERTY LevelsSurviveRestart
