CONSTANTS
    Device = {lamp, switch}
    TripleSwitch = {switch}
    Thread = {t1, t2}
    NoDevice = NoDevice
    FirstIndex = 2
    MaxRequests = 2
    MaxBinds = 2
    MaxFaults = 2
SPECIFICATION Spec
INVARIANT TypeOK
INVARIANT AddressRangesDisjoint
INVARIANT UnbindHitsItsDevice
PROPERTY ListsTheBound
PROPERTY BindingFlagIsCleared
CHECK_DEADLOCK FALSE
