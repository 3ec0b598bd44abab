SPECIFICATION HandleFairSpec
CONSTANTS
    MAX_QUEUE_SIZE = 2
    MaxMessages = 7
INVARIANTS
    HandleTypeOK
    EveryMessageHasItsWakeup
PROPERTIES
    ImplementsChannel
    EveryMessageLeavesTheQueue
CHECK_DEADLOCK FALSE
