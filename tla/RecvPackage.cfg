SPECIFICATION FairSpec
CONSTANTS
    Line <- MCLine
    Ends <- MCEnds
    Said <- MCSaid
    HeaderLength = 1
    MaxReadOneShot = 2
    MaxLosses = 2
INVARIANTS
    TypeOK
    EscapeStaysInFrame
    ShelteredAreHandledInOrder
PROPERTIES
    ImplementsStream
    EveryShelteredIsHandled
\* The line ends: the gateway has nothing more to say.
CHECK_DEADLOCK FALSE
