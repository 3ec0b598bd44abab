SPECIFICATION Spec
CONSTANTS
    Site = {a, b}
    Message = {m, n}
    OtherId = OtherId
    Thread = {t, u}
    Nobody = Nobody
    FileLimit = 6
    MaxIds = 2
    MaxRequests = 3
SYMMETRY Symmetry
INVARIANTS TypeOK FileIsCurrent
PROPERTIES OthersStay AnsweredSurviveTogether
