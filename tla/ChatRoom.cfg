SPECIFICATION FairSpec
CONSTANTS
    UserLimit = 3
    NumClients = 4
    MaxMoves = 3
INVARIANTS
    TypeOK
    SlotsAreOpenUsers
    WaitingHasMessage
    RecvGetsData
    RoundVisitsAll
PROPERTY DepartedIsClosed
CHECK_DEADLOCK FALSE
