SPECIFICATION Spec
CONSTANTS
    PoolSize = 1
    MaxConn = 2
    MaxCrash = 1
    MaxTerm = 0
    Room = 4
    Cuts = {2}
    Texts <- MCTexts
    Files <- MCFiles
INVARIANT RequestsAnswered
PROPERTY Served
CHECK_DEADLOCK FALSE
