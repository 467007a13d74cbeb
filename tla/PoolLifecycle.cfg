SPECIFICATION FairSpec
CONSTANTS
    PoolSize = 3
    MaxConn = 2
    MaxCrash = 3
    MaxTerm = 1
INVARIANTS
    TypeOK
    
    NotificationsBacked
    NoOrphans
    SigchldNotLost
PROPERTIES
    TermCompletes
    DeadPoolExits
CHECK_DEADLOCK FALSE
