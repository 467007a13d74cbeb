SPECIFICATION FairSpec
CONSTANTS
    Timer = {t1, t2, t3, t4}
    NoTimer = NoTimer
    Caps = {1, 4}
    Timeouts <- MCTimeouts
    MaxMade = 1
    MaxDel = 1
    MaxTime = 1
INVARIANTS
    TypeOK
    NoTimerLost
    FiredUnlessSooner
PROPERTY EveryTimerFires
CHECK_DEADLOCK FALSE
