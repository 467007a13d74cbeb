SPECIFICATION FairSpec
CONSTANTS
    N = 3
    SI = 2
    Timer = {t1, t2, t3}
    NoTimer = NoTimer
    Timeouts = {0, 4, 6, 13}
INVARIANTS
    TypeOK
    NeverEarly
    AtMostOneTurnLate
PROPERTIES
    EveryTimerFires
    ImplementsQueue
CHECK_DEADLOCK FALSE
