SPECIFICATION Spec
CONSTANTS
    Programs = {"list", "idle"}
    Timer = {t1, t2, t3, t4}
    NULL = NULL
    MaxTime = 2
    TIMESLOT = 1
    Sizes = {2}
    Room = 3
    MaxClients = 3
    MaxSent = 2
    MaxSignals = 0
    Links = 0
    MaxAnswers = 0
    MaxWait = 0
SYMMETRY Symmetry
INVARIANTS
    ListSound
    ListMatchesConnections
PROPERTY
    TicksInOrder
CHECK_DEADLOCK FALSE
