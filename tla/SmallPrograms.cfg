SPECIFICATION Spec
CONSTANTS
    Programs = {"signal", "echo", "stress", "connect"}
    Timer = {t1}
    NULL = NULL
    MaxTime = 0
    TIMESLOT = 0
    Sizes = {}
    MaxClients = 2
    MaxSignals = 3
    MaxSent = 2
    Room = 1
    Links = 2
    MaxAnswers = 2
    MaxWait = 2
INVARIANT CallsMeetTheirState
PROPERTIES
    EdgesSuffice
    ComesToAnEnd
CHECK_DEADLOCK FALSE
