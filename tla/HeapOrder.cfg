SPECIFICATION Spec
CONSTANTS
    Timer = {t1, t2, t3, t4}
    NoTimer = NoTimer
    Caps = {4}
    Timeouts <- MCTimeouts
    MaxMade = 1
    MaxDel = 1
    MaxTime = 1
INVARIANT HeapOrder
CHECK_DEADLOCK FALSE
