CONSTANTS
    UserLimit = 2
    FirstFree = 7
    Client = {c1, c2}
    Nobody = Nobody
    MaxSent = 0
    MaxUpset = 1
    MaxSignals = 1
    PipeRoom = 1
SPECIFICATION Spec
INVARIANT JoinedIsNoUser
CHECK_DEADLOCK FALSE
