CONSTANTS
    UserLimit = 2
    FirstFree = 7
    Client = {c1, c2, c3}
    Nobody = Nobody
    MaxSent = 2
    MaxUpset = 1
    MaxSignals = 1
    PipeRoom = 1
SPECIFICATION Spec
INVARIANTS
    TypeOK
    IndexesAgree
    NotToldOwn
    NeverOlder
    ZombieNoticed
    LeavesAtMostOne
SYMMETRY Symmetry
CHECK_DEADLOCK FALSE
