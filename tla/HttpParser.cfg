SPECIFICATION FairSpec
CONSTANTS
    Size = 10
    Streams <- EditedRequests
INVARIANTS
    TypeOK
    UnparsedIntact
    SplitIndependent
PROPERTY EndsWhenOver
CHECK_DEADLOCK FALSE
