SPECIFICATION Spec
CONSTANTS
    Size = 13
    Streams <- EditedRequests
INVARIANT WaitsOnlyIfIncomplete
CHECK_DEADLOCK FALSE
