CONSTANTS
    DEPTH = 2
    Keys = {k1, k2, k3}
    Results = {TRUE, FALSE}
    StartTime = 0
    MaxTime = 4
    MaxCalls = 6
    MaxClears = 1
    NULL = NULL
SPECIFICATION Spec
INVARIANTS UniqueRecords
PROPERTIES LeastRecentlyUsed FoundAfterAdd MemoImplemented
CHECK_DEADLOCK FALSE
