CONSTANTS
    Threads = {t1, t2}
    MES_SIZE = 4
    POOL_SIZE = 24
    Sizes = {4, 12}
    Lengths = {4, 12}
    MaxCalls = 2
    NULL = NULL
SPECIFICATION Spec
INVARIANTS CriticalSection BlocksOwned BytesAccounted
PROPERTIES FreeCompletesWithRoom
CHECK_DEADLOCK FALSE
