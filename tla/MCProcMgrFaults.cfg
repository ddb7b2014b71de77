CONSTANTS
    NODE_LIMIT = 2
    CALLBACKS_NUM = 0
    n1 = n1
    n2 = n2
    b1 = b1
    b2 = b2
    p1 = p1
    p2 = p2
    m1 = m1
    m2 = m2
    Worker = worker
    Clients = {c1, c2}
    Togglers = {t1}
    Nodes <- MCNodes
    ChainLen <- MCOneInstance
    InitHandlers <- MCInitHandlers
    Priorities = {1}
    Callbacks = {k1}
    AnyHandle = TRUE
    MaxClears = 1
    MaxToggles = 1
    NULL = NULL
    Meas = {m1, m2}
    Bits = {b1, b2}
    Payloads = {p1}
    Accepts <- MCAccepts
    Vetoes <- MCVetoes
    Handlers <- MCHandlers
    ErrorHandlers = {n1}
    HandlersFail = TRUE
    CACHE_DEPTH = 1
    MaxAllocs = 3
SPECIFICATION ManagerSpec
INVARIANTS ManagerTypeOK ProcessingLocked MeasurementsOwned CacheSound
CHECK_DEADLOCK FALSE
