CONSTANTS
    NODE_LIMIT = 3
    CALLBACKS_NUM = 2
    n1 = n1
    n2 = n2
    b1 = b1
    b2 = b2
    p1 = p1
    p2 = p2
    m1 = m1
    m2 = m2
    Worker = worker
    Clients = {c1}
    Togglers = {t1}
    Nodes <- MCNodes
    ChainLen <- MCChainLen
    InitHandlers <- MCInitHandlers
    Priorities = {1, 2}
    Callbacks = {k1}
    AnyHandle = FALSE
    MaxClears = 0
    MaxToggles = 1
    NULL = NULL
    Meas = {m1}
    Bits = {b1, b2}
    Payloads = {p1, p2}
    Accepts <- MCAccepts
    Vetoes <- MCVetoes
    Handlers <- MCHandlers
    ErrorHandlers = {n1, n2}
    HandlersFail = FALSE
    CACHE_DEPTH = 2
    MaxAllocs = 1
SPECIFICATION ManagerSpec
INVARIANTS RunOrder EveryMatchRuns SubscribersCalled
CHECK_DEADLOCK FALSE
