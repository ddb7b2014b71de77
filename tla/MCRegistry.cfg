CONSTANTS
    NODE_LIMIT = 3
    CALLBACKS_NUM = 2
    n1 = n1
    n2 = n2
    Worker = worker
    Clients = {c1}
    Togglers = {t1}
    Nodes <- MCNodes
    ChainLen <- MCChainLen
    InitHandlers <- MCInitHandlers
    ErrorHandlers = {n1, n2}
    Priorities <- MCPriorities
    Callbacks = {k1}
    AnyHandle = TRUE
    MaxClears = 1
    MaxToggles = 2
    NULL = NULL
SPECIFICATION Spec
INVARIANTS ListSound PriorityOrder SubsSound
PROPERTIES RegistrationStable
CHECK_DEADLOCK FALSE
