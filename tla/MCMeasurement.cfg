CONSTANTS
    Headers <- MCHeaders
    NULL = NULL
SPECIFICATION Spec
INVARIANTS SizeSuffices AcceptedHasRoom
CHECK_DEADLOCK FALSE
