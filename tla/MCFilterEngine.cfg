CONSTANTS
    b1 = b1
    b2 = b2
    Bits <- MCBits
    Filters <- MCFilters
    MaxLen = 3
    NULL = NULL
SPECIFICATION Spec
INVARIANTS Quantified IgnoredBits ErrorsDoNotMatch
CHECK_DEADLOCK FALSE
