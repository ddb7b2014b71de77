CONSTANTS
    ONE = 520
    Meas = {m1, m2}
    Readings = {2}
    Commands <- MCCommands
    MaxStamp = 2
    NULL = NULL
SPECIFICATION Spec
INVARIANTS VoltageOwned FieldFollowsRotor
PROPERTIES NewerApplied
CHECK_DEADLOCK FALSE
