CONSTANTS
    Speeds <- MCSpeeds
    MaxCommands = 3
    Room = 2
    Buffers = 1
    NULL = NULL
SPECIFICATION Spec
INVARIANTS ResultsInOrder WheelsMoveBody SentWhenBound
PROPERTIES Answered
CHECK_DEADLOCK FALSE
