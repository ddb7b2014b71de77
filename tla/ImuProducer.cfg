CONSTANTS
    Meas = {m1, m2}
    Fetches = 2
    Bias = 4
    MaxCalibrations = 1
    MaxStreams = 2
    MaxSamples = 3
    NULL = NULL
SPECIFICATION Spec
INVARIANTS OffsetIsBias ProcessedCorrected ProcessedAsPut
PROPERTIES StartupEnds StreamEnds
CHECK_DEADLOCK FALSE
