SPECIFICATION ProcessSpec
CONSTANTS
    Modes <- AnyMode
    Severities = {0, 2, 5}
    Faults = {}
    Word = 1048576
    Scenarios <- FewScenarios
INVARIANTS ThresholdsAsReported
CHECK_DEADLOCK FALSE
