SPECIFICATION Spec
CONSTANTS
    Modes <- Serving
    Severities = {0}
    Faults = {"signal"}
INVARIANTS RequestsAreAnswered
CHECK_DEADLOCK FALSE
