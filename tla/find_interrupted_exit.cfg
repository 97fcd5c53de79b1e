\* Every server answers and every certificate is fine.
SPECIFICATION CheckedSpec
CONSTANTS
    N = 2
    Concurrency = 1
    Retries = 2
    DialErrors = {}
    Verdicts = {"ok"}
INVARIANTS FoundIsReal
CHECK_DEADLOCK FALSE
