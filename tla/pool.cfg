SPECIFICATION FairSpec
CONSTANTS
    N = 3
    Concurrency = 2
    Retries = 2
    DialErrors <- SomeErrors
    Verdicts <- SomeVerdicts
INVARIANTS TypeOK SlotsAreHeld RetryPolicy GoldenRule SignalStopsDialing
PROPERTIES ImplementsBatch
CHECK_DEADLOCK FALSE
