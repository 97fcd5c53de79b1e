\* The whole life of a process, from any arguments, files and environment.
SPECIFICATION ProcessFairSpec
CONSTANTS
    Modes <- AnyMode
    Severities = {0, 2, 5}
    Faults = {"signal", "write", "accept"}
    Word = 1048576
    Scenarios <- AnyScenario
INVARIANTS TypeOK ReportIsNeverGarbled IntervalStaysUp LostServerIsAnError
           FlagsWin BrokenNeverRuns DurationsAreSound EveryLineIsAsked
PROPERTIES SignalEnds LeavingEnds LossEnds
CHECK_DEADLOCK FALSE
