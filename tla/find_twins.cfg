SPECIFICATION Spec
CONSTANTS
    t1 = t1
    t2 = t2
    p1 = p1
    p2 = p2
    NoTime = NoTime
    NoEntry = NoEntry
    NoResult = NoResult
    Unusable = Unusable
    TicksPerDay = 1
    AlertThresholdDays = 3
    CriticalThresholdDays = 1
    Targets = {t1, t2}
    Key <- Twins
    Steps <- Ladder
    RepeatAfter = 2
    Procs = {p1}
    Channels = {1}
    Configs <- Slack
    Servers <- FlappingServers
    Faults = {}
    MaxTime = 1
PROPERTIES NoEarlyRepeat
