SPECIFICATION Spec
CONSTANTS
    t1 = t1
    t2 = t2
    p1 = p1
    p2 = p2
    NoTime = NoTime
    NoEntry = NoEntry
    NoResult = NoResult
    Unusable = Unusable
    TicksPerDay = 1
    AlertThresholdDays = 3
    CriticalThresholdDays = 1
    Targets = {t1}
    Key <- OneKey
    Steps <- Ladder
    RepeatAfter = 1
    Procs = {p1, p2}
    Channels = {1}
    Configs <- MayForget
    Servers <- FlappingServers
    Faults = {"crash", "send", "save"}
    MaxTime = 1
INVARIANTS OnlyAnnouncedIsRemembered NeverSwallowed
