SPECIFICATION FairSpec
CONSTANTS
    t1 = t1
    t2 = t2
    p1 = p1
    p2 = p2
    NoTime = NoTime
    NoEntry = NoEntry
    NoResult = NoResult
    Unusable = Unusable
    TicksPerDay = 1
    AlertThresholdDays = 3
    CriticalThresholdDays = 1
    Targets = {t1}
    Key <- OneKey
    Steps <- Ladder
    RepeatAfter = 1
    Procs = {p1}
    Channels = {1, 3}
    Configs <- SlackMail
    Servers <- AgingServers
    Faults = {"crash", "publish", "send", "lost_ack", "save", "corrupt"}
    MaxTime = 2
INVARIANTS NeverSwallowed
PROPERTIES ForgottenOnlyWhenFine ImplementsLedger PersistentProblemIsHeard
