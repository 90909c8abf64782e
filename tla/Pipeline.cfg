SPECIFICATION RecoveringPipe
CONSTANTS
    a = a
    Target <- OneTarget
    HoldDown = 1
    MaxTtl = 1
    TtlEnabled = TRUE
    Configs <- OneConfig
    MaxRequests = 1
    Incidents = {"ExecutorFails", "JournalFails", "RateCapped", "Disarm", "Crash"}
    ChannelCap = 1
    Selector = TRUE
PROPERTIES BlackholeEnds ReapplyHeals
