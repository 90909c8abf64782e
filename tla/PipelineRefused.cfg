SPECIFICATION HealingPipe
CONSTANTS
    a = a
    Target <- OneTarget
    HoldDown = 1
    MaxTtl = 1
    TtlEnabled = TRUE
    Configs <- OneConfig
    MaxRequests = 0
    Incidents = {"RateCapped"}
    ChannelCap = 2
    Selector = FALSE
PROPERTY AttackIsMitigated
