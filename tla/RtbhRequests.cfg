SPECIFICATION RequestsSpec
CONSTANTS
    a = a
    b = b
    Target <- MCTarget
    HoldDown = 1
    MaxTtl = 1
    TtlEnabled = FALSE
    Configs <- TightConfig
    MaxRequests = 3
    Incidents = {"ExecutorFails", "JournalFails", "RateCapped",
                 "RequestTableFails", "Disarm", "Crash"}
INVARIANTS RequestsHonoured
PROPERTIES ManualOnlyOperatorRemoves DeferredClearCompletes
