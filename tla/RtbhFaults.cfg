SPECIFICATION FaultsSpec
CONSTANTS
    a = a
    b = b
    Target <- MCTarget
    HoldDown = 1
    MaxTtl = 1
    TtlEnabled = TRUE
    Configs <- AllConfigs
    MaxRequests = 1
    Incidents = {"ExecutorFails", "JournalFails", "RateCapped", "Disarm", "Crash"}
INVARIANTS ConfigurationHolds WireMatchesActive MirrorExact
PROPERTIES ImplementsPlane
