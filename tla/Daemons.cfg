CONSTANTS
    Managed = {"a1", "a2", "a3"}
    NoScope = NoScope
    Base <- MCBase
    HostSockets <- MCHost
    Instances <- MCInstances
    Offers <- MCOffers
    Malformed = Malformed
    NoTable = NoTable
    MaxChanges = 1
    MaxQueue = 1
    Idle = Idle
    Listeners = {"v4", "v6"}
    MaxConcurrent = 1
    ChannelSize = 1
    MaxBytes = 20
    MaxCommands = 3
    Scripts <- MCScripts
    PoolSize = 3
    SetSize = 2
    FluxPeriod = 3
    AnswerTimeout = 2
    Personas = 2
    Contents = {"v1", "v2", "broken"}
    Unparsable = {"broken"}
    MaxClock = 8
    MaxEvents = 3
    ShapeRules <- MCShapeRules
    Providers = {"cloudflare", "ookla"}
    LinkMbit = 1
    Auto = Auto
    Unmeasured = Unmeasured
    MaxBoots = 2
    Items <- MCItems
    MaxNewPerMin = 2
    WindowMs = 1
    MaxUptime = 4
    Listed <- MCListed
    NetworkOf <- MCNetworkOf
SPECIFICATION MCSpec
INVARIANTS KernelCurrent ConfigurationWins SegmentationIrrelevant RotationsKeepUp ShapingSafe NewRateBounded RecordOnly OperatorInformed
PROPERTIES SessionsEnd
