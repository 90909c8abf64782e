SPECIFICATION MCSpec
CONSTANTS
    route4 = route4
    flow6 = flow6
    drop = drop
    NoRoute = NoRoute
    Idle = Idle
    Nlri <- MCNlri
    Attr = {drop}
    SafiOf <- MCSafiOf
    Manager <- MCManager
    Owns <- MCOwns
    PeerOpens <- MCPeerOpens
    Capacity = 2
    MaxFailures = 1
    Block <- MCBlock
    Follower <- MCFollower
    MaxBlocks = 3
    Peer_Open <- MCOpen
    Route <- MCRoute
    Rule <- MCRule
    FlowSample <- MCFlowSample
    MaxSamples = 3
    WindowSample <- MCWindowSample
    PpsThreshold = 2
    BpsThreshold = 40
    WindowSecs = 3
    Concentration = 8
    MaxFlows = 2
INVARIANTS LayoutIrrelevant PolicyIsRunnable WireExact   SessionExact
PROPERTIES Converges DeadPeerDetected
