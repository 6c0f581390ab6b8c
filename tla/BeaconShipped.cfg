SPECIFICATION Spec
CONSTANTS
    m1 = m1
    w1 = w1
    NoAddr = NoAddr
    Node <- Pair
    Role <- PairRole
    ConfiguredMasterIp <- WorkerConfigured
    BroadcastRoute <- WithEcho
    UnicastRoute <- BothWays
    Timeout = 4
    Interval = 1
    CheckInterval = 1
    Slack = 1
    MaxDelay = 2
    MissedCap = 5
INVARIANTS
    IInv
    DeadPeersForgotten
    SilenceAccountedFor
    LostLinkReported
    AlarmIsJustified
PROPERTIES
    PruningNeedsLosses
    ImplementsPresence
