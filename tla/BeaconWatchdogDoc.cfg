SPECIFICATION Spec
CONSTANTS
    m1 = m1
    w1 = w1
    NoAddr = NoAddr
    Node <- Pair
    Role <- PairRole
    ConfiguredMasterIp <- NobodyConfigured
    BroadcastRoute <- BothWays
    UnicastRoute <- BothWays
    Timeout = 1
    Interval = 1
    CheckInterval = 1
    Slack = 0
    MaxDelay = 0
    MissedCap = 4
INVARIANTS
    EveryLostLinkReported
