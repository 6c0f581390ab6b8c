SPECIFICATION FairSpec
CONSTANTS
    Worker = {w1, w2}
    Master = m1
    Addr = {a1}
    None = None
    All = All
    ProxyTimeout = 6
    BrowserTimeout = 8
    Hop = 1
    Flight = 3
    Slack = 0
INVARIANTS
    IInv
    VerdictIsHonest
    AbortNeedsDelay
PROPERTIES
    ImplementsCommandService
    EveryCommandEnds
