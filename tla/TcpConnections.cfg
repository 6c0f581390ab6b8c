SPECIFICATION FairSpec
CONSTANTS
    Client = {c1, c2}
    Lines <- EveryVerdict
INVARIANTS
    IInv
    OutcomeIsKnown
PROPERTIES
    ImplementsCommandService
    WholeLinesAreAnswered
    ShutdownEnds
CHECK_DEADLOCK FALSE
