SPECIFICATION FairSpec
CONSTANTS
    Session = {s1, s2}
INVARIANTS
    IInv
    ClientsHaveHandlers
    CloseAllClosesItsCopy
PROPERTIES
    BroadcastNotHeldUp
    ReadersAreServed
    ShutdownCompletes
CHECK_DEADLOCK FALSE
