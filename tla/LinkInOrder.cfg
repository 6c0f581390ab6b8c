SPECIFICATION Spec
CONSTANTS
    Window = 2
    Delays = {0, 3}
    Floor = 1
    Reorder = FALSE
    NoEntry = NoEntry
    MaxBeacons = 6
    MaxBoots = 2
    MaxInFlight = 2
INVARIANTS
    IInv
    FiguresMatchWindows
    LossIsExact
    LossNeverOverestimated
PROPERTIES
    FlushMeansReboot
CHECK_DEADLOCK FALSE
