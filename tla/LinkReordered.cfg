SPECIFICATION Spec
CONSTANTS
    Window = 2
    Delays = {0, 3}
    Floor = 1
    Reorder = TRUE
    NoEntry = NoEntry
    MaxBeacons = 6
    MaxBoots = 1
    MaxInFlight = 2
PROPERTIES
    FlushMeansReboot
CHECK_DEADLOCK FALSE
