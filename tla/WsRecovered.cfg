SPECIFICATION FairSpec
CONSTANTS
    Session = {s1}
PROPERTIES
    ConnectedAreServed
CHECK_DEADLOCK FALSE
