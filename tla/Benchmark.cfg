SPECIFICATION FairSpec
CONSTANTS
    Transfer = {t1, t2}
    Sizes = {262144, 1048576, 4194304}
INVARIANTS IInv SuccessMeansReceived
PROPERTIES VerdictsStand PanelSettles
CHECK_DEADLOCK FALSE
