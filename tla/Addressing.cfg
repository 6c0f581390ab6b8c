SPECIFICATION FairSpec
CONSTANTS
    h = h
    a = a
    b = b
    Here = h
    Addr = {a, b}
    None = None
    Launches <- SomeLaunches
    Strays <- SomeStrays
    MaxLate = 1
INVARIANTS
    IInv
    CommandsFindTheNamed
PROPERTIES
    RegistriesSettle
CHECK_DEADLOCK FALSE
