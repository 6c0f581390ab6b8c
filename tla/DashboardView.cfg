SPECIFICATION FairSpec
CONSTANTS
    Peer = {p1, p2}
    None = None
    Fetch = {f1, f2}
    MaxFrames = 2
    MaxVersion = 2
INVARIANTS
    IInv
PROPERTIES
    ViewSettles
    SelectionSettles
