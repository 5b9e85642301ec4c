CONSTANTS
    N = 2
    HlsSupport = TRUE
    MaxServed = 1
    RtspKinds = {"raop", "ptth"}
SPECIFICATION Spec
INVARIANTS
    ServerFits
PROPERTIES
    MarkedAreRemoved
    StopReturns
