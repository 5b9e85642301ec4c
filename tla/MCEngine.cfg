CONSTANTS
    UseVideo = TRUE
    Hls = TRUE
    NoHold = TRUE
    NoFreeze = FALSE
    NewWindow = TRUE
    Limit = 1
    MaxConns = 2
SPECIFICATION Spec
INVARIANT EngineFits
PROPERTIES KeepsContract SilentClientDropped
