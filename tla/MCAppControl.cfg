CONSTANTS
    Workers = {w1, w2, w3}
    None = None
    MaxPending = 1
    MaxTimers = 1
SPECIFICATION Spec
INVARIANTS WindowFits RunningIsShown
PROPERTY QuitCompletes
CHECK_DEADLOCK FALSE
