CONSTANTS
    Workers = {w1, w2, w3}
    None = None
    MaxPending = 1
    MaxTimers = 2
SPECIFICATION Spec
CHECK_DEADLOCK FALSE
PROPERTY StopsAreForThisWorker
