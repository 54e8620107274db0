SPECIFICATION HistorySpec
CHECK_DEADLOCK FALSE
CONSTANTS
    MaxTime = 4
    Weights = {0, 1, 3, 6}
    Window = 1
    Overlap = 1
    Threshold = 2
    MaxAmount = 4
    Worker = worker
    Scanners = {worker}
INVARIANT AnomaliesAreInvalid
