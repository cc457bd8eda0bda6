SPECIFICATION Spec
CONSTANTS
    Mounts <- Single
    Verdicts = {"ack", "retry"}
    Keeps = TRUE
    Seeks = FALSE
    Stops = FALSE
    OneTask = TRUE
    MaxRead = 2
    MaxFaults = 0
INVARIANT OnlyAckedRuns
CHECK_DEADLOCK FALSE
