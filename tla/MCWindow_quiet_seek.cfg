SPECIFICATION Spec
CONSTANTS
    Mounts <- Single
    Verdicts = {"ack", "retry"}
    Keeps = FALSE
    Seeks = TRUE
    Stops = FALSE
    OneTask = TRUE
    MaxRead = 2
    MaxFaults = 0
INVARIANT QuietWindowOwesNothing
CHECK_DEADLOCK FALSE
