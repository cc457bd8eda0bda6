SPECIFICATION FairSpec
CONSTANTS
    Mounts <- Single
    Verdicts = {"ack", "retry"}
    Keeps = FALSE
    Seeks = FALSE
    Stops = TRUE
    OneTask = TRUE
    MaxRead = 2
    MaxFaults = 0
PROPERTY AnySettleIsSent
CHECK_DEADLOCK FALSE
