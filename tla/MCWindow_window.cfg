SPECIFICATION FairSpec
CONSTANTS
    Mounts <- EveryMount
    Verdicts = {"ack", "retry", "leave", "none"}
    Keeps = FALSE
    Seeks = TRUE
    Stops = TRUE
    OneTask = TRUE
    MaxRead = 3
    MaxFaults = 1
INVARIANTS SlotsAreOwn OnlyAckedRuns CommandsBeforeAck
INVARIANTS RetryAckedOnceCopied EachSettleOnce SettledWindowOwesNothing
PROPERTIES EverySettleIsSent
CHECK_DEADLOCK FALSE
