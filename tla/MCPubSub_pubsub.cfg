SPECIFICATION FairSpec
CONSTANTS
    Modes = {"classic", "sharded"}
    Sizes = {1, 2}
    Prefetch = 3
    Capacities = {1, 2}
    Workers = 2
    Atomic = TRUE
    Stops = TRUE
    MaxMessages = 3
    MaxBreaks = 1
    MaxRefusals = 1
INVARIANTS YieldedInOrder LossIsReported SubscribedOrTold
PROPERTIES RoundsOfReadersAreSent
CHECK_DEADLOCK FALSE
