SPECIFICATION FairSpec
CONSTANTS
    s1 = s1
    s2 = s2
    s3 = s3
    a = a
    b = b
    Subscriptions = {s1, s2, s3}
    Names = {a, b}
    NoName = NoName
    Mounts <- EveryMount
    ListsFail = FALSE
    Forever = FALSE
    MaxMessages = 1
INVARIANTS WrittenAsRead OnlyOpenedHold ShutdownEndsReads
PROPERTIES ShutdownReturns
CHECK_DEADLOCK FALSE
