SPECIFICATION FairSpec
CONSTANTS
    s1 = s1
    s2 = s2
    s3 = s3
    a = a
    b = b
    Subscriptions = {s1, s2, s3}
    Names = {a, b}
    NoName = NoName
    Mounts <- EveryMount
    ListsFail = FALSE
    Forever = FALSE
    MaxMessages = 0
INVARIANT NoReadIsLeft
CHECK_DEADLOCK FALSE
