SPECIFICATION Spec
CONSTANTS
    a = a
    b = b
    j1 = j1
    j2 = j2
    Subs = {a, b}
    Stays = {a, b}
    Jobs = {j1}
    Refuses <- AllCarried
    Batch = 1
    Delays = {0}
    Expires = FALSE
    MaxTime = 1
    MaxLog = 3
    MaxHeld = 4
    MaxFaults = 1
INVARIANTS NoRetryIsLost
CHECK_DEADLOCK FALSE
