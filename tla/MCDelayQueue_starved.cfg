SPECIFICATION FairSpec
CONSTANTS
    a = a
    b = b
    j1 = j1
    j2 = j2
    Subs = {a, b}
    Stays = {b}
    Jobs = {j1, j2}
    Refuses <- OneRefused
    Batch = 1
    Delays = {0}
    Expires = FALSE
    MaxTime = 0
    MaxLog = 4
    MaxHeld = 1
    MaxFaults = 0
PROPERTIES DueIsAppended
CHECK_DEADLOCK FALSE
