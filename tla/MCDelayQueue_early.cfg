SPECIFICATION Spec
CONSTANTS
    a = a
    b = b
    j1 = j1
    j2 = j2
    Subs = {a, b}
    Stays = {a, b}
    Jobs = {j1}
    Refuses <- AllCarried
    Batch = 1
    Delays = {0, 1}
    Expires = FALSE
    MaxTime = 2
    MaxLog = 2
    MaxHeld = 4
    MaxFaults = 0
PROPERTIES OnlyDueIsTaken
CHECK_DEADLOCK FALSE
