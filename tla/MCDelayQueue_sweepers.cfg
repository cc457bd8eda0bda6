SPECIFICATION FairSpec
CONSTANTS
    a = a
    b = b
    j1 = j1
    j2 = j2
    Subs = {a, b}
    Stays = {b}
    Jobs = {j1, j2}
    Refuses <- OneRefused
    Batch = 2
    Delays = {1}
    Expires = TRUE
    MaxTime = 1
    MaxLog = 4
    MaxHeld = 2
    MaxFaults = 1
INVARIANTS EachQueuedOnce AckedOnlyWhenQueued
CHECK_DEADLOCK FALSE
PROPERTIES DueIsAppended
