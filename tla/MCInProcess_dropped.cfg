SPECIFICATION FairSpec
CONSTANTS
    a = a
    b = b
    Readers = {a, b}
    Loads <- Dropped
    MaxEntries = 3
    MaxTime = 2
PROPERTIES BecomesQuiet
CHECK_DEADLOCK FALSE
