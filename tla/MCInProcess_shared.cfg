SPECIFICATION Spec
CONSTANTS
    a = a
    b = b
    Readers = {a, b}
    Loads <- Shared
    MaxEntries = 3
    MaxTime = 2
INVARIANTS QuietIsFinished
CHECK_DEADLOCK FALSE
