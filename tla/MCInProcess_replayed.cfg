SPECIFICATION Spec
CONSTANTS
    a = a
    b = b
    Readers = {a, b}
    Loads <- Replayed
    MaxEntries = 3
    MaxTime = 2
INVARIANTS QuietIsFinished
CHECK_DEADLOCK FALSE
