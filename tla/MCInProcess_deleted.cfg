SPECIFICATION Spec
CONSTANTS
    a = a
    b = b
    Readers = {a, b}
    Loads <- Deleted
    MaxEntries = 3
    MaxTime = 2
INVARIANTS ReadsFindSomething
CHECK_DEADLOCK FALSE
