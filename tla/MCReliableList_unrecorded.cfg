SPECIFICATION Spec
CONSTANTS
    a = a
    b = b
    x = x
    Subs = {a, b}
    Vals = {x}
    Batch = 1
    Loads <- TwoReaders
INVARIANTS EveryClaimIsRecorded
