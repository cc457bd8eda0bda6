SPECIFICATION Spec
CONSTANTS
    a = a
    b = b
    m1 = m1
    m2 = m2
    Subs = {a, b}
    Mode <- FreshReclaim
    Msgs = {m1, m2}
    Start = "beginning"
    Count = 1
    MaxAttempts = 2
    SeekKinds = {"beginning"}
    MaxLog = 2
    MaxClaims = 2
    MaxSeeks = 0
    MaxFaults = 0
    MaxLosses = 0
INVARIANTS ReclaimCountsThisDelivery
