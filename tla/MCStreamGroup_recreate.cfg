SPECIFICATION Spec
CONSTANTS
    a = a
    b = b
    m1 = m1
    m2 = m2
    Subs = {a, b}
    Mode <- FreshPair
    Msgs = {m1}
    Start = "new"
    Count = 1
    MaxAttempts = 2
    SeekKinds = {"beginning"}
    MaxLog = 1
    MaxClaims = 2
    MaxSeeks = 0
    MaxFaults = 0
    MaxLosses = 1
PROPERTIES RecreateSkipsNothing
