SPECIFICATION Spec
CONSTANTS
    a = a
    b = b
    m1 = m1
    m2 = m2
    Subs = {a, b}
    Mode <- FreshPair
    Msgs = {m1}
    Start = "beginning"
    Count = 1
    MaxAttempts = 2
    SeekKinds = {"beginning"}
    MaxLog = 1
    MaxClaims = 2
    MaxSeeks = 1
    MaxFaults = 0
    MaxLosses = 0
PROPERTIES SeekHoldsForTheGroup
