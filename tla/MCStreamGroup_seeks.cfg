SPECIFICATION Spec
CONSTANTS
    a = a
    b = b
    m1 = m1
    m2 = m2
    Subs = {a, b}
    Mode <- FreshClaiming
    Msgs = {m1}
    Start = "beginning"
    Count = 2
    MaxAttempts = 2
    SeekKinds = {"beginning", "end", "after"}
    MaxLog = 2
    MaxClaims = 1
    MaxSeeks = 1
    MaxFaults = 1
    MaxLosses = 1
INVARIANTS TypeOK NothingLost ToldCountIsTheServers
PROPERTIES NoStaleDelivery TailYieldedOnce
