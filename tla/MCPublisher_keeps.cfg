SPECIFICATION Spec
CONSTANTS
    t1 = t1
    t2 = t2
    d1 = d1
    d2 = d2
    Tasks = {t1, t2}
    Deliveries = {d1, d2}
    Supported = TRUE
    Keeps = TRUE
    Atomic = TRUE
    Ends = FALSE
    Loads <- EveryLoad
    MaxMessages = 3
    MaxTransactions = 2
SYMMETRY Sym
INVARIANT NoStaleRound
CHECK_DEADLOCK FALSE
