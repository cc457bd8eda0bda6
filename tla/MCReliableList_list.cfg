SPECIFICATION FairSpec
CONSTANTS
    a = a
    b = b
    x = x
    Subs = {a, b}
    Vals = {x}
    Batch = 1
    Loads <- Small
INVARIANTS Conserved AtLeastOnce ClaimsAreWatched
PROPERTIES EventuallyHandled
