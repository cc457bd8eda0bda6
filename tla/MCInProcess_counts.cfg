SPECIFICATION FairSpec
CONSTANTS
    a = a
    b = b
    Readers = {a, b}
    Loads <- Small
    MaxEntries = 3
    MaxTime = 2
INVARIANTS OwedIsWhatIsThere QuietIsFinished ReadsFindSomething
PROPERTIES BecomesQuiet
CHECK_DEADLOCK FALSE
