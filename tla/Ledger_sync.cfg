\* Synchronous handoff (WriteQueueDepth = 0), two Closes, one restart.
CONSTANTS
    Calls = {k1, k2, k3}
    Intents = {i1, i2}
    Closers = {c1, c2}
    WriteQueueDepth = 0
    MaxRestarts = 1
    NoCall = NoCall
    NoIntent = NoIntent
SPECIFICATION Spec
SYMMETRY Symmetry
INVARIANTS RowsInv ResultMatchesRows NobodyStranded ClosedIsQuiet
CHECK_DEADLOCK FALSE
