\* A buffered channel that fills up: calls take effect once, and all come back.
CONSTANTS
    Calls = {k1, k2, k3}
    Intents = {i1}
    Closers = {c1, c2}
    WriteQueueDepth = 1
    MaxRestarts = 0
    NoCall = NoCall
    NoIntent = NoIntent
SPECIFICATION FairSpec
PROPERTIES ImplementsPromise EveryoneReturns
CHECK_DEADLOCK FALSE
