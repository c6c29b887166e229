\* Three turns of two sessions, overlapping, with retried calls, and one restart;
\* every store operation cut off anywhere, twice.
CONSTANTS
    MfTurns = {v1, v2, v3}
    Sessions = {w1, w2}
    MaxChats = 2
    MfMaxRestarts = 1
    Msgs = {v1, v2, v3, v4}
    MaxCrashes = 2
    TornWrites = TRUE
SPECIFICATION Suite
SYMMETRY Symmetry
INVARIANTS MfInv StoreInv
PROPERTIES ImplementsHistory
CHECK_DEADLOCK FALSE
