\* Two overlapping turns of one history with compressions, the summarizer, a clear
\* and a restart; three rounds of any kind and agent; histories of six messages.
CONSTANTS
    Turns = {t1, t2}
    MaxSteps = 1
    MaxRetries = 1
    MaxCalls = 2
    Threshold = 4
    MaxPart = 2
    Overlapping = TRUE
    MaxClears = 1
    MaxRestarts = 1
    Rounds = {r1, r2, r3}
    Agents = {a1, a2}
    Default = a1
    Kinds = {"user", "system", "heartbeat", "cron"}
    Debounced = TRUE
    PwMaxMsgs = 6
    PwMaxCalls = 2
SPECIFICATION Suite
SYMMETRY Symmetry
INVARIANTS   SsInv 
CHECK_DEADLOCK FALSE
