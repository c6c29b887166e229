\* Three sub-agents, one level deep; two of each other: cron services, operations on
\* credentials, calls on one file, installations of one skill, requests to the
\* launcher, stores of media.
CONSTANTS
    CronJobs = {a, r}
    OneTime = {a}
    CronServices = {1, 2}
    MaxCronClock = 2
    MaxCronEdits = 2
    MaxRuns = 3
    MaxLoop = 2
    MaxDepth = 1
    MaxChildren = 1
    Downloads = {f1, f2}
    UserFiles = {u}
    MaxRefs = 4
    MaxStores = 2
    CdOps = {o1, o2}
    CdFlows = {f1}
    CdMaxOps = 2
    CdMaxTokens = 2
    WfCalls = {1, 2}
    WfMaxRead = 1
    SkOps = {1, 2}
    LgRequests = {1, 2}
    LgMaxRuns = 2
    LgBuffer = 1
    LgCapacity = 2
    LgMaxLines = 3
SPECIFICATION Suite
SYMMETRY Symmetry
INVARIANTS  SwInv   WfInv  LgInv
CHECK_DEADLOCK FALSE
