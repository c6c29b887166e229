\* Four versions of the configuration, one unreadable and one whose provider fails;
\* two turns of two candidates; two heartbeat services; a command; two turns and a
\* Close on two MCP servers, one of which cannot start.
CONSTANTS
    MaxVersion = 4
    BadFiles = {2}
    BadProviders = {3}
    MaxReloads = 3
    FbTurns = {t1, t2}
    Candidates <- MCCandidates
    Answers = {"ok", "deadline", "billing", "format", "overflow"}
    MaxCount = 2
    FbRetries = 1
    MaxDays = 1
    HbChats = {"a"}
    HbInternal = "cli"
    HbNone = "none"
    HbServices = 2
    MtTurns = {1, 2}
    MtOwn = {2}
    MtServers = {"s1", "s2"}
    MtConfig <- MCConfig
    MtMaxTTL = 2
    MtRounds = 2
SPECIFICATION Suite
INVARIANTS GwInv FbInv  ExInv MtInv
PROPERTIES  ServicesGoOn
CHECK_DEADLOCK FALSE
