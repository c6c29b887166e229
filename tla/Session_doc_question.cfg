\* What the comment of forceCompression says of the last user message: two turns in a row.
CONSTANTS
    Turns = {t1, t2}
    MaxSteps = 2
    MaxRetries = 2
    MaxCalls = 2
    Threshold = 4
    MaxPart = 10
    Overlapping = FALSE
    MaxClears = 0
    MaxRestarts = 0
SPECIFICATION SsSpec
INVARIANTS QuestionIsAsked
