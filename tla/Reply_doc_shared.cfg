\* Two agents, user rounds one after the other.
CONSTANTS
    Rounds = {r1, r2}
    Agents = {a1, a2}
    Default = a1
    Kinds = {"user"}
    Debounced = FALSE
SPECIFICATION RpSpec
INVARIANTS SkippedOnlyIfSent
