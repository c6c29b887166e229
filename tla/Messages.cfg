\* Three messages on any of the three channels of size one, a consumer each, and a
\* Close; bursts in two chats, a stale flush, an asynchronous result, a full dedupe
\* cache, a stop.
CONSTANTS
    Msgs = {m1, m2, m3}
    BufferSize = 1
    InMsgs = {m1, m2, m3}
    Results = {m3}
    Chats = {c1, c2}
    NoMsg = NoMsg
    Delay = 1
    TTL = 3
    MaxSize = 1
    MaxClock = 4
    MaxHandled = 3
SPECIFICATION Suite
INVARIANTS BusInv InInv
PROPERTIES MessagesEnd
CHECK_DEADLOCK FALSE
