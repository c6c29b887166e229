----------------------------- MODULE InboundPath -----------------------------
(***************************************************************************)
(* From the inbound channel of the bus to a turn: AgentLoop.Run takes a    *)
(* message, DedupeCache.Check drops redeliveries, and the Debouncer keeps  *)
(* the latest message of each chat until its timer expires.  A timer that  *)
(* has expired runs flush in a goroutine of its own, which Timer.Stop no   *)
(* longer reaches.  Turns run in those goroutines, several at a time.      *)
(***************************************************************************)
EXTENDS Naturals, FiniteSets

CONSTANTS
    InMsgs,        \* messages; a channel may deliver one several times
    Results,     \* those that carry the result of an asynchronous tool: the loop
                 \* publishes each once, for the channel "system", with no id
    Chats,       \* debounce keys, channel:chatID
    NoMsg,
    Delay,       \* of the debouncer, in ticks of the clock
    TTL,         \* of the dedupe cache, in ticks
    MaxSize,     \* of the dedupe cache
    MaxClock,    \* bound: the clock
    MaxHandled   \* bound: messages Run takes from the bus

ASSUME InboundAssumption ==
    /\ Results \subseteq InMsgs /\ NoMsg \notin InMsgs
    /\ {Delay, TTL, MaxSize} \subseteq Nat \ {0}
    /\ MaxClock \in Nat \ {0} /\ MaxHandled \in Nat

VARIABLES
    chat,      \* the chat of each message
    clock,
    seen,      \* DedupeCache.entries: pairs <<message key, createdAt>>
    hand,      \* the message Run has taken and not yet submitted, or NoMsg
    handled,   \* how many messages Run has taken
    passes,    \* history: pairs <<message, time>> that passed Check
    entries,   \* Debouncer.entries: [msg, pos, since] per chat, or NoEntry
    last,      \* history: the position of the chat's last submitted message
    armed,     \* the expiry of the timer of each chat, 0 when none is running
    flushing,  \* flush goroutines of each chat that wait for the mutex
    stopped,   \* Debouncer.stopped
    replaced,  \* history: messages a later one of their chat has overwritten
    starting,  \* messages flush has taken out and not handed to a turn yet
    running    \* turns: [msg, pos, since, at], since: submitted, at: flushed

runVars == <<seen, hand, handled, passes>>
inVars == <<chat, clock, runVars, entries, last, armed, flushing, stopped, replaced, starting, running>>

NoEntry == [msg |-> NoMsg, pos |-> 0, since |-> 0]

InInit ==
    /\ chat \in [InMsgs -> Chats]
    /\ clock = 1
    /\ seen = {} /\ hand = NoMsg /\ handled = 0 /\ passes = {}
    /\ entries = [c \in Chats |-> NoEntry]
    /\ armed = [c \in Chats |-> 0]
    /\ flushing = [c \in Chats |-> 0]
    /\ stopped = FALSE
    /\ last = [c \in Chats |-> 0]
    /\ replaced = {} /\ starting = {} /\ running = {}

Tick ==
    /\ clock < MaxClock
    /\ clock' = clock + 1
    /\ UNCHANGED <<chat, runVars, entries, last, armed, flushing, stopped, replaced, starting, running>>

-----------------------------------------------------------------------------
(* DedupeCache.Check *)

Fresh(e) == clock - e[2] < TTL

Duplicate(m) == \E e \in seen : e[1] = m /\ Fresh(e)

\* The caches prune may leave: expired entries go, then the oldest one, ties in
\* the order of the map, as long as there are more than maxSize.
Pruned_Newest(s) ==  \* keeps the oldest instead
    LET live == {e \in s : Fresh(e)} IN
    {r \in SUBSET live :
        /\ Cardinality(r) = IF Cardinality(live) > MaxSize THEN MaxSize ELSE Cardinality(live)
        /\ \A e \in r, x \in live \ r : e[2] <= x[2]}
Pruned(s) ==
    LET live == {e \in s : Fresh(e)} IN
    {r \in SUBSET live :
        /\ Cardinality(r) = IF Cardinality(live) > MaxSize THEN MaxSize ELSE Cardinality(live)
        /\ \A e \in r, x \in live \ r : x[2] <= e[2]}

\* Run takes a message from the bus, and drops one it has seen.
Receive(m) ==
    /\ m \notin Results
    /\ hand = NoMsg /\ handled < MaxHandled
    /\ handled' = handled + 1
    /\ IF Duplicate(m)
       THEN UNCHANGED <<seen, hand, passes>>
       ELSE /\ seen' \in Pruned({e \in seen : e[1] # m} \cup {<<m, clock>>})
            /\ hand' = m
            /\ passes' = passes \cup {<<m, clock>>}
    /\ UNCHANGED <<chat, clock, entries, last, armed, flushing, stopped, replaced, starting, running>>

\* A message without an id skips the cache.
ReceiveResult(m) ==
    /\ m \in Results /\ \A p \in passes : p[1] # m
    /\ hand = NoMsg /\ handled < MaxHandled
    /\ handled' = handled + 1
    /\ hand' = m
    /\ passes' = passes \cup {<<m, clock>>}
    /\ UNCHANGED <<chat, clock, seen, entries, last, armed, flushing, stopped, replaced, starting, running>>

-----------------------------------------------------------------------------
(* Debouncer *)

\* On a chat with an entry the old timer is stopped and no new one is armed.
Arm_OnlyFirst(c) ==
    armed' = [armed EXCEPT ![c] = IF entries[c] = NoEntry THEN clock + Delay ELSE 0]
\* The delay is counted from the moment the old timer would have expired.
Arm_Later(c) ==
    armed' = [armed EXCEPT ![c] = IF @ = 0 THEN clock + Delay ELSE @ + 2 * Delay]
Arm(c) == armed' = [armed EXCEPT ![c] = clock + Delay]

\* The first message of a burst is kept, not the latest.
Keep_First(c, m) ==
    entries' = [entries EXCEPT ![c] = IF @ = NoEntry THEN [msg |-> m, pos |-> handled, since |-> clock] ELSE @]
Keep(c, m) == entries' = [entries EXCEPT ![c] = [msg |-> m, pos |-> handled, since |-> clock]]

Submit ==
    LET m == hand  c == chat[hand] IN
    /\ hand # NoMsg /\ clock + Delay <= MaxClock
    /\ hand' = NoMsg
    /\ IF stopped
       THEN UNCHANGED <<entries, last, armed, replaced>>
       ELSE /\ Keep(c, m) /\ Arm(c)
            /\ last' = [last EXCEPT ![c] = handled]
            /\ replaced' = replaced \cup ({entries[c].msg} \ {NoMsg})
    /\ UNCHANGED <<chat, clock, seen, handled, passes, flushing, stopped, starting, running>>

\* The timer expires: its goroutine exists from now on.
Fire(c) ==
    /\ armed[c] # 0 /\ armed[c] <= clock
    /\ armed' = [armed EXCEPT ![c] = 0]
    /\ flushing' = [flushing EXCEPT ![c] = @ + 1]
    /\ UNCHANGED <<chat, clock, runVars, entries, last, stopped, replaced, starting, running>>

Flush(c) ==
    /\ flushing[c] > 0
    /\ flushing' = [flushing EXCEPT ![c] = @ - 1]
    /\ IF entries[c] = NoEntry
       THEN UNCHANGED <<entries, starting>>
       ELSE /\ starting' = starting \cup {[msg |-> entries[c].msg, pos |-> entries[c].pos,
                                           since |-> entries[c].since, at |-> clock]}
            /\ entries' = [entries EXCEPT ![c] = NoEntry]
    /\ UNCHANGED <<chat, clock, runVars, last, armed, stopped, replaced, running>>

\* flush has unlocked and calls processAndRespond.
Begin(t) ==
    /\ t \in starting
    /\ starting' = starting \ {t}
    /\ running' = running \cup {t}
    /\ UNCHANGED <<chat, clock, runVars, entries, last, armed, flushing, stopped, replaced>>

End(t) ==
    /\ t \in running
    /\ running' = running \ {t}
    /\ UNCHANGED <<chat, clock, runVars, entries, last, armed, flushing, stopped, replaced, starting>>

\* AgentLoop.Close stops the debouncer: entries are dropped, timers stopped.
InStop ==
    /\ ~stopped /\ stopped' = TRUE
    /\ entries' = [c \in Chats |-> NoEntry]
    /\ armed' = [c \in Chats |-> 0]
    /\ UNCHANGED <<chat, clock, runVars, last, flushing, replaced, starting, running>>

-----------------------------------------------------------------------------
\* The clock has reached its bound: what follows is not modelled.
AtBound == clock = MaxClock /\ UNCHANGED inVars

InNext ==
    \/ Tick
    \/ \E m \in InMsgs : Receive(m) \/ ReceiveResult(m)
    \/ Submit
    \/ \E c \in Chats : Fire(c) \/ Flush(c)
    \/ \E t \in starting : Begin(t)
    \/ \E t \in running : End(t)
    \/ InStop
    \/ AtBound

InSpec == InInit /\ [][InNext]_inVars

(***************************************************************************)
(* Time passes, an expired timer runs its goroutine and that goroutine     *)
(* gets the mutex.  No message has to arrive, no turn has to end.          *)
(***************************************************************************)
InFairSpec ==
    /\ InSpec
    /\ WF_inVars(Tick)
    /\ \A c \in Chats : WF_inVars(Fire(c)) /\ WF_inVars(Flush(c))

-----------------------------------------------------------------------------
Times == 0..MaxClock
Entry == [msg : InMsgs, pos : 1..MaxHandled, since : Times]
Turn == [msg : InMsgs, pos : 1..MaxHandled, since : Times, at : Times]

InTypeOK ==
    /\ clock \in Times
    /\ seen \subseteq InMsgs \X Times /\ passes \subseteq InMsgs \X Times
    /\ hand \in InMsgs \cup {NoMsg} /\ handled \in 0..MaxHandled
    /\ entries \in [Chats -> Entry \cup {NoEntry}]
    /\ last \in [Chats -> 0..MaxHandled] /\ armed \in [Chats -> Times]
    /\ flushing \in [Chats -> 0..MaxHandled]
    /\ replaced \subseteq InMsgs
    /\ starting \subseteq Turn /\ running \subseteq Turn

\* A message that waits in the debouncer has a timer, or the goroutine of one,
\* that will take it out: no race of Submit with an expiring timer loses it.
WaitingIsArmed ==
    \A c \in Chats : entries[c] # NoEntry => armed[c] # 0 \/ flushing[c] > 0

\* What waits is the latest message submitted for the chat, never an older one,
\* whatever old timers and flushes did in between.
LatestWaits == \A c \in Chats : entries[c] # NoEntry => entries[c].pos = last[c]

\* A message passes the dedupe cache twice within the TTL only after maxSize
\* other messages have passed: nothing else makes the cache forget it.
ForgottenOnlyWhenFull ==
    \A p, q \in passes :
        p[1] = q[1] /\ p[2] < q[2] /\ q[2] - p[2] < TTL =>
            Cardinality({x \in InMsgs \ (Results \cup {p[1]}) :
                \E r \in passes : r[1] = x /\ p[2] <= r[2] /\ r[2] <= q[2]}) >= MaxSize

(* What waits is the latest and has a timer, and the cache forgets a message  *)
(* only when it is full.                                                      *)
InInv == InTypeOK /\ WaitingIsArmed /\ LatestWaits /\ ForgottenOnlyWhenFull

\* A message submitted to the debouncer does not wait for ever once its chat is
\* quiet.
WaitingIsFlushed == \A c \in Chats : entries[c] # NoEntry ~> entries[c] = NoEntry

\* The comment of Submit: it "resets the timer.  When the timer expires, the
\* callback is invoked": no message is flushed sooner than delay after it.
TimerIsReset == \A t \in starting : t.at >= t.since + Delay

\* The comment at TickTTL: "This is safe because processMessage is sequential
\* per agent."
SequentialPerAgent == Cardinality(running) <= 1

\* The comment at asyncCallback: it "publishes the result as an inbound system
\* message so processSystemMessage routes it back to the user": no result is
\* thrown away for a later one.
ResultsAreRouted == replaced \cap Results = {}
=============================================================================
