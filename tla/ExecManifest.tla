---------------------------- MODULE ExecManifest ----------------------------
(***************************************************************************)
(* The execution manifest of pkg/execmanifest as the agent loop uses it:   *)
(* beginACSTurn allocates a per-session turn number, seeded once per       *)
(* process from the MAX(turn) on disk, and inserts a traces row; acsChat   *)
(* records one trace_provider_requests row per provider call, retries      *)
(* included.  Turns of one session may overlap (two debounce timers, or a  *)
(* timer and the main loop), contexts end, writes fail, the process ends.  *)
(*                                                                         *)
(* The store's writer is the actor of pkg/actionlog, so a write is what    *)
(* AbstractLedger says a call is: one step, at most once, perhaps after    *)
(* its caller has left.  A member of Turns is one turn of one session.     *)
(***************************************************************************)
EXTENDS Naturals, FiniteSets, FiniteSetsExt

CONSTANTS
    MfTurns,        \* turns, each run by a goroutine of its own
    Sessions,     \* session keys
    MaxChats,     \* bound: provider calls of one turn (retries and fallbacks)
    MfMaxRestarts   \* bound: how often the process may end and start again

ASSUME ManifestAssumption == MaxChats \in Nat /\ MfMaxRestarts \in Nat

VARIABLES
    traces,     \* table traces: rows [session, turn, by]
    requests,   \* table trace_provider_requests: rows [trace, seq, chat]
    counters,   \* AgentLoop.acsTurnCounters
    session,    \* opts.SessionKey of each turn
    mfPc,         \* where each turn is
    seed,       \* what the turn seeds the counter with
    number,     \* the turn number it was allocated
    recording,  \* acsTraceID is set: the turn's Begin returned an id
    collided,   \* turns whose Begin returned ErrTraceAlreadyRecorded
    late,       \* turns whose Begin is still in the channel after they left it
    callSeq,    \* acsCallSeq
    chats,      \* provider calls the turn has made
    missed,     \* turns with a RecordLLMCall that returned an error
    blind,      \* sessions whose counter was seeded although MaxTurn failed
    mfRestarts

tables == <<traces, requests>>
allocation == <<counters, seed, number, blind>>
calls == <<callSeq, chats, missed>>
mfVars == <<tables, allocation, session, mfPc, recording, collided, late, calls, mfRestarts>>

TurnsOnDisk(s) == {r.turn : r \in {x \in traces : x.session = s}}

\* SELECT COALESCE(MAX(turn), 0) FROM traces WHERE session_id = s
MaxTurn_Unseeded(s) == 0
MaxTurn(s) == Max(TurnsOnDisk(s) \cup {0})

NoCounter == [seeded |-> FALSE, value |-> 0]

MfInit ==
    /\ traces = {} /\ requests = {}
    /\ counters = [s \in Sessions |-> NoCounter]
    /\ session \in [MfTurns -> Sessions]
    /\ mfPc = [t \in MfTurns |-> "idle"]
    /\ seed = [t \in MfTurns |-> 0]
    /\ number = [t \in MfTurns |-> 0]
    /\ recording = [t \in MfTurns |-> FALSE]
    /\ collided = {} /\ late = {} /\ missed = {} /\ blind = {}
    /\ callSeq = [t \in MfTurns |-> 0]
    /\ chats = [t \in MfTurns |-> 0]
    /\ mfRestarts = 0

MfGoto(t, l) == mfPc' = [mfPc EXCEPT ![t] = l]

-----------------------------------------------------------------------------
(* allocateACSTurnNumber *)

Load(t) ==
    /\ mfPc[t] = "idle"
    /\ MfGoto(t, IF counters[session[t]].seeded THEN "add" ELSE "seed")
    /\ UNCHANGED <<tables, allocation, session, recording, collided, late, calls, mfRestarts>>

ReadMaxTurn(t) ==
    /\ mfPc[t] = "seed"
    /\ seed' = [seed EXCEPT ![t] = MaxTurn(session[t])]
    /\ MfGoto(t, "store")
    /\ UNCHANGED <<tables, counters, number, blind, session, recording, collided, late, calls, mfRestarts>>

\* "Unable to seed - log and fall back to starting from 0."
MaxTurnFails(t) ==
    /\ mfPc[t] = "seed"
    /\ seed' = [seed EXCEPT ![t] = 0]
    /\ blind' = blind \cup {session[t]}
    /\ MfGoto(t, "store")
    /\ UNCHANGED <<tables, counters, number, session, recording, collided, late, calls, mfRestarts>>

\* The fresh counter is stored over one that another turn has stored meanwhile.
LoadOrStore_Overwrite(t) ==
    /\ mfPc[t] = "store"
    /\ counters' = [counters EXCEPT ![session[t]] = [seeded |-> TRUE, value |-> seed[t]]]
    /\ MfGoto(t, "add")
    /\ UNCHANGED <<tables, seed, number, blind, session, recording, collided, late, calls, mfRestarts>>

LoadOrStore(t) ==
    /\ mfPc[t] = "store"
    /\ counters' = [counters EXCEPT ![session[t]] =
                      IF @.seeded THEN @ ELSE [seeded |-> TRUE, value |-> seed[t]]]
    /\ MfGoto(t, "add")
    /\ UNCHANGED <<tables, seed, number, blind, session, recording, collided, late, calls, mfRestarts>>

MfAdd(t) ==
    LET next == counters[session[t]].value + 1 IN
    /\ mfPc[t] = "add"
    /\ counters' = [counters EXCEPT ![session[t]].value = next]
    /\ number' = [number EXCEPT ![t] = next]
    /\ MfGoto(t, "begin")
    /\ UNCHANGED <<tables, seed, blind, session, recording, collided, late, calls, mfRestarts>>

-----------------------------------------------------------------------------
(* BeginTurn: INSERT INTO traces, refused by UNIQUE(session_id, turn). *)

Fits(t) == number[t] \notin TurnsOnDisk(session[t])
Insert_Swapped(t) ==
    traces' = traces \cup {[session |-> t, turn |-> number[t], by |-> session[t]]}
Insert(t) == traces' = traces \cup {[session |-> session[t], turn |-> number[t], by |-> t]}

Begin(t) ==
    /\ mfPc[t] = "begin" /\ Fits(t)
    /\ Insert(t)
    /\ recording' = [recording EXCEPT ![t] = TRUE]
    /\ MfGoto(t, "chat")
    /\ UNCHANGED <<requests, allocation, session, collided, late, calls, mfRestarts>>

BeginCollides(t) ==
    /\ mfPc[t] = "begin" /\ ~Fits(t)
    /\ collided' = collided \cup {t}
    /\ MfGoto(t, "chat")
    /\ UNCHANGED <<tables, allocation, session, recording, late, calls, mfRestarts>>

\* Another error, or a context that ends: the turn goes on without a trace, and
\* its operation may be in the channel still.
BeginFails(t) ==
    /\ mfPc[t] = "begin"
    /\ late' \in {late, late \cup {t}}
    /\ MfGoto(t, "chat")
    /\ UNCHANGED <<tables, allocation, session, recording, collided, calls, mfRestarts>>

LateBegin(t) ==
    /\ t \in late
    /\ late' = late \ {t}
    /\ IF Fits(t) THEN Insert(t) ELSE UNCHANGED traces
    /\ UNCHANGED <<requests, allocation, session, mfPc, recording, collided, calls, mfRestarts>>

-----------------------------------------------------------------------------
(* acsChat: one row per provider call, numbered by the turn's own counter. *)

Request(t) == [trace |-> t, seq |-> callSeq[t], chat |-> chats[t]]
SlotTaken(t) == \E r \in requests : r.trace = t /\ r.seq = callSeq[t]

\* The sequence number is taken only when the call was recorded.
NextSeq_OnSuccess(t, ok) == callSeq' = [callSeq EXCEPT ![t] = IF ok THEN @ + 1 ELSE @]
NextSeq(t, ok) == callSeq' = [callSeq EXCEPT ![t] = @ + 1]

Chat(t) ==
    /\ mfPc[t] = "chat" /\ chats[t] < MaxChats
    /\ chats' = [chats EXCEPT ![t] = @ + 1]
    /\ UNCHANGED <<traces, allocation, session, mfPc, recording, collided, late, mfRestarts>>

ChatUntraced(t) ==
    /\ ~recording[t]
    /\ Chat(t)
    /\ UNCHANGED <<requests, callSeq, missed>>

\* Only the first attempt of a turn is recorded, not its retries.
ChatRecorded_FirstAttempt(t) ==
    /\ recording[t] /\ ~SlotTaken(t)
    /\ Chat(t)
    /\ requests' = IF chats[t] = 0 THEN requests \cup {Request(t)} ELSE requests
    /\ NextSeq(t, TRUE)
    /\ UNCHANGED missed

ChatRecorded(t) ==
    /\ recording[t] /\ ~SlotTaken(t)
    /\ Chat(t)
    /\ requests' = requests \cup {Request(t)}
    /\ NextSeq(t, TRUE)
    /\ UNCHANGED missed

\* RecordLLMCall returns an error; if that is its context's, the row may follow.
ChatMissed(t) ==
    /\ recording[t]
    /\ Chat(t)
    /\ NextSeq(t, FALSE)
    /\ missed' = missed \cup {t}
    /\ \/ UNCHANGED requests
       \/ ~SlotTaken(t) /\ requests' = requests \cup {Request(t)}

Finish(t) ==
    /\ mfPc[t] = "chat" /\ chats[t] > 0
    /\ MfGoto(t, "done")
    /\ UNCHANGED <<tables, allocation, session, recording, collided, late, calls, mfRestarts>>

-----------------------------------------------------------------------------
\* The process ends: counters, queued operations and turns under way are gone.
MfRestart ==
    /\ mfRestarts < MfMaxRestarts
    /\ mfRestarts' = mfRestarts + 1
    /\ counters' = [s \in Sessions |-> NoCounter]
    /\ late' = {} /\ blind' = {} /\ collided' = {}
    /\ mfPc' = [t \in MfTurns |-> IF mfPc[t] = "idle" THEN "idle" ELSE "done"]
    /\ number' = [t \in MfTurns |-> 0]
    /\ UNCHANGED <<tables, seed, session, recording, calls>>

MfStop == (\A t \in MfTurns : mfPc[t] = "done") /\ UNCHANGED mfVars

MfNext ==
    \/ \E t \in MfTurns :
         \/ Load(t) \/ ReadMaxTurn(t) \/ MaxTurnFails(t) \/ LoadOrStore(t) \/ MfAdd(t)
         \/ Begin(t) \/ BeginCollides(t) \/ BeginFails(t) \/ LateBegin(t)
         \/ ChatUntraced(t) \/ ChatRecorded(t) \/ ChatMissed(t) \/ Finish(t)
    \/ MfRestart
    \/ MfStop

MfSpec == MfInit /\ [][MfNext]_mfVars

-----------------------------------------------------------------------------
MfTypeOK ==
    /\ traces \subseteq [session : Sessions, turn : Nat, by : MfTurns]
    /\ requests \subseteq [trace : MfTurns, seq : Nat, chat : Nat]
    /\ counters \in [Sessions -> [seeded : BOOLEAN, value : Nat]]
    /\ mfPc \in [MfTurns -> {"idle", "seed", "store", "add", "begin", "chat", "done"}]
    /\ recording \in [MfTurns -> BOOLEAN]
    /\ collided \cup late \cup missed \subseteq MfTurns

\* "concurrent turns on the same session each get a distinct number": no two
\* turns of one process share a (session, number), however they interleave.
DistinctNumbers ==
    \A t, u \in MfTurns :
        t # u /\ session[t] = session[u] /\ number[t] > 0 => number[t] # number[u]

\* A counter seeded from disk never runs into a row on disk: not one of an
\* earlier process, not one of a concurrent turn, not one a turn left behind in
\* the channel when its context ended.
SeededTurnsNeverCollide == \A t \in collided : session[t] \in blind

\* A turn never reuses a call_seq, not even that of a call whose context ended
\* and whose row was written all the same.
CallSeqIsFresh == \A t \in MfTurns : mfPc[t] = "chat" => ~SlotTaken(t)

\* A turn no RecordLLMCall of which failed has a row for every provider call it
\* made, retries and fallbacks included.
EveryCallRecorded ==
    \A t \in MfTurns : recording[t] /\ t \notin missed =>
        Cardinality({r \in requests : r.trace = t}) = chats[t]

(* Numbers are distinct while allocation works, and every call is recorded   *)
(* once, under its own turn and with a fresh number.                          *)
MfInv ==
    MfTypeOK /\ DistinctNumbers /\ SeededTurnsNeverCollide /\ CallSeqIsFresh /\ EveryCallRecorded

\* The comment of allocateACSTurnNumber on a failed seed: "The worst case is a
\* collision on resume, which [...] disables ACS for that turn."
OneTurnLostPerFailedSeed ==
    \A s \in Sessions : Cardinality({t \in collided : session[t] = s}) <= 1
=============================================================================
