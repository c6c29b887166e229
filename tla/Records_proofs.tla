-------------------------- MODULE Records_proofs --------------------------
(***************************************************************************)
(* What holds of the execution manifest for any number of turns, sessions, *)
(* provider calls and restarts, and of the session store for any messages  *)
(* and crashes.                                                            *)
(***************************************************************************)
EXTENDS ExecManifest, JSONLStore, FiniteSetTheorems, SequenceTheorems, WellFoundedInduction, TLAPS

(***************************************************************************)
(* The least-number principle for sets, and the maximum of a bounded set.  *)
(***************************************************************************)
LEMMA LeastElement ==
    ASSUME NEW T \in SUBSET Nat, T # {}
    PROVE  \E x \in T : \A y \in T : x <= y
<1>1. PICK x \in T : \A y \in T : <<y, x>> \notin OpToRel(<, Nat)
  BY NatLessThanWellFounded, WFMin
<1>2. \A y \in T : ~(y < x)
  BY <1>1 DEF OpToRel
<1>3. QED
  BY <1>2

(* A bounded set of numbers that is not empty has a maximum.                  *)
LEMMA MaxOfBounded ==
    ASSUME NEW S \in SUBSET Nat, S # {}, NEW b \in Nat, \A x \in S : x <= b
    PROVE  Max(S) \in S /\ \A x \in S : x <= Max(S)
<1> DEFINE U == {n \in Nat : \A x \in S : x <= n}
<1>1. PICK m \in U : \A n \in U : m <= n
  BY LeastElement
<1>2. m \in S
  <2>1. SUFFICES ASSUME m \notin S PROVE FALSE
    OBVIOUS
  <2>2. \A x \in S : x < m
    BY <1>1, <2>1
  <2>3. PICK x \in S : TRUE
    OBVIOUS
  <2>4. m - 1 \in Nat /\ ~(m <= m - 1)
    BY <1>1, <2>2, <2>3
  <2>5. \A y \in S : y <= m - 1
    BY <1>1, <2>2
  <2>6. QED
    BY <1>1, <2>4, <2>5
<1>3. \E x \in S : \A y \in S : x >= y
  BY <1>1, <1>2
<1>4. QED
  BY <1>3 DEF Max

-----------------------------------------------------------------------------
(***************************************************************************)
(* The inductive invariant of the manifest.                                *)
(***************************************************************************)
MfTypes ==
    /\ MfTypeOK
    /\ session \in [MfTurns -> Sessions]
    /\ seed \in [MfTurns -> Nat] /\ number \in [MfTurns -> Nat]
    /\ callSeq \in [MfTurns -> Nat] /\ chats \in [MfTurns -> Nat]
    /\ \A s \in Sessions : \E b \in Nat : \A r \in traces : r.session = s => r.turn <= b

Early == {"idle", "seed", "store", "add", "begin"}

\* A number was handed out by a counter that has gone no less far.
NumbersAreCounted ==
    \A t \in MfTurns :
        /\ mfPc[t] = "add" => counters[session[t]].seeded
        /\ number[t] > 0 => counters[session[t]].seeded /\ number[t] <= counters[session[t]].value
        /\ mfPc[t] = "begin" \/ t \in late => number[t] > 0
        /\ t \in late => mfPc[t] \notin Early

\* Of a session whose seed was read: nothing on disk is beyond its counter, and
\* a number that was handed out is on disk for its own turn only.
DiskIsBehind ==
    /\ \A t \in MfTurns : session[t] \notin blind /\ mfPc[t] = "store"
                          /\ ~counters[session[t]].seeded =>
         \A r \in traces : r.session = session[t] => r.turn <= seed[t]
    /\ \A r \in traces : r.session \notin blind /\ counters[r.session].seeded =>
         r.turn <= counters[r.session].value
    /\ \A t \in MfTurns : \A r \in traces :
         session[t] \notin blind /\ number[t] > 0 /\ r.session = session[t]
         /\ r.turn = number[t] => r.by = t

EarlyIsBlank ==
    \A t \in MfTurns : mfPc[t] \in Early =>
        /\ \A r \in traces : r.by # t
        /\ callSeq[t] = 0 /\ chats[t] = 0 /\ ~recording[t]

RowsPrecede == \A r \in requests : r.seq < callSeq[r.trace]

RowsCounted ==
    \A t \in MfTurns :
        LET rows == {r \in requests : r.trace = t}
        IN  /\ IsFiniteSet(rows)
            /\ recording[t] /\ t \notin missed => Cardinality(rows) = chats[t]

MfIInv ==
    /\ MfTypes /\ NumbersAreCounted /\ DiskIsBehind /\ EarlyIsBlank /\ RowsPrecede /\ RowsCounted
    /\ DistinctNumbers /\ SeededTurnsNeverCollide

-----------------------------------------------------------------------------
(* The inductive invariant holds at first.                                    *)
LEMMA MfInitIInv == MfInit => MfIInv
<1> SUFFICES ASSUME MfInit PROVE MfIInv
  OBVIOUS
<1> USE DEF MfInit, NoCounter
<1>1. MfTypes
  BY DEF MfTypes, MfTypeOK
<1>2. RowsCounted
  <2>1. \A t \in MfTurns : {r \in requests : r.trace = t} = {}
    OBVIOUS
  <2>2. QED
    BY <2>1, FS_EmptySet DEF RowsCounted
<1>3. QED
  BY <1>1, <1>2 DEF MfIInv, NumbersAreCounted, DiskIsBehind, EarlyIsBlank, RowsPrecede,
     DistinctNumbers, SeededTurnsNeverCollide, Early

\* What SELECT COALESCE(MAX(turn), 0) returns.
LEMMA MaxTurnIsMax ==
    ASSUME MfTypes, NEW s \in Sessions
    PROVE  MaxTurn(s) \in Nat /\ \A r \in traces : r.session = s => r.turn <= MaxTurn(s)
<1> DEFINE S == TurnsOnDisk(s) \cup {0}
<1>1. PICK b \in Nat : \A r \in traces : r.session = s => r.turn <= b
  BY DEF MfTypes
<1>2. S \in SUBSET Nat /\ S # {} /\ \A x \in S : x <= b
  BY <1>1 DEF TurnsOnDisk, MfTypes, MfTypeOK
<1>3. Max(S) \in S /\ \A x \in S : x <= Max(S)
  BY <1>2, MaxOfBounded
<1>4. \A r \in traces : r.session = s => r.turn \in S
  BY DEF TurnsOnDisk
<1>5. QED
  BY <1>2, <1>3, <1>4 DEF MaxTurn

(* Every step preserves it.                                                   *)
LEMMA MfStepIInv == MfIInv /\ [MfNext]_mfVars => MfIInv'
<1> SUFFICES ASSUME MfIInv, [MfNext]_mfVars PROVE MfIInv'
  OBVIOUS
<1> DEFINE Labels == {"idle", "seed", "store", "add", "begin", "chat", "done"}
           Counters == [Sessions -> [seeded : BOOLEAN, value : Nat]]
<1>0. /\ session \in [MfTurns -> Sessions] /\ mfPc \in [MfTurns -> Labels]
      /\ counters \in Counters
      /\ seed \in [MfTurns -> Nat] /\ number \in [MfTurns -> Nat]
      /\ callSeq \in [MfTurns -> Nat] /\ chats \in [MfTurns -> Nat]
      /\ recording \in [MfTurns -> BOOLEAN]
      /\ collided \subseteq MfTurns /\ late \subseteq MfTurns /\ missed \subseteq MfTurns
      /\ traces \subseteq [session : Sessions, turn : Nat, by : MfTurns]
      /\ requests \subseteq [trace : MfTurns, seq : Nat, chat : Nat]
  BY DEF MfIInv, MfTypes, MfTypeOK
<1>1. ASSUME NEW t \in MfTurns, Load(t) PROVE MfIInv'
  <2>1. UNCHANGED <<traces, requests, counters, seed, number, blind, session, recording,
                    collided, late, callSeq, chats, missed>>
    BY <1>1 DEF Load, tables, allocation, calls
  <2>2. /\ mfPc[t] = "idle" /\ mfPc'[t] \in {"add", "seed"}
        /\ mfPc'[t] = "add" => counters[session[t]].seeded
        /\ mfPc' \in [MfTurns -> Labels] /\ \A u \in MfTurns \ {t} : mfPc'[u] = mfPc[u]
    BY <1>0, <1>1 DEF Load, MfGoto
  <2>3. QED
    BY <2>1, <2>2 DEF MfIInv, MfTypes, MfTypeOK, NumbersAreCounted, DiskIsBehind, EarlyIsBlank,
       RowsPrecede, RowsCounted, DistinctNumbers, SeededTurnsNeverCollide, Early
<1>2. ASSUME NEW t \in MfTurns, ReadMaxTurn(t) \/ MaxTurnFails(t) PROVE MfIInv'
  <2>1. UNCHANGED <<traces, requests, counters, number, session, recording,
                    collided, late, callSeq, chats, missed>>
    BY <1>2 DEF ReadMaxTurn, MaxTurnFails, tables, calls
  <2>2. /\ mfPc[t] = "seed" /\ mfPc'[t] = "store"
        /\ mfPc' \in [MfTurns -> Labels] /\ \A u \in MfTurns \ {t} : mfPc'[u] = mfPc[u]
        /\ \A u \in MfTurns \ {t} : seed'[u] = seed[u]
        /\ blind \subseteq blind'
    BY <1>0, <1>2 DEF ReadMaxTurn, MaxTurnFails, MfGoto
  <2>3. /\ seed' \in [MfTurns -> Nat]
        /\ session[t] \notin blind' =>
             \A r \in traces : r.session = session[t] => r.turn <= seed'[t]
    <3>1. CASE ReadMaxTurn(t)
      <4>1. session[t] \in Sessions /\ MfTypes
        BY <1>0 DEF MfIInv
      <4>2. QED
        BY <1>0, <3>1, <4>1, MaxTurnIsMax DEF ReadMaxTurn
    <3>2. CASE MaxTurnFails(t)
      BY <1>0, <3>2 DEF MaxTurnFails
    <3>3. QED
      BY <1>2, <3>1, <3>2
  <2>4. DiskIsBehind'
    BY <2>1, <2>2, <2>3 DEF MfIInv, DiskIsBehind
  <2>5. QED
    BY <2>1, <2>2, <2>3, <2>4 DEF MfIInv, MfTypes, MfTypeOK, NumbersAreCounted, EarlyIsBlank,
       RowsPrecede, RowsCounted, DistinctNumbers, SeededTurnsNeverCollide, Early
<1>3. ASSUME NEW t \in MfTurns, LoadOrStore(t) PROVE MfIInv'
  <2>1. UNCHANGED <<traces, requests, seed, number, blind, session, recording,
                    collided, late, callSeq, chats, missed>>
    BY <1>3 DEF LoadOrStore, tables, calls
  <2>2. /\ mfPc[t] = "store" /\ mfPc'[t] = "add"
        /\ mfPc' \in [MfTurns -> Labels] /\ \A u \in MfTurns \ {t} : mfPc'[u] = mfPc[u]
    BY <1>0, <1>3 DEF LoadOrStore, MfGoto
  <2>3. /\ counters' \in Counters /\ counters'[session[t]].seeded
        /\ counters[session[t]].seeded => counters' = counters
        /\ ~counters[session[t]].seeded => counters'[session[t]].value = seed[t]
        /\ \A s \in Sessions \ {session[t]} : counters'[s] = counters[s]
    BY <1>0, <1>3 DEF LoadOrStore
  <2>4. NumbersAreCounted'
    BY <1>0, <2>1, <2>2, <2>3 DEF MfIInv, NumbersAreCounted, Early
  <2>5. DiskIsBehind'
    BY <1>0, <2>1, <2>2, <2>3 DEF MfIInv, DiskIsBehind
  <2>6. QED
    BY <2>1, <2>2, <2>3, <2>4, <2>5 DEF MfIInv, MfTypes, MfTypeOK, EarlyIsBlank,
       RowsPrecede, RowsCounted, DistinctNumbers, SeededTurnsNeverCollide, Early
<1>4. ASSUME NEW t \in MfTurns, MfAdd(t) PROVE MfIInv'
  <2> DEFINE s == session[t]
             n == counters[s].value + 1
  <2>1. UNCHANGED <<traces, requests, seed, blind, session, recording,
                    collided, late, callSeq, chats, missed>>
    BY <1>4 DEF MfAdd, tables, calls
  <2>2. /\ mfPc[t] = "add" /\ mfPc'[t] = "begin"
        /\ mfPc' \in [MfTurns -> Labels] /\ \A u \in MfTurns \ {t} : mfPc'[u] = mfPc[u]
        /\ number'[t] = n /\ \A u \in MfTurns \ {t} : number'[u] = number[u]
        /\ number' \in [MfTurns -> Nat] /\ n \in Nat /\ n > 0
    BY <1>0, <1>4 DEF MfAdd, MfGoto
  <2>3. /\ counters' \in Counters /\ counters'[s].value = n
        /\ n = counters[s].value + 1 /\ s \in Sessions /\ counters[s].value \in Nat
        /\ \A x \in Sessions : counters'[x].seeded = counters[x].seeded
        /\ \A x \in Sessions \ {s} : counters'[x].value = counters[x].value
    BY <1>0, <1>4 DEF MfAdd
  <2>4. counters[s].seeded
    BY <2>2 DEF MfIInv, NumbersAreCounted
  <2>5. NumbersAreCounted'
    <3> SUFFICES ASSUME NEW u \in MfTurns
        PROVE /\ mfPc'[u] = "add" => counters'[session[u]].seeded
              /\ number'[u] > 0 =>
                   counters'[session[u]].seeded /\ number'[u] <= counters'[session[u]].value
              /\ mfPc'[u] = "begin" \/ u \in late => number'[u] > 0
              /\ u \in late => mfPc'[u] \notin Early
      BY <2>1 DEF NumbersAreCounted
    <3>1. CASE u = t
      BY <1>0, <2>2, <2>3, <2>4, <3>1 DEF MfIInv, NumbersAreCounted, Early
    <3>2. CASE u # t
      <4>1. session[u] \in Sessions /\ counters[session[u]].value \in Nat /\ number[u] \in Nat
        BY <1>0
      <4>2. counters'[session[u]].value >= counters[session[u]].value
        BY <2>3, <4>1
      <4>3. counters'[session[u]].value \in Nat
        BY <2>3, <4>1
      <4>4. QED
        BY <2>2, <2>3, <3>2, <4>1, <4>2, <4>3 DEF MfIInv, NumbersAreCounted
    <3>3. QED
      BY <3>1, <3>2
  <2>6. DiskIsBehind'
    <3>1. \A u \in MfTurns : session[u] \notin blind /\ mfPc'[u] = "store"
                            /\ ~counters'[session[u]].seeded =>
            \A r \in traces : r.session = session[u] => r.turn <= seed[u]
      BY <1>0, <2>2, <2>3 DEF MfIInv, DiskIsBehind
    <3>2. \A r \in traces : r.session \notin blind /\ counters'[r.session].seeded =>
            r.turn <= counters'[r.session].value
      <4> SUFFICES ASSUME NEW r \in traces, r.session \notin blind, counters'[r.session].seeded
          PROVE r.turn <= counters'[r.session].value
        OBVIOUS
      <4>1. r.session \in Sessions /\ r.turn \in Nat /\ counters[r.session].value \in Nat
        BY <1>0
      <4>2. r.turn <= counters[r.session].value
        BY <2>3, <4>1 DEF MfIInv, DiskIsBehind
      <4>3. CASE r.session = s
        BY <2>3, <4>1, <4>2, <4>3
      <4>4. CASE r.session # s
        BY <2>3, <4>1, <4>2, <4>4
      <4>5. QED
        BY <4>3, <4>4
    <3>3. ASSUME NEW u \in MfTurns, NEW r \in traces, session[u] \notin blind, number'[u] > 0,
                 r.session = session[u], r.turn = number'[u]
          PROVE  r.by = u
      <4>1. CASE u = t
        <5>1. r.turn <= counters[s].value
          BY <2>4, <3>3, <4>1 DEF MfIInv, DiskIsBehind
        <5>2. QED
          BY <2>2, <2>3, <3>3, <4>1, <5>1
      <4>2. CASE u # t
        BY <2>2, <3>3, <4>2 DEF MfIInv, DiskIsBehind
      <4>3. QED
        BY <4>1, <4>2
    <3>4. QED
      BY <2>1, <3>1, <3>2, <3>3 DEF DiskIsBehind
  <2>7. DistinctNumbers'
    <3> SUFFICES ASSUME NEW u \in MfTurns, NEW v \in MfTurns, u # v,
                        session[u] = session[v], number'[u] > 0
        PROVE  number'[u] # number'[v]
      BY <2>1 DEF DistinctNumbers
    <3>1. \A x \in MfTurns : session[x] = s => number[x] < n
      <4> SUFFICES ASSUME NEW x \in MfTurns, session[x] = s PROVE number[x] < n
        OBVIOUS
      <4>1. number[x] \in Nat /\ (number[x] > 0 => number[x] <= counters[s].value)
        BY <1>0 DEF MfIInv, NumbersAreCounted
      <4>2. QED
        BY <2>3, <4>1
    <3>2. CASE u = t \/ v = t
      BY <1>0, <2>2, <3>1, <3>2
    <3>3. CASE u # t /\ v # t
      BY <2>2, <3>3 DEF MfIInv, DistinctNumbers
    <3>4. QED
      BY <3>2, <3>3
  <2>8. QED
    BY <2>1, <2>2, <2>3, <2>5, <2>6, <2>7 DEF MfIInv, MfTypes, MfTypeOK, EarlyIsBlank,
       RowsPrecede, RowsCounted, SeededTurnsNeverCollide, Early
<1>5. ASSUME NEW t \in MfTurns, number[t] > 0, mfPc'[t] \notin Early, Insert(t),
             \A u \in MfTurns \ {t} : mfPc'[u] = mfPc[u],
             UNCHANGED <<requests, counters, seed, number, blind, session>>
      PROVE  DiskIsBehind' /\ \A s \in Sessions : \E b \in Nat :
               \A r \in traces' : r.session = s => r.turn <= b
  <2> DEFINE row == [session |-> session[t], turn |-> number[t], by |-> t]
  <2>1. traces' = traces \cup {row} /\ row.session = session[t] /\ row.turn = number[t] /\ row.by = t
    BY <1>5 DEF Insert
  <2>2. session[t] \in Sessions /\ number[t] \in Nat /\ counters[session[t]].seeded
        /\ number[t] <= counters[session[t]].value
    BY <1>0, <1>5 DEF MfIInv, NumbersAreCounted
  <2>3. ASSUME NEW s \in Sessions
        PROVE  \E b \in Nat : \A r \in traces' : r.session = s => r.turn <= b
    <3>1. PICK b \in Nat : \A r \in traces : r.session = s => r.turn <= b
      BY DEF MfIInv, MfTypes
    <3>2. \A r \in traces : r.turn \in Nat
      BY <1>0
    <3>3. \A r \in traces' : r.session = s => r.turn <= (IF number[t] > b THEN number[t] ELSE b)
      BY <2>1, <2>2, <3>1, <3>2
    <3>4. QED
      BY <2>2, <3>1, <3>3
  <2>4. ASSUME NEW u \in MfTurns, session[u] \notin blind', mfPc'[u] = "store",
               ~counters'[session[u]].seeded, NEW r \in traces', r.session = session[u]
        PROVE  r.turn <= seed'[u]
    BY <1>5, <2>1, <2>2, <2>4 DEF MfIInv, DiskIsBehind, Early
  <2>5. ASSUME NEW r \in traces', r.session \notin blind', counters'[r.session].seeded
        PROVE  r.turn <= counters'[r.session].value
    BY <1>5, <2>1, <2>2, <2>5 DEF MfIInv, DiskIsBehind
  <2>6. ASSUME NEW u \in MfTurns, NEW r \in traces', session[u] \notin blind', number'[u] > 0,
               r.session = session[u], r.turn = number'[u]
        PROVE  r.by = u
    <3>1. CASE r \in traces
      BY <1>5, <2>6, <3>1 DEF MfIInv, DiskIsBehind
    <3>2. CASE r = row
      BY <1>5, <2>1, <2>6, <3>2 DEF MfIInv, DistinctNumbers
    <3>3. QED
      BY <2>1, <3>1, <3>2
  <2>7. QED
    BY <1>5, <2>3, <2>4, <2>5, <2>6 DEF DiskIsBehind
<1>6. ASSUME NEW t \in MfTurns, Begin(t) PROVE MfIInv'
  <2>1. /\ UNCHANGED <<requests, counters, seed, number, blind, session, collided, late, callSeq,
                       chats, missed>>
        /\ Insert(t)
    BY <1>6 DEF Begin, tables, allocation, calls
  <2>2. /\ mfPc[t] = "begin" /\ mfPc'[t] = "chat"
        /\ mfPc' \in [MfTurns -> Labels] /\ \A u \in MfTurns \ {t} : mfPc'[u] = mfPc[u]
        /\ recording' \in [MfTurns -> BOOLEAN]
        /\ \A u \in MfTurns \ {t} : recording'[u] = recording[u]
    BY <1>0, <1>6 DEF Begin, MfGoto
  <2>3. number[t] > 0
    BY <2>2 DEF MfIInv, NumbersAreCounted
  <2>4. DiskIsBehind' /\ \A s \in Sessions : \E b \in Nat :
               \A r \in traces' : r.session = s => r.turn <= b
    BY <1>5, <2>1, <2>2, <2>3 DEF Early
  <2>5. traces' \subseteq [session : Sessions, turn : Nat, by : MfTurns]
    BY <1>0, <2>1 DEF Insert
  <2>6. EarlyIsBlank'
    BY <1>0, <2>1, <2>2 DEF Insert, MfIInv, EarlyIsBlank, Early
  <2>7. RowsCounted'
    <3> SUFFICES ASSUME NEW u \in MfTurns
        PROVE  LET rows == {r \in requests : r.trace = u}
               IN  /\ IsFiniteSet(rows)
                   /\ recording'[u] /\ u \notin missed => Cardinality(rows) = chats[u]
      BY <2>1 DEF RowsCounted
    <3>1. CASE u = t
      <4>1. {r \in requests : r.trace = t} = {} /\ chats[t] = 0
        <5>1. callSeq[t] = 0 /\ chats[t] = 0
          BY <2>2 DEF MfIInv, EarlyIsBlank, Early
        <5>2. \A r \in requests : r.seq \in Nat /\ r.seq < callSeq[r.trace]
          BY <1>0 DEF MfIInv, RowsPrecede
        <5>3. QED
          BY <5>1, <5>2
      <4>2. QED
        BY <3>1, <4>1, FS_EmptySet
    <3>2. CASE u # t
      BY <2>2, <3>2 DEF MfIInv, RowsCounted
    <3>3. QED
      BY <3>1, <3>2
  <2>8. NumbersAreCounted'
    BY <2>1, <2>2 DEF MfIInv, NumbersAreCounted, Early
  <2>9. QED
    BY <2>1, <2>2, <2>4, <2>5, <2>6, <2>7, <2>8 DEF MfIInv, MfTypes, MfTypeOK,
       RowsPrecede, DistinctNumbers, SeededTurnsNeverCollide
<1>7. ASSUME NEW t \in MfTurns, BeginCollides(t) PROVE MfIInv'
  <2>1. UNCHANGED <<traces, requests, counters, seed, number, blind, session, recording, late,
                    callSeq, chats, missed>>
    BY <1>7 DEF BeginCollides, tables, allocation, calls
  <2>2. /\ mfPc[t] = "begin" /\ mfPc'[t] = "chat" /\ ~Fits(t) /\ collided' = collided \cup {t}
        /\ mfPc' \in [MfTurns -> Labels] /\ \A u \in MfTurns \ {t} : mfPc'[u] = mfPc[u]
    BY <1>0, <1>7 DEF BeginCollides, MfGoto
  <2>3. session[t] \in blind
    <3>1. PICK r \in traces : r.session = session[t] /\ r.turn = number[t]
      BY <2>2 DEF Fits, TurnsOnDisk
    <3>2. number[t] > 0 /\ r.by # t
      BY <2>2 DEF MfIInv, NumbersAreCounted, EarlyIsBlank, Early
    <3>3. QED
      BY <3>1, <3>2 DEF MfIInv, DiskIsBehind
  <2>4. SeededTurnsNeverCollide'
    BY <2>1, <2>2, <2>3 DEF MfIInv, SeededTurnsNeverCollide
  <2>5. NumbersAreCounted' /\ DiskIsBehind' /\ EarlyIsBlank'
    BY <2>1, <2>2 DEF MfIInv, NumbersAreCounted, DiskIsBehind, EarlyIsBlank, Early
  <2>6. QED
    BY <2>1, <2>2, <2>4, <2>5 DEF MfIInv, MfTypes, MfTypeOK, RowsPrecede, RowsCounted,
       DistinctNumbers
<1>8. ASSUME NEW t \in MfTurns, BeginFails(t) PROVE MfIInv'
  <2>1. UNCHANGED <<traces, requests, counters, seed, number, blind, session, recording, collided,
                    callSeq, chats, missed>>
    BY <1>8 DEF BeginFails, tables, allocation, calls
  <2>2. /\ mfPc[t] = "begin" /\ mfPc'[t] = "chat" /\ late' \in {late, late \cup {t}}
        /\ mfPc' \in [MfTurns -> Labels] /\ \A u \in MfTurns \ {t} : mfPc'[u] = mfPc[u]
    BY <1>0, <1>8 DEF BeginFails, MfGoto
  <2>3. NumbersAreCounted' /\ DiskIsBehind' /\ EarlyIsBlank'
    BY <2>1, <2>2 DEF MfIInv, NumbersAreCounted, DiskIsBehind, EarlyIsBlank, Early
  <2>4. QED
    BY <2>1, <2>2, <2>3 DEF MfIInv, MfTypes, MfTypeOK, RowsPrecede, RowsCounted,
       DistinctNumbers, SeededTurnsNeverCollide
<1>9. ASSUME NEW t \in MfTurns, LateBegin(t) PROVE MfIInv'
  <2>1. /\ UNCHANGED <<requests, counters, seed, number, blind, session, mfPc, recording, collided,
                       callSeq, chats, missed>>
        /\ t \in late /\ late' = late \ {t}
    BY <1>9 DEF LateBegin, allocation, calls
  <2>2. number[t] > 0 /\ mfPc[t] \notin Early
    BY <2>1 DEF MfIInv, NumbersAreCounted
  <2>3. /\ DiskIsBehind' /\ EarlyIsBlank'
        /\ traces' \subseteq [session : Sessions, turn : Nat, by : MfTurns]
        /\ \A s \in Sessions : \E b \in Nat : \A r \in traces' : r.session = s => r.turn <= b
    <3>1. CASE traces' = traces
      BY <2>1, <3>1 DEF MfIInv, DiskIsBehind, EarlyIsBlank, MfTypes, MfTypeOK
    <3>2. CASE Insert(t)
      <4>1. DiskIsBehind' /\ \A s \in Sessions : \E b \in Nat :
               \A r \in traces' : r.session = s => r.turn <= b
        BY <1>5, <2>1, <2>2, <3>2
      <4>2. traces' \subseteq [session : Sessions, turn : Nat, by : MfTurns]
        BY <1>0, <3>2 DEF Insert
      <4>3. EarlyIsBlank'
        BY <2>1, <2>2, <3>2 DEF Insert, MfIInv, EarlyIsBlank
      <4>4. QED
        BY <4>1, <4>2, <4>3
    <3>3. QED
      BY <1>9, <3>1, <3>2 DEF LateBegin
  <2>4. QED
    BY <2>1, <2>3 DEF MfIInv, MfTypes, MfTypeOK, NumbersAreCounted, RowsPrecede, RowsCounted,
       DistinctNumbers, SeededTurnsNeverCollide
<1>10. ASSUME NEW t \in MfTurns, mfPc[t] = "chat", Chat(t), callSeq' \in [MfTurns -> Nat],
              callSeq'[t] \in {callSeq[t], callSeq[t] + 1},
              \A u \in MfTurns \ {t} : callSeq'[u] = callSeq[u],
              requests' = requests \/ (callSeq'[t] = callSeq[t] + 1 /\
                                        requests' = requests \cup {Request(t)}),
              missed' \in {missed, missed \cup {t}},
              recording[t] /\ t \notin missed' => ~SlotTaken(t) /\ requests' = requests \cup {Request(t)}
       PROVE  MfIInv'
  <2>1. UNCHANGED <<traces, counters, seed, number, blind, session, mfPc, recording, collided, late>>
    BY <1>10 DEF Chat, allocation
  <2>2. /\ chats' \in [MfTurns -> Nat] /\ chats'[t] = chats[t] + 1
        /\ \A u \in MfTurns \ {t} : chats'[u] = chats[u]
    BY <1>0, <1>10 DEF Chat
  <2>3. /\ Request(t).trace = t /\ Request(t).seq = callSeq[t]
        /\ Request(t) \in [trace : MfTurns, seq : Nat, chat : Nat]
    BY <1>0 DEF Request
  <2>4. requests' \subseteq [trace : MfTurns, seq : Nat, chat : Nat]
    BY <1>0, <1>10, <2>3
  <2>5. RowsPrecede'
    <3> SUFFICES ASSUME NEW r \in requests' PROVE r.seq < callSeq'[r.trace]
      BY DEF RowsPrecede
    <3>1. CASE r \in requests
      <4>1. r.seq \in Nat /\ r.trace \in MfTurns /\ r.seq < callSeq[r.trace]
        BY <1>0, <3>1 DEF MfIInv, RowsPrecede
      <4>2. callSeq[r.trace] \in Nat /\ callSeq'[r.trace] >= callSeq[r.trace]
        BY <1>0, <1>10, <4>1
      <4>3. QED
        BY <1>10, <4>1, <4>2
    <3>2. CASE r \notin requests
      BY <1>0, <1>10, <2>3, <3>2
    <3>3. QED
      BY <3>1, <3>2
  <2>6. RowsCounted'
    <3> SUFFICES ASSUME NEW u \in MfTurns
        PROVE  LET rows == {r \in requests' : r.trace = u}
               IN  /\ IsFiniteSet(rows)
                   /\ recording[u] /\ u \notin missed' => Cardinality(rows) = chats'[u]
      BY <2>1 DEF RowsCounted
    <3> DEFINE rows == {r \in requests : r.trace = u}
    <3>1. IsFiniteSet(rows) /\ (recording[u] /\ u \notin missed => Cardinality(rows) = chats[u])
      BY DEF MfIInv, RowsCounted
    <3>2. CASE u # t
      <4>1. {r \in requests' : r.trace = u} = rows
        BY <1>10, <2>3, <3>2
      <4>2. QED
        BY <1>10, <2>2, <3>1, <3>2, <4>1
    <3>3. CASE u = t
      <4>1. CASE requests' = requests
        <5>1. ~(recording[t] /\ t \notin missed')
          BY <1>10, <2>3, <4>1 DEF SlotTaken
        <5>2. QED
          BY <3>1, <3>3, <4>1, <5>1
      <4>2. CASE requests' = requests \cup {Request(t)}
        <5>1. {r \in requests' : r.trace = u} = rows \cup {Request(t)}
          BY <2>3, <3>3, <4>2
        <5>2. /\ IsFiniteSet(rows \cup {Request(t)})
              /\ Request(t) \notin rows =>
                   Cardinality(rows \cup {Request(t)}) = Cardinality(rows) + 1
          BY <3>1, FS_AddElement
        <5>3. ~SlotTaken(t) => Request(t) \notin rows
          BY <2>3 DEF SlotTaken
        <5>4. QED
          BY <1>10, <2>2, <3>1, <3>3, <5>1, <5>2, <5>3
      <4>3. QED
        BY <1>10, <4>1, <4>2
    <3>4. QED
      BY <3>2, <3>3
  <2>7. EarlyIsBlank'
    BY <1>10, <2>1, <2>2 DEF MfIInv, EarlyIsBlank, Early
  <2>8. missed' \subseteq MfTurns
    BY <1>0, <1>10
  <2>9. QED
    BY <1>10, <2>1, <2>2, <2>4, <2>5, <2>6, <2>7, <2>8 DEF MfIInv, MfTypes, MfTypeOK,
       NumbersAreCounted, DiskIsBehind, DistinctNumbers, SeededTurnsNeverCollide
<1>11. ASSUME NEW t \in MfTurns, ChatUntraced(t) \/ ChatRecorded(t) \/ ChatMissed(t) PROVE MfIInv'
  <2>1. Chat(t) /\ mfPc[t] = "chat"
    BY <1>11 DEF ChatUntraced, ChatRecorded, ChatMissed, Chat
  <2>2. CASE ChatUntraced(t)
    BY <1>0, <1>10, <2>1, <2>2 DEF ChatUntraced
  <2>3. CASE ChatRecorded(t)
    <3>1. callSeq' = [callSeq EXCEPT ![t] = @ + 1] /\ ~SlotTaken(t) /\ missed' = missed
          /\ requests' = requests \cup {Request(t)}
      BY <2>3 DEF ChatRecorded, NextSeq
    <3>2. QED
      BY <1>0, <1>10, <2>1, <3>1
  <2>4. CASE ChatMissed(t)
    <3>1. callSeq' = [callSeq EXCEPT ![t] = @ + 1] /\ missed' = missed \cup {t}
          /\ requests' \in {requests, requests \cup {Request(t)}}
      BY <2>4 DEF ChatMissed, NextSeq
    <3>2. QED
      BY <1>0, <1>10, <2>1, <3>1
  <2>5. QED
    BY <1>11, <2>2, <2>3, <2>4
<1>12. ASSUME NEW t \in MfTurns, Finish(t) PROVE MfIInv'
  <2>1. UNCHANGED <<traces, requests, counters, seed, number, blind, session, recording,
                    collided, late, callSeq, chats, missed>>
    BY <1>12 DEF Finish, tables, allocation, calls
  <2>2. /\ mfPc'[t] = "done"
        /\ mfPc' \in [MfTurns -> Labels] /\ \A u \in MfTurns \ {t} : mfPc'[u] = mfPc[u]
    BY <1>0, <1>12 DEF Finish, MfGoto
  <2>3. QED
    BY <2>1, <2>2 DEF MfIInv, MfTypes, MfTypeOK, NumbersAreCounted, DiskIsBehind, EarlyIsBlank,
       RowsPrecede, RowsCounted, DistinctNumbers, SeededTurnsNeverCollide, Early
<1>13. CASE MfRestart
  <2>1. /\ UNCHANGED <<traces, requests, seed, session, recording, callSeq, chats, missed>>
        /\ late' = {} /\ blind' = {} /\ collided' = {}
    BY <1>13 DEF MfRestart, tables, calls
  <2>2. /\ counters' \in Counters /\ \A s \in Sessions : ~counters'[s].seeded
        /\ number' \in [MfTurns -> Nat] /\ \A t \in MfTurns : number'[t] = 0
    BY <1>13 DEF MfRestart, NoCounter
  <2>3. /\ mfPc' \in [MfTurns -> Labels]
        /\ \A t \in MfTurns : mfPc'[t] \in {"idle", "done"}
                              /\ (mfPc'[t] = "idle" => mfPc[t] = "idle")
    BY <1>0, <1>13 DEF MfRestart
  <2>4. DiskIsBehind'
    BY <1>0, <2>1, <2>2, <2>3 DEF DiskIsBehind
  <2>5. EarlyIsBlank'
    BY <2>1, <2>3 DEF MfIInv, EarlyIsBlank, Early
  <2>6. NumbersAreCounted' /\ DistinctNumbers' /\ SeededTurnsNeverCollide'
    BY <2>1, <2>2, <2>3 DEF NumbersAreCounted, DistinctNumbers, SeededTurnsNeverCollide
  <2>7. RowsPrecede' /\ RowsCounted'
    BY <2>1 DEF MfIInv, RowsPrecede, RowsCounted
  <2>8. MfTypes'
    BY <1>0, <2>1, <2>2, <2>3 DEF MfIInv, MfTypes, MfTypeOK
  <2>9. QED
    BY <2>4, <2>5, <2>6, <2>7, <2>8 DEF MfIInv
<1>14. CASE UNCHANGED mfVars
  BY <1>14 DEF mfVars, tables, allocation, calls, MfIInv, MfTypes, MfTypeOK, NumbersAreCounted,
     DiskIsBehind, EarlyIsBlank, RowsPrecede, RowsCounted, DistinctNumbers,
     SeededTurnsNeverCollide
<1>15. QED
  BY <1>1, <1>2, <1>3, <1>4, <1>6, <1>7, <1>8, <1>9, <1>11, <1>12, <1>13, <1>14 DEF MfNext, MfStop

\* However the turns of a session overlap, and wherever their contexts, their
\* writes or the process end: a number is handed out once, a counter seeded from
\* disk meets no row on disk, and every provider call is one row with a
\* call_seq of its own (allocateACSTurnNumber, BeginTurn, acsChat).
THEOREM ManifestCorrect == MfSpec => []MfInv
<1>1. MfIInv => MfInv
  <2>1. MfIInv => CallSeqIsFresh
    <3> SUFFICES ASSUME MfIInv, NEW t \in MfTurns, NEW r \in requests, r.trace = t,
                        r.seq = callSeq[t]
                 PROVE  FALSE
      BY DEF CallSeqIsFresh, SlotTaken
    <3>1. r.seq \in Nat /\ r.seq < callSeq[t]
      BY DEF MfIInv, RowsPrecede, MfTypes, MfTypeOK
    <3>2. QED
      BY <3>1
  <2>2. MfIInv => EveryCallRecorded
    BY DEF MfIInv, RowsCounted, EveryCallRecorded
  <2>3. QED
    BY <2>1, <2>2 DEF MfIInv, MfTypes, MfInv
<1>2. QED
  BY <1>1, MfInitIInv, MfStepIInv, PTL DEF MfSpec

-----------------------------------------------------------------------------
(***************************************************************************)
(* The session store.  First what readMessages returns.                    *)
(***************************************************************************)

\* A set of line numbers is finite.
LEMMA PartOfFile ==
    ASSUME NEW b \in Nat, NEW S \in SUBSET (1..b)
    PROVE  IsFiniteSet(S) /\ Cardinality(S) \in Nat
<1>1. IsFiniteSet(1..b)
    BY FS_Interval
<1> QED
    BY <1>1, FS_Subset, FS_CardinalityType

\* Each of the first Cardinality(S) places is that of one member of S.
LEMMA NthExists ==
    ASSUME NEW b \in Nat, NEW S \in SUBSET (1..b), NEW i \in 1..Cardinality(S)
    PROVE  Nth(S, i) \in S /\ Cardinality({m \in S : m <= Nth(S, i)}) = i
<1> DEFINE upTo(n) == {m \in S : m <= n}
           T == {n \in Nat : Cardinality(upTo(n)) >= i}
<1>1. IsFiniteSet(S) /\ Cardinality(S) \in Nat
    BY PartOfFile
<1>2. ASSUME NEW n \in Nat PROVE IsFiniteSet(upTo(n)) /\ Cardinality(upTo(n)) \in Nat
    <2>1. upTo(n) \in SUBSET S
        OBVIOUS
    <2> HIDE DEF upTo
    <2> QED
        BY <1>1, <2>1, FS_Subset, FS_CardinalityType
<1>3. upTo(b) = S /\ upTo(0) = {}
    <2>1. \A m \in S : m \in Nat /\ m <= b /\ ~(m <= 0)
        OBVIOUS
    <2> QED
        BY <2>1
<1>4. ASSUME NEW n \in Nat, n # 0, n \notin S PROVE upTo(n) = upTo(n - 1)
    <2>1. \A m \in S : m \in Nat /\ (m <= n <=> m <= n - 1)
        BY <1>4
    <2> QED
        BY <2>1
<1>5. ASSUME NEW n \in Nat, n # 0, n \in S
      PROVE  upTo(n) = upTo(n - 1) \cup {n} /\ n \notin upTo(n - 1)
    <2>1. \A m \in S : m \in Nat /\ (m <= n <=> (m <= n - 1 \/ m = n))
        BY <1>5
    <2>2. ~(n <= n - 1)
        BY <1>5
    <2>3. n \notin upTo(n - 1)
        BY <2>2
    <2>4. \A m : m \in upTo(n) <=> (m \in upTo(n - 1) \/ m = n)
        BY <1>5, <2>1
    <2> HIDE DEF upTo
    <2> QED
        BY <2>3, <2>4
<1> HIDE DEF upTo
<1>6. b \in T /\ 0 \notin T
    BY <1>1, <1>3, FS_EmptySet
<1>7. PICK n \in T : \A x \in T : n <= x
    <2>1. T \in SUBSET Nat /\ T # {}
        BY <1>6
    <2> HIDE DEF T
    <2> QED
        BY <2>1, LeastElement
<1>8. n \in Nat /\ n # 0 /\ n - 1 \in Nat
    BY <1>6, <1>7
<1>9. n - 1 \notin T
    <2> HIDE DEF T
    <2> QED
        BY <1>7, <1>8
<1>10. Cardinality(upTo(n)) >= i /\ Cardinality(upTo(n - 1)) < i
    BY <1>2, <1>7, <1>8, <1>9
<1>11. n \in S
    BY <1>2, <1>4, <1>8, <1>10
<1>12. Cardinality(upTo(n)) = Cardinality(upTo(n - 1)) + 1
    BY <1>2, <1>5, <1>8, <1>11, FS_AddElement
<1>13. Cardinality(upTo(n)) = i
    BY <1>2, <1>8, <1>10, <1>12
<1> QED
    BY <1>11, <1>13 DEF Nth, upTo

\* It returns messages, whatever the file holds.
LEMMA ReadsMessages ==
    ASSUME NEW ls \in Seq(Seq(Msgs \cup {Half})), NEW k \in Nat
    PROVE  Read(ls, k) \in Seq(Msgs)
<1> DEFINE valid == {n \in (k + 1)..Len(ls) : Parses(ls[n])}
<1>1. valid \in SUBSET (1..Len(ls)) /\ Len(ls) \in Nat
    OBVIOUS
<1>2. Cardinality(valid) \in Nat
    <2> HIDE DEF valid
    <2> QED
        BY <1>1, PartOfFile
<1>3. ASSUME NEW i \in 1..Cardinality(valid) PROVE ls[Nth(valid, i)][1] \in Msgs
    <2> PICK n : n = Nth(valid, i)
        OBVIOUS
    <2>1. n \in valid
        <3> HIDE DEF valid
        <3> QED
            BY <1>1, NthExists
    <2>2. n \in 1..Len(ls) /\ Parses(ls[n])
        BY <2>1
    <2> DEFINE Pieces == Seq(Msgs \cup {Half})
    <2>5. ls \in Seq(Pieces)
        OBVIOUS
    <2> HIDE DEF Pieces
    <2>6. ls[n] \in Pieces
        BY <2>2, <2>5, ElementOfSeq
    <2> PICK l \in Pieces : l = ls[n]
        BY <2>6
    <2>3. Len(l) = 1 /\ l # <<Half>>
        BY <2>2 DEF Parses
    <2>4. l[1] \in Msgs \cup {Half} /\ l[1] # Half
        <3>1. l \in Seq(Msgs \cup {Half}) /\ <<Half>> \in Seq(Msgs \cup {Half})
            BY DEF Pieces
        <3>2. Len(<<Half>>) = 1 /\ <<Half>>[1] = Half
            OBVIOUS
        <3>3. l[1] = Half => \A j \in 1..Len(l) : l[j] = <<Half>>[j]
            BY <2>3, <3>2
        <3>4. l[1] = Half => l = <<Half>>
            BY <2>3, <3>1, <3>2, <3>3, SeqEqual
        <3> QED
            BY <2>3, <3>1, <3>4
    <2> QED
        BY <2>4
<1>4. Read(ls, k) = [i \in 1..Cardinality(valid) |-> ls[Nth(valid, i)][1]]
    BY DEF Read
<1> DEFINE c == Cardinality(valid)
           m(i) == ls[Nth(valid, i)][1]
<1>5. c \in Nat /\ \A i \in 1..c : m(i) \in Msgs
    BY <1>2, <1>3
<1>6. Read(ls, k) = [i \in 1..c |-> m(i)]
    BY <1>4
<1> HIDE DEF c, m
<1>7. [i \in 1..c |-> m(i)] \in Seq(Msgs)
    BY <1>5
<1> QED
    BY <1>6, <1>7

\* A file whose lines all parse.
Whole(ls) == ls \in Seq(Seq(Msgs)) /\ \A n \in 1..Len(ls) : Len(ls[n]) = 1

\* Of such a file it returns every message after the offset.
LEMMA ReadsWhole ==
    ASSUME StoreAssumption, NEW ls, Whole(ls), NEW k \in 0..Len(ls)
    PROVE  /\ Read(ls, k) \in Seq(Msgs) /\ Len(Read(ls, k)) = Len(ls) - k
           /\ \A i \in 1..(Len(ls) - k) : Read(ls, k)[i] = ls[k + i][1]
<1> DEFINE valid == {n \in (k + 1)..Len(ls) : Parses(ls[n])}
<1>1. Len(ls) \in Nat /\ \A n \in 1..Len(ls) : ls[n] \in Seq(Msgs) /\ Len(ls[n]) = 1
    BY DEF Whole
<1>2. ASSUME NEW n \in 1..Len(ls) PROVE Parses(ls[n]) /\ ls[n][1] \in Msgs
    <2> PICK l : l = ls[n]
        OBVIOUS
    <2>1. l \in Seq(Msgs) /\ Len(l) = 1
        BY <1>1
    <2>2. l[1] \in Msgs
        BY <2>1
    <2>3. l[1] # Half
        BY <2>2, StoreAssumption
    <2>4. l # <<Half>>
        BY <2>3
    <2> QED
        BY <2>1, <2>2, <2>4 DEF Parses
<1>3. valid = (k + 1)..Len(ls)
    BY <1>1, <1>2
<1>4. Cardinality(valid) = Len(ls) - k
    <2>1. k + 1 \in Int /\ Len(ls) \in Int /\ k <= Len(ls)
        BY <1>1
    <2>2. Cardinality((k + 1)..Len(ls)) =
            IF k + 1 > Len(ls) THEN 0 ELSE Len(ls) - (k + 1) + 1
        BY <2>1, FS_Interval
    <2> HIDE DEF valid
    <2> QED
        BY <1>3, <2>1, <2>2
<1>5. ASSUME NEW i \in 1..(Len(ls) - k) PROVE Nth(valid, i) = k + i
    <2>1. ASSUME NEW n \in valid PROVE Cardinality({m \in valid : m <= n}) = n - k
        <3> DEFINE below == {m \in valid : m <= n}
        <3>1. below = (k + 1)..n /\ n \in Nat /\ n > k
            BY <1>1, <1>3, <2>1
        <3>2. k + 1 \in Int /\ n \in Int
            BY <3>1
        <3>3. Cardinality((k + 1)..n) = IF k + 1 > n THEN 0 ELSE n - (k + 1) + 1
            BY <3>2, FS_Interval
        <3> HIDE DEF below
        <3>4. Cardinality(below) = n - k
            BY <3>1, <3>2, <3>3
        <3> QED
            BY <3>4 DEF below
    <2>2. k + i \in valid
        BY <1>1, <1>3
    <2>3. \A n \in valid : n \in Nat /\ (n - k = i <=> n = k + i)
        BY <1>1, <1>3
    <2> HIDE DEF valid
    <2> QED
        BY <2>1, <2>2, <2>3 DEF Nth
<1>6. Read(ls, k) = [i \in 1..(Len(ls) - k) |-> ls[Nth(valid, i)][1]]
    BY <1>4 DEF Read
<1> HIDE DEF valid
<1>7. Read(ls, k) = [i \in 1..(Len(ls) - k) |-> ls[k + i][1]]
    BY <1>5, <1>6
<1>8. \A i \in 1..(Len(ls) - k) : ls[k + i][1] \in Msgs
    BY <1>1, <1>2
<1> PICK L \in Nat : L = Len(ls)
    BY <1>1
<1> DEFINE n == L - k
           m(i) == ls[k + i][1]
<1>9. n \in Nat /\ \A i \in 1..n : m(i) \in Msgs
    BY <1>8
<1>10. Read(ls, k) = [i \in 1..n |-> m(i)]
    BY <1>7
<1> HIDE DEF n, m
<1>11. /\ Read(ls, k) \in Seq(Msgs) /\ Len(Read(ls, k)) = n
       /\ \A i \in 1..n : Read(ls, k)[i] = m(i)
    BY <1>9, <1>10
<1> QED
    BY <1>11 DEF n, m

\* A suffix, place by place.
LEMMA SuffixIs ==
    ASSUME NEW S, NEW s \in Seq(S), NEW t \in Seq(S)
    PROVE  IsSuffix(s, t) <=> /\ Len(s) <= Len(t)
                              /\ \A i \in 1..Len(s) : s[i] = t[Len(t) - Len(s) + i]
<1> DEFINE m == Len(s)
           n == Len(t)
           rs == [i \in 1..m |-> s[(m - i) + 1]]
           rt == [i \in 1..n |-> t[(n - i) + 1]]
<1>1. m \in Nat /\ n \in Nat
    OBVIOUS
<1>2. rs \in Seq(S) /\ rt \in Seq(S) /\ Len(rs) = m /\ Len(rt) = n
    BY <1>1
<1>3. IsSuffix(s, t) <=> m <= n /\ SubSeq(rs, 1, m) = SubSeq(rt, 1, m)
    <2>1. Reverse(s) = rs /\ Reverse(t) = rt
        BY DEF Reverse
    <2> HIDE DEF rs, rt
    <2> QED
        BY <1>2, <2>1 DEF IsSuffix, IsPrefix
<1>4. ASSUME m <= n
      PROVE  SubSeq(rs, 1, m) = SubSeq(rt, 1, m) <=> \A i \in 1..m : rs[i] = rt[i]
    <2>1. SubSeq(rs, 1, m) = [i \in 1..m |-> rs[i]] /\ SubSeq(rt, 1, m) = [i \in 1..m |-> rt[i]]
        <3> HIDE DEF rs, rt, m, n
        <3> QED
            BY <1>1, <1>2, <1>4
    <2> HIDE DEF rs, rt
    <2> QED
        BY <2>1
<1>5. ASSUME m <= n
      PROVE  (\A i \in 1..m : rs[i] = rt[i]) <=> (\A i \in 1..m : s[i] = t[n - m + i])
    <2>1. \A i \in 1..m : /\ m - i + 1 \in 1..m /\ rs[i] = s[m - i + 1] /\ rt[i] = t[n - i + 1]
                          /\ n - m + (m - i + 1) = n - i + 1
        BY <1>1, <1>5
    <2>2. \A i \in 1..m : /\ rs[m - i + 1] = s[i] /\ rt[m - i + 1] = t[n - m + i]
        BY <1>1, <1>5
    <2> HIDE DEF rs, rt, m, n
    <2>3. ASSUME \A i \in 1..m : rs[i] = rt[i], NEW i \in 1..m PROVE s[i] = t[n - m + i]
        BY <2>1, <2>2, <2>3
    <2>4. ASSUME \A i \in 1..m : s[i] = t[n - m + i], NEW i \in 1..m PROVE rs[i] = rt[i]
        BY <2>1, <2>4
    <2> QED
        BY <2>3, <2>4
<1> QED
    BY <1>3, <1>4, <1>5

(***************************************************************************)
(* The inductive invariant.  OpOK: where an operation can be.  Clean: as   *)
(* long as no append has left half a line, every line is one message, and  *)
(* what an operation under way carries agrees with what is on disk.        *)
(***************************************************************************)
OpOK ==
    /\ op \in [kind : {"idle", "add", "set", "compact"}, at : {"idle", "append", "meta", "lines"},
               arg : Seq(Msgs), before : Seq(Msgs)]
    /\ op.kind = "idle" <=> op = Idle
    /\ op.kind = "idle" <=> op.at = "idle"
    /\ op.kind = "add" => op.at \in {"append", "meta"} /\ Len(op.arg) = 1
    /\ op.at = "append" => op.kind = "add"
    /\ op.at = "lines" => op.kind \in {"set", "compact"} /\ skip = 0

\* What SetHistory is given: a suffix of what is there, perhaps with a note before it.
Notes == {<<>>} \cup {<<m>> : m \in Msgs}
Replaces(h, new) ==
    \E k \in 0..Len(h), note \in Notes : new = note \o SubSeq(h, Len(h) - k + 1, Len(h))

Rewriting == op.kind \in {"set", "compact"}

Clean ==
    /\ ~tail /\ Whole(lines)
    /\ IsSuffix(expected, History)
    /\ undone = "no" /\ op.at # "lines" => History = expected
    /\ Rewriting /\ op.at = "meta" => op.before = History
    /\ op.at = "lines" => IsSuffix(op.before, History)
    /\ op.kind = "set" => Replaces(op.before, op.arg)
    /\ op.kind = "compact" =>
         /\ op.arg = op.before /\ IsSuffix(expected, op.arg)
         /\ undone = "no" => op.arg = expected

StIInv == TypeOK /\ OpOK /\ (~torn => Clean)

LEMMA HistoryTyped ==
    ASSUME TypeOK
    PROVE  History \in Seq(Msgs)
<1>1. lines \in Seq(Seq(Msgs \cup {Half})) /\ skip \in Nat
    BY DEF TypeOK
<1> QED
    BY <1>1, ReadsMessages DEF History

\* The part of a whole file after the offset.
LEMMA HistoryIs ==
    ASSUME StoreAssumption, TypeOK, Whole(lines)
    PROVE  /\ History \in Seq(Msgs) /\ Len(History) = Len(lines) - skip
           /\ \A i \in 1..(Len(lines) - skip) : History[i] = lines[skip + i][1]
<1>1. skip \in 0..Len(lines)
    BY DEF TypeOK
<1> QED
    BY <1>1, ReadsWhole DEF History

LEMMA SuffixTransitive ==
    ASSUME NEW S, NEW s \in Seq(S), NEW t \in Seq(S), NEW u \in Seq(S),
           IsSuffix(s, t), IsSuffix(t, u)
    PROVE  IsSuffix(s, u)
<1> PICK l, m, n : l = Len(s) /\ m = Len(t) /\ n = Len(u)
    OBVIOUS
<1>1. l \in Nat /\ m \in Nat /\ n \in Nat /\ l <= m /\ m <= n
    BY SuffixIs
<1>2. ASSUME NEW i \in 1..l PROVE s[i] = u[n - l + i]
    <2>1. s[i] = t[m - l + i] /\ m - l + i \in 1..m
        BY <1>1, SuffixIs
    <2>2. t[m - l + i] = u[n - m + (m - l + i)]
        BY <2>1, SuffixIs
    <2>3. n - m + (m - l + i) = n - l + i
        BY <1>1
    <2> QED
        BY <2>1, <2>2, <2>3
<1> QED
    BY <1>1, <1>2, SuffixIs

LEMMA SuffixOfItself ==
    ASSUME NEW S, NEW s \in Seq(S)
    PROVE  IsSuffix(s, s)
BY SuffixIs

\* The last k of a sequence.
LEMMA LastOfIs ==
    ASSUME NEW S, NEW h \in Seq(S), NEW k \in Nat
    PROVE  /\ LastOf(h, k) \in Seq(S)
           /\ Len(LastOf(h, k)) = IF k < Len(h) THEN k ELSE Len(h)
           /\ k < Len(h) => \A i \in 1..k : LastOf(h, k)[i] = h[Len(h) - k + i]
           /\ k >= Len(h) => LastOf(h, k) = h
<1> PICK n \in Nat : n = Len(h)
    OBVIOUS
<1>1. CASE k < n
    <2> DEFINE l == SubSeq(h, n - k + 1, n)
    <2>1. \A i \in (n - k + 1)..n : h[i] \in S
        BY <1>1, ElementOfSeq
    <2>2. n - k + 1 \in Int /\ n \in Int
        OBVIOUS
    <2>3. /\ l \in Seq(S) /\ Len(l) = IF n - k + 1 <= n THEN n - (n - k + 1) + 1 ELSE 0
          /\ \A i \in 1..(n - (n - k + 1) + 1) : l[i] = h[(n - k + 1) + i - 1]
        BY <2>1, <2>2, SubSeqProperties
    <2>4. LastOf(h, k) = l
        BY <1>1 DEF LastOf
    <2> HIDE DEF l
    <2>5. Len(l) = k /\ \A i \in 1..k : l[i] = h[n - k + i]
        BY <1>1, <2>3
    <2> QED
        BY <1>1, <2>3, <2>4, <2>5
<1>2. CASE ~(k < n)
    BY <1>2 DEF LastOf
<1> QED
    BY <1>1, <1>2

\* A suffix of a sequence stays one of its last k.
LEMMA LastOfSuffix ==
    ASSUME NEW S, NEW s \in Seq(S), NEW h \in Seq(S), IsSuffix(s, h), NEW k \in Nat
    PROVE  IsSuffix(LastOf(s, k), LastOf(h, k))
<1> PICK m, n : m = Len(s) /\ n = Len(h)
    OBVIOUS
<1>1. m \in Nat /\ n \in Nat /\ m <= n /\ \A i \in 1..m : s[i] = h[n - m + i]
    BY SuffixIs
<1>2. LastOf(s, k) \in Seq(S) /\ LastOf(h, k) \in Seq(S)
    BY LastOfIs
<1>3. CASE k >= n
    BY <1>1, <1>3, LastOfIs
<1>4. CASE k < n /\ k >= m
    <2>1. LastOf(s, k) = s /\ Len(LastOf(h, k)) = k
        BY <1>1, <1>4, LastOfIs
    <2>2. ASSUME NEW i \in 1..m PROVE s[i] = LastOf(h, k)[k - m + i]
        <3>1. k - m + i \in 1..k /\ n - k + (k - m + i) = n - m + i
            BY <1>1, <1>4
        <3>2. LastOf(h, k)[k - m + i] = h[n - k + (k - m + i)]
            BY <1>4, <3>1, LastOfIs
        <3> QED
            BY <1>1, <3>1, <3>2
    <2> QED
        BY <1>1, <1>2, <1>4, <2>1, <2>2, SuffixIs
<1>5. CASE k < m
    <2>1. Len(LastOf(s, k)) = k /\ Len(LastOf(h, k)) = k
        BY <1>1, <1>5, LastOfIs
    <2>2. ASSUME NEW i \in 1..k PROVE LastOf(s, k)[i] = LastOf(h, k)[k - k + i]
        <3>1. LastOf(s, k)[i] = s[m - k + i] /\ LastOf(h, k)[i] = h[n - k + i]
            BY <1>1, <1>5, LastOfIs
        <3>2. m - k + i \in 1..m /\ n - m + (m - k + i) = n - k + i /\ k - k + i = i
            BY <1>1, <1>5
        <3>3. s[m - k + i] = h[n - m + (m - k + i)]
            BY <1>1, <3>2
        <3> QED
            BY <3>1, <3>2, <3>3
    <2> QED
        BY <1>2, <2>1, <2>2, SuffixIs
<1> QED
    BY <1>1, <1>3, <1>4, <1>5

LEMMA ReplacementsAre ==
    ASSUME TypeOK, NEW h \in Replacements
    PROVE  h \in Seq(Msgs) /\ Replaces(History, h)
<1>1. PICK k, note : /\ k \in 0..Len(History) /\ note \in {<<>>} \cup {<<m>> : m \in Msgs \ used}
                     /\ h = note \o LastOf(History, k)
    <2> DEFINE ks == 0..Len(History)
               ns == {<<>>} \cup {<<m>> : m \in Msgs \ used}
               new(k, note) == note \o LastOf(History, k)
    <2>1. h \in {new(k, note) : k \in ks, note \in ns}
        BY DEF Replacements
    <2> HIDE DEF ks, ns, new
    <2>2. \E k \in ks : \E note \in ns : h = new(k, note)
        BY <2>1
    <2> QED
        BY <2>2 DEF ks, ns, new
<1>2. History \in Seq(Msgs) /\ k \in Nat /\ Len(History) \in Nat
    BY <1>1, HistoryTyped
<1>3. note \in Notes /\ note \in Seq(Msgs)
    <2>1. note = <<>> \/ \E m \in Msgs : note = <<m>>
        BY <1>1
    <2>2. <<>> \in Seq(Msgs) /\ \A m \in Msgs : <<m>> \in Seq(Msgs)
        OBVIOUS
    <2> QED
        BY <2>1, <2>2, Zenon DEF Notes
<1>4. LastOf(History, k) \in Seq(Msgs)
    BY <1>2, LastOfIs
<1>5. LastOf(History, k) = SubSeq(History, Len(History) - k + 1, Len(History))
    <2>1. k < Len(History) \/ k = Len(History)
        BY <1>1, <1>2
    <2>2. k = Len(History) => Len(History) - k + 1 = 1
        BY <1>2
    <2> QED
        BY <1>2, <2>1, <2>2, SubSeqFull DEF LastOf
<1>6. h \in Seq(Msgs)
    BY <1>1, <1>3, <1>4, ConcatProperties
<1> QED
    BY <1>1, <1>3, <1>5, <1>6 DEF Replaces

LEMMA AppendedTyped ==
    ASSUME TypeOK, NEW piece \in Msgs \cup {Half}
    PROVE  /\ Appended(piece) \in Seq(Seq(Msgs \cup {Half}))
           /\ Len(Appended(piece)) >= Len(lines)
<1> DEFINE Pieces == Seq(Msgs \cup {Half})
<1>1. lines \in Seq(Pieces) /\ Len(lines) \in Nat
    BY DEF TypeOK
<1>2. CASE tail /\ Len(lines) > 0
    <2>1. lines[Len(lines)] \in Pieces
        <3> HIDE DEF Pieces
        <3> QED
            BY <1>1, <1>2, ElementOfSeq
    <2>2. Append(lines[Len(lines)], piece) \in Pieces
        BY <2>1
    <2> HIDE DEF Pieces
    <2>3. /\ [lines EXCEPT ![Len(lines)] = Append(@, piece)] \in Seq(Pieces)
          /\ Len([lines EXCEPT ![Len(lines)] = Append(@, piece)]) = Len(lines)
        BY <1>1, <1>2, <2>2, ExceptSeq
    <2> QED
        BY <1>1, <1>2, <2>3 DEF Appended, Pieces
<1>3. CASE tail /\ Len(lines) = 0
    <2>1. lines = <<>>
        BY <1>1, <1>3
    <2>2. [lines EXCEPT ![Len(lines)] = Append(@, piece)] = lines
        BY <1>1, <1>3, <2>1
    <2>3. Appended(piece) = lines
        BY <1>3, <2>2 DEF Appended
    <2> HIDE DEF Pieces
    <2>4. Appended(piece) \in Seq(Pieces) /\ Len(Appended(piece)) >= Len(lines)
        BY <1>1, <2>3
    <2> QED
        BY <2>4 DEF Pieces
<1>4. CASE ~tail
    <2>1. <<piece>> \in Pieces
        OBVIOUS
    <2> HIDE DEF Pieces
    <2>2. Append(lines, <<piece>>) \in Seq(Pieces) /\ Len(Append(lines, <<piece>>)) = Len(lines) + 1
        BY <1>1, <2>1
    <2> QED
        BY <1>1, <1>4, <2>2 DEF Appended, Pieces
<1> QED
    BY <1>1, <1>2, <1>3, <1>4

LEMMA StoreTypes ==
    ASSUME StoreAssumption, TypeOK, OpOK, [Next]_vars
    PROVE  TypeOK' /\ OpOK'
<1> USE DEF files, ghosts
<1>0. /\ lines \in Seq(Seq(Msgs \cup {Half})) /\ Len(lines) \in Nat
      /\ History \in Seq(Msgs) /\ expected \in Seq(Msgs)
    BY HistoryTyped DEF TypeOK
<1>1. Idle \in [kind : {"idle"}, at : {"idle"}, arg : Seq(Msgs), before : Seq(Msgs)]
    BY DEF Idle
<1>2. ASSUME op' = Idle, UNCHANGED skip PROVE OpOK' /\ op'.kind = "idle" /\ op'.at = "idle"
    BY <1>1, <1>2 DEF OpOK, Idle
<1>3. ASSUME NEW kind \in {"add", "set", "compact"}, NEW at, NEW arg \in Seq(Msgs),
             Acquire(kind, at, arg), at = IF kind = "add" THEN "append" ELSE "meta",
             kind = "add" => Len(arg) = 1,
             UNCHANGED <<lines, tail, skip, count, expected, torn, undone, crashes>>,
             compacted' \in BOOLEAN, used' \subseteq Msgs
      PROVE  TypeOK' /\ OpOK'
    <2>1. op' = [kind |-> kind, at |-> at, arg |-> arg, before |-> History]
        BY <1>3 DEF Acquire
    <2>2. OpOK'
        BY <1>0, <1>3, <2>1 DEF OpOK, Idle
    <2> QED
        BY <1>0, <1>3, <2>1, <2>2 DEF TypeOK
<1>4. ASSUME NEW m \in Msgs, AddBegin(m) PROVE TypeOK' /\ OpOK'
    <2>1. <<m>> \in Seq(Msgs) /\ Len(<<m>>) = 1
        OBVIOUS
    <2> QED
        BY <1>3, <1>4, <2>1 DEF AddBegin, TypeOK
<1>5. CASE AddAppend
    <2>1. /\ op.kind = "add" /\ op.at = "append" /\ lines' = Appended(op.arg[1]) /\ tail' = FALSE
          /\ expected' = Append(expected, op.arg[1]) /\ op' = [op EXCEPT !.at = "meta"]
          /\ UNCHANGED <<skip, count, used, torn, undone, compacted, crashes>>
        BY <1>5 DEF AddAppend, At
    <2>2. op.arg \in Seq(Msgs) /\ Len(op.arg) = 1
        BY <2>1 DEF OpOK
    <2>3. op.arg[1] \in Msgs
        BY <2>2
    <2>4. lines' \in Seq(Seq(Msgs \cup {Half})) /\ Len(lines') >= Len(lines)
        BY <2>1, <2>3, AppendedTyped
    <2>5. skip' \in 0..Len(lines')
        BY <1>0, <2>1, <2>4 DEF TypeOK
    <2>6. expected' \in Seq(Msgs)
        BY <1>0, <2>1, <2>3
    <2>7. OpOK'
        BY <2>1 DEF OpOK, Idle
    <2> QED
        BY <2>1, <2>4, <2>5, <2>6, <2>7 DEF TypeOK, OpOK
<1>6. ASSUME HalfWritten, op.at = "append", op' = Idle, undone' \in {"no", "set", "compact"},
             compacted' \in BOOLEAN, crashes' \in 0..MaxCrashes,
             UNCHANGED <<skip, count, used, expected>>
      PROVE  TypeOK' /\ OpOK'
    <2>1. op.arg \in Seq(Msgs) /\ Len(op.arg) = 1
        BY <1>6 DEF OpOK
    <2>2. op.arg[1] \in Msgs
        BY <2>1
    <2>3. /\ lines' \in Seq(Seq(Msgs \cup {Half})) /\ Len(lines') >= Len(lines)
          /\ tail' \in BOOLEAN /\ torn' \in BOOLEAN
        <3>1. CASE UNCHANGED <<lines, tail, torn>>
            BY <1>0, <3>1 DEF TypeOK
        <3>2. CASE ~UNCHANGED <<lines, tail, torn>>
            <4>1. PICK piece \in {Half, op.arg[1]} : lines' = Appended(piece)
                BY <1>6, <3>2 DEF HalfWritten
            <4>2. tail' = TRUE /\ torn' = TRUE
                BY <1>6, <3>2 DEF HalfWritten
            <4> QED
                BY <2>2, <4>1, <4>2, AppendedTyped
        <3> QED
            BY <3>1, <3>2
    <2>4. skip' \in 0..Len(lines')
        BY <1>0, <1>6, <2>3 DEF TypeOK
    <2>5. OpOK' /\ op'.kind = "idle" /\ op'.at = "idle"
        BY <1>2, <1>6
    <2> QED
        BY <1>1, <1>6, <2>3, <2>4, <2>5 DEF TypeOK
<1>7. CASE AddFails
    <2>1. op.at = "append" /\ op' = Idle /\ HalfWritten
          /\ UNCHANGED <<skip, count, used, expected, undone, compacted, crashes>>
        BY <1>7 DEF AddFails, At, Release
    <2>2. undone' \in {"no", "set", "compact"} /\ compacted' \in BOOLEAN /\ crashes' \in 0..MaxCrashes
        BY <2>1 DEF TypeOK
    <2> QED
        BY <1>6, <2>1, <2>2
<1>8. ASSUME op' = Idle, UNCHANGED <<lines, tail, skip, used, expected, torn>>,
             count' \in Nat, undone' \in {"no", "set", "compact"},
             compacted' \in BOOLEAN, crashes' \in 0..MaxCrashes
      PROVE  TypeOK' /\ OpOK'
    BY <1>0, <1>1, <1>2, <1>8 DEF TypeOK
<1>9. CASE AddMeta
    <2>1. count' = count + 1 /\ op' = Idle /\ UNCHANGED <<lines, tail, skip, used, ghosts, crashes>>
        BY <1>9 DEF AddMeta, Release
    <2>2. count' \in Nat /\ undone' \in {"no", "set", "compact"}
          /\ compacted' \in BOOLEAN /\ crashes' \in 0..MaxCrashes
        BY <2>1 DEF TypeOK
    <2> QED
        BY <1>8, <2>1, <2>2
<1>10. ASSUME NEW k \in 0..Len(lines), Truncate(k) PROVE TypeOK' /\ OpOK'
    <2>1. /\ op = Idle /\ count' = Len(lines)
          /\ UNCHANGED <<lines, tail, op, used, torn, undone, compacted, crashes>>
          /\ skip' = IF k = 0 THEN Len(lines)
                     ELSE IF k < Len(lines) - skip THEN Len(lines) - k ELSE skip
          /\ expected' = LastOf(expected, k)
        BY <1>10 DEF Truncate, LineCount
    <2>2. skip' \in 0..Len(lines)
        BY <1>0, <1>10, <2>1 DEF TypeOK
    <2>3. expected' \in Seq(Msgs)
        BY <1>0, <1>10, <2>1, LastOfIs
    <2>4. OpOK'
        BY <2>1 DEF OpOK, Idle
    <2> QED
        BY <1>0, <2>1, <2>2, <2>3, <2>4 DEF TypeOK
<1>11. ASSUME NEW h \in Replacements, SetBegin(h) PROVE TypeOK' /\ OpOK'
    <2>1. h \in Seq(Msgs)
        BY ReplacementsAre
    <2>2. used' \subseteq Msgs
        BY <1>11, <2>1 DEF SetBegin, ToSet, TypeOK
    <2> QED
        BY <1>3, <1>11, <2>1, <2>2 DEF SetBegin, TypeOK
<1>12. CASE CompactBegin
    <2>1. CASE skip = 0
        BY <1>0, <1>12, <2>1 DEF CompactBegin, TypeOK, OpOK
    <2>2. CASE skip # 0
        BY <1>0, <1>3, <1>12, <2>2 DEF CompactBegin, TypeOK
    <2> QED
        BY <2>1, <2>2
<1>13. CASE RewriteMeta
    <2>1. /\ op.kind \in {"set", "compact"} /\ op.at = "meta" /\ skip' = 0 /\ count' = Len(op.arg)
          /\ op' = [op EXCEPT !.at = "lines"]
          /\ UNCHANGED <<lines, tail, used, ghosts, crashes>>
        BY <1>13 DEF RewriteMeta
    <2>2. op.arg \in Seq(Msgs)
        BY DEF OpOK
    <2>3. count' \in Nat
        BY <2>1, <2>2
    <2>4. OpOK'
        BY <2>1 DEF OpOK, Idle
    <2> QED
        BY <1>0, <2>1, <2>3, <2>4 DEF TypeOK, OpOK
<1>14. CASE RewriteLines
    <2>1. /\ op.at = "lines" /\ lines' = Lines(op.arg) /\ tail' = FALSE /\ compacted' = FALSE
          /\ \/ expected' = op.arg /\ undone' = "no"
             \/ UNCHANGED <<expected, undone>>
          /\ op' = Idle /\ UNCHANGED <<skip, count, used, torn, crashes>>
        BY <1>14 DEF RewriteLines, Release
    <2>2. op.arg \in Seq(Msgs) /\ skip = 0
        BY <2>1 DEF OpOK
    <2>3. lines' \in Seq(Seq(Msgs \cup {Half})) /\ Len(lines') \in Nat
        <3>1. lines' = [i \in 1..Len(op.arg) |-> <<op.arg[i]>>] /\ Len(op.arg) \in Nat
            BY <2>1, <2>2 DEF Lines
        <3>2. \A i \in 1..Len(op.arg) : <<op.arg[i]>> \in Seq(Msgs \cup {Half})
            BY <2>2
        <3> QED
            BY <3>1, <3>2
    <2>4. OpOK' /\ op'.kind = "idle" /\ op'.at = "idle"
        BY <1>2, <2>1
    <2>5. skip' \in 0..Len(lines')
        BY <2>1, <2>2, <2>3
    <2>6. expected' \in Seq(Msgs) /\ undone' \in {"no", "set", "compact"}
        BY <1>0, <2>1, <2>2 DEF TypeOK
    <2> QED
        BY <1>1, <2>1, <2>3, <2>4, <2>5, <2>6 DEF TypeOK
<1>15. CASE RewriteFails
    <2>1. op.at = "lines" /\ CutOff /\ op' = Idle
          /\ UNCHANGED <<files, used, expected, torn, crashes>>
        BY <1>15 DEF RewriteFails, Release
    <2>2. count' \in Nat /\ undone' \in {"no", "set", "compact"}
          /\ compacted' \in BOOLEAN /\ crashes' \in 0..MaxCrashes
        BY <2>1 DEF TypeOK, CutOff, OpOK
    <2> QED
        BY <1>8, <2>1, <2>2
<1>16. CASE MetaFails
    <2>1. op' = Idle /\ UNCHANGED <<files, used, ghosts, crashes>>
        BY <1>16 DEF MetaFails, Release
    <2>2. count' \in Nat /\ undone' \in {"no", "set", "compact"}
          /\ compacted' \in BOOLEAN /\ crashes' \in 0..MaxCrashes
        BY <2>1 DEF TypeOK
    <2> QED
        BY <1>8, <2>1, <2>2
<1>17. CASE Crash
    <2>1. /\ crashes' \in 0..MaxCrashes /\ op' = Idle
          /\ IF At("add", "append") THEN HalfWritten ELSE UNCHANGED <<lines, tail, torn>>
          /\ IF op.at = "lines" THEN CutOff ELSE UNCHANGED <<undone, compacted>>
          /\ UNCHANGED <<skip, count, used, expected>>
        BY <1>17, StoreAssumption DEF Crash, Release, TypeOK
    <2>2. count' \in Nat /\ undone' \in {"no", "set", "compact"} /\ compacted' \in BOOLEAN
        BY <2>1 DEF TypeOK, CutOff, OpOK
    <2>3. CASE op.at = "append"
        BY <1>6, <2>1, <2>2, <2>3 DEF At, OpOK
    <2>4. CASE op.at # "append"
        BY <1>8, <2>1, <2>2, <2>4 DEF At
    <2> QED
        BY <2>3, <2>4
<1>18. CASE UNCHANGED vars
    BY <1>0, <1>18 DEF vars, TypeOK, OpOK
<1> QED
    BY <1>4, <1>5, <1>7, <1>9, <1>10, <1>11, <1>12, <1>13, <1>14, <1>15, <1>16, <1>17, <1>18
       DEF Next

\* A sequence that agrees with the messages after the offset is what is read.
Agrees(h, ls, k) ==
    h \in Seq(Msgs) /\ Len(h) = Len(ls) - k /\ \A i \in 1..(Len(ls) - k) : h[i] = ls[k + i][1]

LEMMA ReadIs ==
    ASSUME StoreAssumption, NEW ls, Whole(ls), NEW k \in 0..Len(ls), NEW h, Agrees(h, ls, k)
    PROVE  Read(ls, k) = h
<1> PICK r, L : r = Read(ls, k) /\ L = Len(ls)
    OBVIOUS
<1>1. r \in Seq(Msgs) /\ Len(r) = L - k /\ \A i \in 1..(L - k) : r[i] = ls[k + i][1]
    BY ReadsWhole
<1>2. h \in Seq(Msgs) /\ Len(h) = L - k /\ \A i \in 1..Len(r) : r[i] = h[i]
    BY <1>1 DEF Agrees
<1>3. r = h
    BY <1>1, <1>2, SeqEqual
<1> QED
    BY <1>3

\* One more line is one more message read.
LEMMA OneMoreLine ==
    ASSUME StoreAssumption, NEW ls, Whole(ls), NEW L, L = Len(ls), NEW k \in 0..L, NEW m \in Msgs
    PROVE  Whole(Append(ls, <<m>>)) /\ Read(Append(ls, <<m>>), k) = Append(Read(ls, k), m)
<1> DEFINE Texts == Seq(Msgs)
<1>1. L \in Nat /\ ls \in Seq(Texts) /\ <<m>> \in Texts /\ Len(<<m>>) = 1 /\ <<m>>[1] = m
    BY DEF Whole
<1> PICK line : line = <<m>>
    OBVIOUS
<1> PICK more : more = Append(ls, line)
    OBVIOUS
<1> PICK r : r = Read(ls, k)
    OBVIOUS
<1> PICK h : h = Append(r, m)
    OBVIOUS
<1>2. r \in Seq(Msgs) /\ Len(r) = L - k /\ \A i \in 1..(L - k) : r[i] = ls[k + i][1]
    BY ReadsWhole
<1>3. h \in Seq(Msgs) /\ Len(h) = L - k + 1 /\ h[L - k + 1] = m /\ \A i \in 1..(L - k) : h[i] = r[i]
    BY <1>2
<1>4. /\ more \in Seq(Texts) /\ Len(more) = L + 1 /\ more[L + 1] = line
      /\ \A n \in 1..L : more[n] = ls[n]
    <2>1. line \in Texts
        BY <1>1
    <2> HIDE DEF Texts
    <2> QED
        BY <1>1, <2>1
<1>5. Whole(more)
    <2>1. ASSUME NEW n \in 1..(L + 1) PROVE Len(more[n]) = 1
        <3>1. n \in 1..L \/ n = L + 1
            BY <1>1
        <3>2. n \in 1..L => Len(ls[n]) = 1
            BY DEF Whole
        <3> QED
            BY <1>1, <1>4, <3>1, <3>2
    <2> QED
        BY <1>4, <2>1 DEF Whole
<1>6. ASSUME NEW i \in 1..(L + 1 - k) PROVE h[i] = more[k + i][1]
    <2>1. CASE i \in 1..(L - k)
        <3>1. k + i \in 1..L
            BY <1>1, <2>1
        <3>2. more[k + i] = ls[k + i]
            BY <1>4, <3>1
        <3>3. h[i] = r[i] /\ r[i] = ls[k + i][1]
            BY <1>2, <1>3, <2>1
        <3> QED
            BY <3>2, <3>3
    <2>2. CASE i \notin 1..(L - k)
        <3>1. i = L - k + 1 /\ k + i = L + 1
            BY <1>1, <2>2
        <3>2. h[i] = m
            BY <1>3, <3>1
        <3>3. more[k + i] = line
            BY <1>4, <3>1
        <3> QED
            BY <1>1, <3>2, <3>3
    <2> QED
        BY <2>1, <2>2
<1>7. Read(more, k) = h
    <2> PICK M : M = L + 1
        OBVIOUS
    <2>1. M = Len(more) /\ k \in 0..M /\ Len(h) = M - k
        BY <1>1, <1>3, <1>4
    <2>2. \A i \in 1..(M - k) : h[i] = more[k + i][1]
        <3>1. M - k = L + 1 - k
            OBVIOUS
        <3> QED
            BY <1>6, <3>1
    <2>3. Agrees(h, more, k)
        BY <1>3, <2>1, <2>2 DEF Agrees
    <2> QED
        BY <1>5, <2>1, <2>3, ReadIs
<1> QED
    BY <1>5, <1>7

\* An append adds its message to what is read.
LEMMA AppendIsSeen ==
    ASSUME StoreAssumption, StIInv, ~torn, AddAppend
    PROVE  Whole(lines') /\ op.arg[1] \in Msgs /\ History' = Append(History, op.arg[1])
<1>1. op.arg[1] \in Msgs
    <2>1. op.arg \in Seq(Msgs) /\ Len(op.arg) = 1
        BY DEF AddAppend, At, StIInv, OpOK
    <2> QED
        BY <2>1
<1>2. lines' = Append(lines, <<op.arg[1]>>) /\ skip' = skip /\ Whole(lines) /\ skip \in 0..Len(lines)
    BY DEF AddAppend, Appended, StIInv, Clean, TypeOK
<1>3. /\ Whole(Append(lines, <<op.arg[1]>>))
      /\ Read(Append(lines, <<op.arg[1]>>), skip) = Append(Read(lines, skip), op.arg[1])
    BY <1>1, <1>2, OneMoreLine
<1> QED
    BY <1>1, <1>2, <1>3 DEF History

\* A truncation leaves the last messages of what was read.
LEMMA TruncationIsSeen ==
    ASSUME StoreAssumption, StIInv, ~torn, NEW keep \in 0..Len(lines), Truncate(keep)
    PROVE  History' = LastOf(History, keep)
<1> PICK k, L, s, h : k = skip' /\ L = Len(lines) /\ s = skip /\ h = History
    OBVIOUS
<1>1. /\ s \in 0..L /\ L \in Nat /\ keep \in 0..L /\ lines' = lines /\ Whole(lines)
      /\ k = IF keep = 0 THEN L ELSE IF keep < L - s THEN L - keep ELSE s
    <2>1. lines \in Seq(Seq(Msgs))
        BY DEF StIInv, Clean, Whole
    <2> QED
        BY <2>1 DEF Truncate, LineCount, StIInv, TypeOK, Clean
<1>2. k \in 0..L
    BY <1>1
<1>3. h \in Seq(Msgs) /\ Len(h) = L - s /\ \A i \in 1..(L - s) : h[i] = lines[s + i][1]
    BY HistoryIs DEF StIInv, Clean
<1> PICK l : l = LastOf(h, keep)
    OBVIOUS
<1>4. /\ l \in Seq(Msgs) /\ Len(l) = IF keep < Len(h) THEN keep ELSE Len(h)
      /\ keep < Len(h) => \A i \in 1..keep : l[i] = h[Len(h) - keep + i]
      /\ keep >= Len(h) => l = h
    <2>1. keep \in Nat
        BY <1>1
    <2> QED
        BY <1>3, <2>1, LastOfIs
<1>5. History' = Read(lines, k)
    BY <1>1 DEF History
<1>6. CASE keep < L - s
    <2>1. k = L - keep
        BY <1>1, <1>6
    <2>2. ASSUME NEW i \in 1..(L - k) PROVE l[i] = lines[k + i][1]
        <3> PICK j : j = L - s - keep + i
            OBVIOUS
        <3>1. i \in 1..keep /\ j \in 1..(L - s) /\ s + j = k + i /\ j = Len(h) - keep + i
            BY <1>1, <1>3, <1>6, <2>1
        <3>2. l[i] = h[j]
            BY <1>3, <1>4, <1>6, <3>1
        <3>3. h[j] = lines[s + j][1]
            BY <1>3, <3>1
        <3> QED
            BY <3>1, <3>2, <3>3
    <2>3. Len(l) = L - k
        BY <1>1, <1>3, <1>4, <1>6, <2>1
    <2>4. Agrees(l, lines, k)
        BY <1>1, <1>4, <2>2, <2>3 DEF Agrees
    <2>5. Read(lines, k) = l
        BY <1>1, <1>2, <2>4, ReadIs
    <2> QED
        BY <1>5, <2>5
<1>7. CASE keep >= L - s
    <2>1. k = s
        BY <1>1, <1>7
    <2>2. l = h
        BY <1>3, <1>4, <1>7
    <2> QED
        BY <1>5, <2>1, <2>2 DEF History
<1> QED
    BY <1>1, <1>6, <1>7

\* The meta of a rewrite brings back what was truncated, in front.
LEMMA MetaIsSeen ==
    ASSUME StoreAssumption, StIInv, ~torn, RewriteMeta
    PROVE  IsSuffix(History, History') /\ History' \in Seq(Msgs)
<1> PICK all, L, s, h : all = Read(lines, 0) /\ L = Len(lines) /\ s = skip /\ h = History
    OBVIOUS
<1>1. s \in 0..L /\ L \in Nat /\ Whole(lines) /\ lines' = lines /\ skip' = 0
    <2>1. lines \in Seq(Seq(Msgs))
        BY DEF StIInv, Clean, Whole
    <2> QED
        BY <2>1 DEF RewriteMeta, files, StIInv, TypeOK, Clean
<1>2. all \in Seq(Msgs) /\ Len(all) = L /\ \A i \in 1..L : all[i] = lines[i][1]
    <2> PICK z : z = 0
        OBVIOUS
    <2>1. z \in 0..Len(lines) /\ L - z = L /\ \A i \in 1..L : z + i = i
        BY <1>1
    <2>2. /\ Read(lines, z) \in Seq(Msgs) /\ Len(Read(lines, z)) = Len(lines) - z
          /\ \A i \in 1..(Len(lines) - z) : Read(lines, z)[i] = lines[z + i][1]
        BY <1>1, <2>1, ReadsWhole
    <2> QED
        BY <2>1, <2>2
<1>3. h \in Seq(Msgs) /\ Len(h) = L - s /\ \A i \in 1..(L - s) : h[i] = lines[s + i][1]
    BY HistoryIs DEF StIInv, Clean
<1>4. ASSUME NEW i \in 1..Len(h) PROVE h[i] = all[Len(all) - Len(h) + i]
    <2>1. i \in 1..(L - s)
        BY <1>3
    <2>2. s + i \in 1..L /\ L - (L - s) + i = s + i
        BY <1>1, <2>1
    <2>3. h[i] = lines[s + i][1] /\ all[s + i] = lines[s + i][1]
        BY <1>2, <1>3, <2>1, <2>2
    <2>4. Len(all) - Len(h) + i = s + i
        BY <1>2, <1>3, <2>2
    <2> QED
        BY <2>3, <2>4
<1>5. Len(h) <= Len(all)
    BY <1>1, <1>2, <1>3
<1>6. IsSuffix(h, all)
    BY <1>2, <1>3, <1>4, <1>5, SuffixIs
<1>7. History' = all
    BY <1>1 DEF History
<1> QED
    BY <1>2, <1>6, <1>7

\* The new lines are what is read from then on.
LEMMA LinesAreSeen ==
    ASSUME StoreAssumption, StIInv, RewriteLines
    PROVE  Whole(lines') /\ History' = op.arg
<1> PICK h, ls : h = op.arg /\ ls = lines'
    OBVIOUS
<1> PICK n \in Nat : n = Len(h)
    <2>1. h \in Seq(Msgs)
        BY DEF StIInv, OpOK
    <2> QED
        BY <2>1
<1>1. h \in Seq(Msgs) /\ ls = Lines(h) /\ skip' = 0
    BY DEF RewriteLines, StIInv, OpOK
<1>2. ls = [i \in 1..n |-> <<h[i]>>]
    BY <1>1 DEF Lines
<1>3. \A i \in 1..n : h[i] \in Msgs
    BY <1>1, ElementOfSeq
<1>4. \A i \in 1..n : <<h[i]>> \in Seq(Msgs) /\ Len(<<h[i]>>) = 1 /\ <<h[i]>>[1] = h[i]
    BY <1>3
<1>5. ls \in Seq(Seq(Msgs)) /\ Len(ls) = n
    BY <1>2, <1>4
<1>6. \A i \in 1..n : Len(ls[i]) = 1 /\ ls[i][1] = h[i]
    BY <1>2, <1>4
<1>7. Whole(ls)
    BY <1>5, <1>6 DEF Whole
<1>8. Read(ls, 0) = h
    <2> PICK z : z = 0
        OBVIOUS
    <2>1. z \in 0..n /\ n - z = n /\ \A i \in 1..n : z + i = i
        OBVIOUS
    <2>2. Len(h) = n - z /\ \A i \in 1..(n - z) : h[i] = ls[z + i][1]
        BY <1>6, <2>1
    <2>3. Agrees(h, ls, z)
        BY <1>1, <1>5, <2>2 DEF Agrees
    <2>4. z \in 0..Len(ls)
        BY <1>5, <2>1
    <2>5. Read(ls, z) = h
        BY <1>7, <2>3, <2>4, ReadIs
    <2> QED
        BY <2>5
<1>9. History' = Read(ls, 0)
    BY <1>1 DEF History
<1> QED
    BY <1>7, <1>8, <1>9

LEMMA AppendSuffix ==
    ASSUME NEW S, NEW s \in Seq(S), NEW h \in Seq(S), NEW m \in S, IsSuffix(s, h)
    PROVE  IsSuffix(Append(s, m), Append(h, m))
<1> PICK a, b, i, n : a = Append(s, m) /\ b = Append(h, m) /\ i = Len(s) /\ n = Len(h)
    OBVIOUS
<1>1. i \in Nat /\ n \in Nat /\ i <= n /\ \A j \in 1..i : s[j] = h[n - i + j]
    BY SuffixIs
<1>2. a \in Seq(S) /\ Len(a) = i + 1 /\ a[i + 1] = m /\ \A j \in 1..i : a[j] = s[j]
    OBVIOUS
<1>3. b \in Seq(S) /\ Len(b) = n + 1 /\ b[n + 1] = m /\ \A j \in 1..n : b[j] = h[j]
    OBVIOUS
<1>4. ASSUME NEW j \in 1..(i + 1) PROVE a[j] = b[n + 1 - (i + 1) + j]
    <2>1. n + 1 - (i + 1) + j = n - i + j
        BY <1>1
    <2>2. CASE j = i + 1
        <3>1. n - i + j = n + 1
            BY <1>1, <2>2
        <3> QED
            BY <1>2, <1>3, <2>1, <2>2, <3>1
    <2>3. CASE j # i + 1
        <3>1. j \in 1..i /\ n - i + j \in 1..n
            BY <1>1, <2>3
        <3>2. a[j] = s[j] /\ s[j] = h[n - i + j] /\ b[n - i + j] = h[n - i + j]
            BY <1>1, <1>2, <1>3, <3>1
        <3> QED
            BY <2>1, <3>2
    <2> QED
        BY <2>2, <2>3
<1>5. Len(a) <= Len(b) /\ \A j \in 1..Len(a) : a[j] = b[Len(b) - Len(a) + j]
    <2>1. i + 1 <= n + 1
        BY <1>1
    <2>2. ASSUME NEW j \in 1..Len(a) PROVE a[j] = b[Len(b) - Len(a) + j]
        <3>1. j \in 1..(i + 1)
            BY <1>2
        <3>2. a[j] = b[n + 1 - (i + 1) + j]
            BY <1>4, <3>1
        <3>3. Len(b) - Len(a) + j = n + 1 - (i + 1) + j
            BY <1>2, <1>3
        <3> QED
            BY <3>2, <3>3
    <2> QED
        BY <1>2, <1>3, <2>1, <2>2
<1>6. IsSuffix(a, b)
    BY <1>2, <1>3, <1>5, SuffixIs
<1> QED
    BY <1>6

\* No step mends a file that holds half a line, and none but a torn append tears it.
LEMMA CleanStep ==
    ASSUME StoreAssumption, StIInv, [Next]_vars, TypeOK', OpOK', ~torn'
    PROVE  ~torn /\ Clean'
<1> USE DEF files, ghosts
<1>1. ~torn
    BY DEF Next, vars, StIInv, TypeOK, AddBegin, AddAppend, AddFails, AddMeta, HalfWritten, Truncate,
           SetBegin, CompactBegin, RewriteMeta, RewriteLines, RewriteFails, MetaFails, Crash
<1> SUFFICES Clean'
    BY <1>1
<1>2. /\ History \in Seq(Msgs) /\ expected \in Seq(Msgs) /\ op.before \in Seq(Msgs) /\ op.arg \in Seq(Msgs)
      /\ ~tail /\ Whole(lines) /\ IsSuffix(expected, History)
    BY <1>1, HistoryTyped DEF StIInv, TypeOK, Clean
<1>3. ASSUME UNCHANGED <<lines, skip>> PROVE History' = History
    BY <1>3 DEF History
<1>20. ASSUME ~tail', Whole(lines'), IsSuffix(expected', History'),
              undone' = "no" /\ op'.at # "lines" => History' = expected',
              op'.kind \in {"set", "compact"} /\ op'.at = "meta" => op'.before = History',
              op'.at = "lines" => IsSuffix(op'.before, History'),
              op'.kind = "set" => Replaces(op'.before, op'.arg),
              op'.kind = "compact" => /\ op'.arg = op'.before /\ IsSuffix(expected', op'.arg)
                                      /\ undone' = "no" => op'.arg = expected'
       PROVE  Clean'
    BY <1>20 DEF Clean, Rewriting
<1>4. ASSUME op' = Idle, UNCHANGED <<lines, tail, skip, expected>>,
             undone' = "no" => undone = "no" /\ op.at # "lines"
      PROVE  Clean'
    <2>1. History' = History
        BY <1>3, <1>4
    <2>2. undone' = "no" => History' = expected'
        BY <1>1, <1>4, <2>1 DEF StIInv, Clean
    <2>3. op'.kind = "idle" /\ op'.at = "idle"
        BY <1>4 DEF Idle
    <2> QED
        BY <1>2, <1>4, <2>1, <2>2, <2>3 DEF Clean, Rewriting
<1>5. ASSUME NEW m \in Msgs, AddBegin(m) PROVE Clean'
    <2>1. op = Idle /\ UNCHANGED <<lines, tail, skip, expected, undone>> /\ op'.kind = "add" /\ op'.at = "append"
        BY <1>5 DEF AddBegin, Acquire
    <2>2. History' = History /\ op.at = "idle"
        BY <1>3, <2>1 DEF Idle
    <2>3. undone' = "no" => History' = expected'
        BY <1>1, <2>1, <2>2 DEF StIInv, Clean
    <2> QED
        BY <1>2, <2>1, <2>2, <2>3 DEF Clean, Rewriting
<1>6. CASE AddAppend
    <2> PICK m, a : m = op.arg[1] /\ a = Append(expected, m)
        OBVIOUS
    <2>1. /\ op.at = "append" /\ tail' = FALSE /\ expected' = a
          /\ UNCHANGED undone /\ op'.kind = "add" /\ op'.at = "meta"
        BY <1>6 DEF AddAppend, At, StIInv, OpOK
    <2>2. Whole(lines') /\ m \in Msgs /\ History' = Append(History, m)
        BY <1>1, <1>6, AppendIsSeen
    <2>3. IsSuffix(expected', History')
        BY <1>2, <2>1, <2>2, AppendSuffix
    <2>4. undone' = "no" => History' = expected'
        BY <1>1, <2>1, <2>2 DEF StIInv, Clean
    <2>5. ~tail'
        BY <2>1
    <2>6. op'.kind \notin {"set", "compact"} /\ op'.at # "lines"
        BY <2>1
    <2> QED
        BY <1>20, <2>2, <2>3, <2>4, <2>5, <2>6
<1>7. CASE AddFails
    BY <1>4, <1>7 DEF AddFails, At, Release, HalfWritten, TypeOK
<1>8. CASE AddMeta
    BY <1>4, <1>8 DEF AddMeta, At, Release
<1>9. ASSUME NEW k \in 0..Len(lines), Truncate(k) PROVE Clean'
    <2>1. op = Idle /\ UNCHANGED <<lines, tail, op, undone>> /\ expected' = LastOf(expected, k)
        BY <1>9 DEF Truncate
    <2>2. History' = LastOf(History, k) /\ k \in Nat
        BY <1>1, <1>9, TruncationIsSeen
    <2>3. IsSuffix(expected', History')
        BY <1>2, <2>1, <2>2, LastOfSuffix
    <2>4. op.kind = "idle" /\ op.at = "idle"
        BY <2>1 DEF Idle
    <2>5. undone' = "no" => History' = expected'
        BY <1>1, <2>1, <2>2, <2>4 DEF StIInv, Clean
    <2> QED
        BY <1>2, <2>1, <2>3, <2>4, <2>5 DEF Clean, Rewriting
<1>10. ASSUME NEW h \in Replacements, SetBegin(h) PROVE Clean'
    <2>1. /\ op = Idle /\ UNCHANGED <<lines, tail, skip, expected, undone>>
          /\ op' = [kind |-> "set", at |-> "meta", arg |-> h, before |-> History]
        BY <1>10 DEF SetBegin, Acquire
    <2>2. History' = History /\ op.at = "idle"
        BY <1>3, <2>1 DEF Idle
    <2>3. undone' = "no" => History' = expected'
        BY <1>1, <2>1, <2>2 DEF StIInv, Clean
    <2>4. Replaces(History, h)
        BY <1>10, ReplacementsAre DEF StIInv
    <2>5. Replaces(op'.before, op'.arg) /\ op'.kind = "set" /\ op'.at = "meta" /\ op'.before = History'
        BY <2>1, <2>2, <2>4
    <2> QED
        BY <1>2, <2>1, <2>2, <2>3, <2>5 DEF Clean, Rewriting
<1>11. CASE CompactBegin
    <2>1. op = Idle /\ UNCHANGED <<lines, tail, skip, expected, undone>>
        BY <1>11 DEF CompactBegin, Acquire
    <2>2. History' = History /\ op.at = "idle" /\ op.kind = "idle"
        BY <1>3, <2>1 DEF Idle
    <2>3. undone' = "no" => History' = expected'
        BY <1>1, <2>1, <2>2 DEF StIInv, Clean
    <2>6. ~tail' /\ Whole(lines') /\ IsSuffix(expected', History')
        BY <1>2, <2>1, <2>2
    <2>4. CASE UNCHANGED op
        <3>1. op'.kind = "idle" /\ op'.at = "idle"
            BY <2>2, <2>4
        <3> QED
            BY <1>20, <2>3, <2>6, <3>1
    <2>5. CASE op' = [kind |-> "compact", at |-> "meta", arg |-> History, before |-> History]
        <3>1. op'.kind = "compact" /\ op'.at = "meta" /\ op'.arg = History /\ op'.before = History
            BY <2>5
        <3>2. IsSuffix(expected', op'.arg) /\ (undone' = "no" => op'.arg = expected')
            BY <1>2, <2>1, <2>2, <2>3, <3>1
        <3>3. op'.before = History' /\ op'.arg = op'.before
            BY <2>2, <3>1
        <3> QED
            BY <1>20, <2>3, <2>6, <3>1, <3>2, <3>3
    <2> QED
        BY <1>11, <2>4, <2>5 DEF CompactBegin, Acquire
<1>12. CASE RewriteMeta
    <2>1. /\ op.kind \in {"set", "compact"} /\ op.at = "meta" /\ op'.at = "lines" /\ op'.kind = op.kind
          /\ op'.arg = op.arg /\ op'.before = op.before /\ UNCHANGED <<lines, tail, expected, undone>>
        BY <1>12 DEF RewriteMeta, StIInv, OpOK
    <2>2. IsSuffix(History, History') /\ History' \in Seq(Msgs)
        BY <1>1, <1>12, MetaIsSeen
    <2>3. IsSuffix(expected', History')
        BY <1>2, <2>1, <2>2, SuffixTransitive
    <2>4. /\ op.before = History
          /\ op.kind = "set" => Replaces(op.before, op.arg)
          /\ op.kind = "compact" => /\ op.arg = op.before /\ IsSuffix(expected, op.arg)
                                    /\ undone = "no" => op.arg = expected
        BY <1>1, <2>1 DEF StIInv, Clean, Rewriting
    <2>5. ~tail' /\ Whole(lines') /\ IsSuffix(op'.before, History')
        BY <1>2, <2>1, <2>2, <2>4
    <2>6. op'.kind = "set" => Replaces(op'.before, op'.arg)
        BY <2>1, <2>4
    <2>7. op'.kind = "compact" => /\ op'.arg = op'.before /\ IsSuffix(expected', op'.arg)
                                  /\ undone' = "no" => op'.arg = expected'
        BY <2>1, <2>4
    <2> QED
        BY <1>20, <2>1, <2>3, <2>5, <2>6, <2>7
<1>13. CASE RewriteLines
    <2>1. /\ op.at = "lines" /\ tail' = FALSE /\ op'.kind = "idle" /\ op'.at = "idle"
          /\ op.kind = "set" => expected' = op.arg /\ undone' = "no"
          /\ op.kind # "set" => UNCHANGED <<expected, undone>>
        BY <1>13 DEF RewriteLines, Release, Idle
    <2>2. Whole(lines') /\ History' = op.arg
        BY <1>13, LinesAreSeen
    <2>3. op.kind \in {"set", "compact"}
        BY <2>1 DEF StIInv, OpOK
    <2>4. IsSuffix(expected', History') /\ (undone' = "no" => History' = expected')
        <3>1. CASE op.kind = "set"
            BY <1>2, <2>1, <2>2, <3>1, SuffixOfItself
        <3>2. CASE op.kind = "compact"
            BY <1>1, <2>1, <2>2, <3>2 DEF StIInv, Clean
        <3> QED
            BY <2>3, <3>1, <3>2
    <2>5. ~tail'
        BY <2>1
    <2> QED
        BY <1>20, <2>1, <2>2, <2>4, <2>5
<1>14. ASSUME op.at = "lines", CutOff PROVE undone' # "no"
    BY <1>14 DEF CutOff, StIInv, OpOK
<1>15. CASE RewriteFails
    BY <1>4, <1>14, <1>15 DEF RewriteFails, Release
<1>16. CASE MetaFails
    BY <1>4, <1>16 DEF MetaFails, Release
<1>17. CASE Crash
    <2>1. op' = Idle /\ UNCHANGED <<skip, expected>>
        BY <1>17 DEF Crash, Release
    <2>2. UNCHANGED <<lines, tail>>
        BY <1>17 DEF Crash, HalfWritten
    <2>3. undone' = "no" => undone = "no" /\ op.at # "lines"
        BY <1>14, <1>17 DEF Crash
    <2>4. UNCHANGED <<lines, tail, skip, expected>>
        BY <2>1, <2>2
    <2> QED
        BY <1>4, <2>1, <2>3, <2>4
<1>18. CASE UNCHANGED vars
    <2>1. UNCHANGED <<lines, tail, skip, op, expected, undone>>
        BY <1>18 DEF vars
    <2>2. History' = History
        BY <1>3, <2>1
    <2> QED
        BY <1>1, <2>1, <2>2 DEF StIInv, Clean, Rewriting
<1> QED
    BY <1>1, <1>5, <1>6, <1>7, <1>8, <1>9, <1>10, <1>11, <1>12, <1>13, <1>15, <1>16, <1>17, <1>18 DEF Next

LEMMA StoreSteps ==
    ASSUME StoreAssumption
    PROVE  (Init => StIInv) /\ (StIInv /\ [Next]_vars => StIInv')
<1>1. ASSUME Init PROVE StIInv
    <2>1. Whole(lines)
        BY <1>1 DEF Init, Whole
    <2>2. lines \in Seq(Seq(Msgs \cup {Half})) /\ <<>> \in Seq(Msgs) /\ Len(lines) = 0
        BY <1>1 DEF Init
    <2>9. op = Idle /\ skip = 0 /\ 0 \in 0..Len(lines) /\ expected \in Seq(Msgs) /\ {} \subseteq Msgs
        BY <1>1, <2>2 DEF Init
    <2>10. OpOK
        BY <2>2, <2>9 DEF OpOK, Idle
    <2>11. /\ op.kind \in {"idle"} /\ op.at \in {"idle"} /\ {op.arg, op.before} \subseteq Seq(Msgs)
        BY <2>2, <2>9 DEF Idle
    <2>13. /\ tail \in BOOLEAN /\ torn \in BOOLEAN /\ compacted \in BOOLEAN /\ undone \in {"no"}
           /\ count \in Nat /\ used \subseteq Msgs
        BY <1>1 DEF Init
    <2>14. crashes \in 0..MaxCrashes
        BY <1>1, StoreAssumption DEF Init
    <2>15. skip \in 0..Len(lines)
        BY <2>9
    <2>12. TypeOK
        BY <2>2, <2>9, <2>11, <2>13, <2>14, <2>15 DEF TypeOK
    <2>3. TypeOK /\ OpOK
        BY <2>10, <2>12
    <2>4. History \in Seq(Msgs) /\ Len(History) = Len(lines) - skip
        BY <2>1, <2>3, HistoryIs
    <2>5. History = <<>>
        BY <1>1, <2>2, <2>4 DEF Init
    <2>6. IsSuffix(expected, History)
        BY <1>1, <2>2, <2>5, SuffixOfItself DEF Init
    <2>7. op.kind = "idle" /\ op.at = "idle" /\ ~tail
        BY <1>1 DEF Init, Idle
    <2>8. History = expected
        BY <1>1, <2>5 DEF Init
    <2> QED
        BY <2>1, <2>3, <2>6, <2>7, <2>8 DEF StIInv, Clean, Rewriting
<1>2. ASSUME StIInv, [Next]_vars PROVE StIInv'
    <2>1. TypeOK' /\ OpOK'
        BY <1>2, StoreTypes DEF StIInv
    <2> QED
        BY <1>2, <2>1, CleanStep DEF StIInv
<1> QED
    BY <1>1, <1>2

\* Wherever an operation of a session is cut off: what the operations acknowledged
\* is there to read, and nothing else unless a rewrite was cut off, as long as no
\* append has left half a line (addMsg, TruncateHistory, SetHistory, Compact).
THEOREM StoreCorrect == Spec => []StoreInv
<1>1. StIInv => StoreInv
    BY DEF StIInv, Clean, StoreInv, NothingLost, ExactUnlessCutOff
<1>2. QED
    BY <1>1, StoreSteps, StoreAssumption, PTL DEF Spec

-----------------------------------------------------------------------------
(* The refinement: what readers see is the abstract history.                  *)

\* The last k of a sequence, as the abstract truncation says it.
LEMMA LastOfIsTail ==
    ASSUME NEW S, NEW h \in Seq(S), NEW k \in Nat
    PROVE  \E j \in 0..Len(h) : LastOf(h, k) = SubSeq(h, Len(h) - j + 1, Len(h))
<1>1. Len(h) \in Nat
    OBVIOUS
<1>2. CASE k < Len(h)
    BY <1>1, <1>2 DEF LastOf
<1>3. CASE ~(k < Len(h))
    <2>1. Len(h) \in 0..Len(h) /\ Len(h) - Len(h) + 1 = 1
        BY <1>1
    <2>2. LastOf(h, k) = h /\ SubSeq(h, 1, Len(h)) = h
        BY <1>3, SubSeqFull DEF LastOf
    <2> QED
        BY <2>1, <2>2
<1> QED
    BY <1>2, <1>3

\* A step on an untorn file is a step of the abstract history, or unseen.
LEMMA StepIsSeen ==
    ASSUME StoreAssumption, StIInv, [Next]_vars, ~torn, ~torn'
    PROVE  seen' = seen \/ Abstract!HAdd \/ Abstract!HTruncate \/ Abstract!HReplace \/ Abstract!HResurrect
<1> USE DEF files, ghosts
<1>0. History \in Seq(Msgs) /\ op.before \in Seq(Msgs)
    BY HistoryTyped DEF StIInv, TypeOK
<1>1. ASSUME UNCHANGED <<lines, skip>> PROVE History' = History
    BY <1>1 DEF History
<1>2. ASSUME UNCHANGED <<lines, skip>>, op.at # "lines", op'.at # "lines" PROVE seen' = seen
    BY <1>1, <1>2 DEF seen
<1>3. ASSUME NEW m \in Msgs, AddBegin(m) PROVE seen' = seen
    <2>1. op.at = "idle" /\ op'.at = "append"
        BY <1>3 DEF AddBegin, Acquire, Idle
    <2> QED
        BY <1>2, <1>3, <2>1 DEF AddBegin
<1>4. CASE AddAppend
    <2>1. op.at = "append" /\ op'.at = "meta"
        BY <1>4 DEF AddAppend, At, StIInv, OpOK
    <2>2. op.arg[1] \in Msgs /\ History' = Append(History, op.arg[1])
        BY <1>4, AppendIsSeen
    <2>3. seen = History /\ seen' = History'
        BY <2>1 DEF seen
    <2>4. Abstract!HAdd
        BY <2>2, <2>3 DEF Abstract!HAdd
    <2> QED
        BY <2>4
<1>5. CASE AddFails
    <2>1. op.at = "append" /\ op'.at = "idle" /\ UNCHANGED <<lines, skip>>
        BY <1>5 DEF AddFails, At, Release, Idle, HalfWritten
    <2> QED
        BY <1>2, <2>1
<1>6. CASE AddMeta
    <2>1. op.at = "meta" /\ op'.at = "idle" /\ UNCHANGED <<lines, skip>>
        BY <1>6 DEF AddMeta, At, Release, Idle
    <2> QED
        BY <1>2, <2>1
<1>7. ASSUME NEW k \in 0..Len(lines), Truncate(k) PROVE Abstract!HTruncate
    <2>1. op.at = "idle" /\ op' = op
        BY <1>7 DEF Truncate, Idle
    <2>2. History' = LastOf(History, k)
        BY <1>7, TruncationIsSeen
    <2>3. seen = History /\ seen' = History'
        BY <2>1 DEF seen
    <2>4. \E j \in 0..Len(History) : LastOf(History, k) = SubSeq(History, Len(History) - j + 1, Len(History))
        BY <1>0, LastOfIsTail
    <2>5. \E j \in 0..Len(seen) : seen' = SubSeq(seen, Len(seen) - j + 1, Len(seen))
        BY <2>2, <2>3, <2>4
    <2> QED
        BY <2>5 DEF Abstract!HTruncate
<1>8. ASSUME NEW h \in Replacements, SetBegin(h) PROVE seen' = seen
    <2>1. op.at = "idle" /\ op'.at = "meta" /\ UNCHANGED <<lines, skip>>
        BY <1>8 DEF SetBegin, Acquire, Idle
    <2> QED
        BY <1>2, <2>1
<1>9. CASE CompactBegin
    <2>1. op.at = "idle" /\ op'.at \in {"idle", "meta"} /\ UNCHANGED <<lines, skip>>
        BY <1>9 DEF CompactBegin, Acquire, Idle
    <2> QED
        BY <1>2, <2>1
<1>10. CASE RewriteMeta
    <2>1. op.at = "meta" /\ op'.at = "lines" /\ op'.before = op.before /\ op.kind \in {"set", "compact"}
        BY <1>10 DEF RewriteMeta, StIInv, OpOK
    <2>2. op.before = History
        BY <2>1 DEF StIInv, Clean, Rewriting
    <2>3. seen' = seen
        BY <2>1, <2>2 DEF seen
    <2> QED
        BY <2>3
<1>11. CASE RewriteLines
    <2>1. op.at = "lines" /\ op'.at = "idle"
        BY <1>11 DEF RewriteLines, Release, Idle
    <2>2. History' = op.arg /\ op.kind \in {"set", "compact"}
        BY <1>11, <2>1, LinesAreSeen DEF StIInv, OpOK
    <2>3. seen = op.before /\ seen' = op.arg
        BY <2>1, <2>2 DEF seen
    <2>4. CASE op.kind = "set"
        <3>1. Replaces(seen, seen')
            BY <2>3, <2>4 DEF StIInv, Clean
        <3>2. Abstract!HReplace
            BY <3>1 DEF Abstract!HReplace, Replaces, Notes
        <3> QED
            BY <3>2
    <2>5. CASE op.kind = "compact"
        BY <2>3, <2>5 DEF StIInv, Clean
    <2> QED
        BY <2>2, <2>4, <2>5
<1>12. ASSUME op.at = "lines", op'.at = "idle", UNCHANGED <<lines, skip>> PROVE Abstract!HResurrect
    <2>1. seen = op.before /\ seen' = History
        BY <1>1, <1>12 DEF seen
    <2>2. IsSuffix(op.before, History)
        BY <1>12 DEF StIInv, Clean
    <2>3. IsSuffix(seen, seen') /\ seen' \in Seq(Msgs)
        BY <1>0, <2>1, <2>2
    <2> QED
        BY <2>3 DEF Abstract!HResurrect, Abstract!IsSuffix, Abstract!IsPrefix, Abstract!Reverse,
                    IsSuffix, IsPrefix, Reverse
<1>13. CASE RewriteFails
    <2>1. op.at = "lines" /\ op'.at = "idle" /\ UNCHANGED <<lines, skip>>
        BY <1>13 DEF RewriteFails, Release, Idle
    <2> QED
        BY <1>12, <2>1
<1>14. CASE MetaFails
    <2>1. op.at = "meta" /\ op'.at = "idle" /\ UNCHANGED <<lines, skip>>
        BY <1>14 DEF MetaFails, Release, Idle
    <2> QED
        BY <1>2, <2>1
<1>15. CASE Crash
    <2>1. op'.at = "idle" /\ UNCHANGED <<lines, skip>>
        BY <1>15 DEF Crash, Release, Idle, HalfWritten
    <2> QED
        BY <1>2, <1>12, <2>1
<1>16. CASE UNCHANGED vars
    <2>1. op' = op /\ UNCHANGED <<lines, skip>>
        BY <1>16 DEF vars
    <2>2. seen' = seen
        BY <1>1, <2>1 DEF seen
    <2> QED
        BY <2>2
<1> QED
    BY <1>3, <1>4, <1>5, <1>6, <1>7, <1>8, <1>9, <1>10, <1>11, <1>13, <1>14, <1>15, <1>16 DEF Next

\* TLC: ImplementsHistory.  For any messages and crashes, two files replaced and
\* appended to one after the other implement one history to which whole
\* operations happen: a reader never sees half of one.
THEOREM StoreImplementsHistory == Spec => ImplementsHistory
<1>1. Init => Abstract!HInit
    <2> SUFFICES ASSUME Init PROVE Abstract!HInit
        OBVIOUS
    <2>1. StIInv /\ ~torn /\ undone = "no" /\ op.at = "idle" /\ expected = <<>>
        BY StoreSteps, StoreAssumption DEF Init, Idle
    <2>2. History = <<>>
        BY <2>1 DEF StIInv, Clean
    <2> QED
        BY <2>1, <2>2 DEF Init, Abstract!HInit, seen
<1>2. StIInv /\ [Next]_vars => [Abstract!HNext]_<<seen, torn>>
    <2> SUFFICES ASSUME StIInv, [Next]_vars PROVE [Abstract!HNext]_<<seen, torn>>
        OBVIOUS
    <2>1. StIInv'
        BY StoreSteps, StoreAssumption
    <2>2. CASE torn'
        <3>4. lines' \in Seq(Seq(Msgs \cup {Half})) /\ skip' \in Nat
            BY <2>1 DEF StIInv, TypeOK
        <3>5. History' \in Seq(Msgs)
            BY <3>4, ReadsMessages DEF History
        <3>1. History' \in Seq(Msgs) /\ op'.before \in Seq(Msgs)
            BY <2>1, <3>5 DEF StIInv, OpOK
        <3>2. seen' \in Seq(Msgs)
            BY <3>1 DEF seen
        <3>3. Abstract!HTorn
            BY <2>2, <3>2 DEF Abstract!HTorn
        <3> QED
            BY <3>3 DEF Abstract!HNext
    <2>3. CASE ~torn'
        <3>1. ~torn
            BY <2>1, <2>3, CleanStep, StoreAssumption DEF StIInv
        <3>2. UNCHANGED torn
            BY <2>1, <2>3, <3>1 DEF StIInv, TypeOK
        <3>3. seen' = seen \/ Abstract!HAdd \/ Abstract!HTruncate \/ Abstract!HReplace \/ Abstract!HResurrect
            BY <2>3, <3>1, StepIsSeen, StoreAssumption
        <3> QED
            BY <3>2, <3>3 DEF Abstract!HNext
    <2> QED
        BY <2>2, <2>3
<1> QED
    BY <1>1, <1>2, StoreSteps, StoreAssumption, PTL DEF Spec, ImplementsHistory, Abstract!HSpec
=============================================================================
