---------------------------- MODULE Turns_proofs ----------------------------
(***************************************************************************)
(* What holds of the reply of a round, of the session's history, of what a *)
(* provider is shown of it and of what an adapter sends, for any number of *)
(* rounds, turns, agents, messages and calls.                              *)
(***************************************************************************)
EXTENDS ReplyPath, SessionHistory, ProviderWire, FiniteSetTheorems, SequenceTheorems,
        WellFoundedInduction, TLAPS

(***************************************************************************)
(* The reply of a round.  While nothing disturbs it, the default agent's   *)
(* flag tells whether the message tool has sent in this round.             *)
(***************************************************************************)
FlagTells(r) ==
    kind[r] = "user" /\ agent[r] = Default /\ r \notin disturbed =>
      /\ rpPc[r] \in {"thinking", "responding"} => (r \in told <=> sentInRound[Default])
      /\ rpPc[r] = "sending" => r \in told

RpIInv ==
    /\ RpTypeOK
    /\ \A r \in Rounds : /\ rpPc[r] = "idle" => r \notin told
                         /\ kind[r] = "user" /\ r \in answered => rpPc[r] = "done"
                         /\ FlagTells(r)
    /\ UndisturbedRoundAnswersOnce

(* Every step preserves it.                                                   *)
LEMMA RpStepIInv == RpIInv /\ [RpNext]_rpVars => RpIInv'
<1> SUFFICES ASSUME RpIInv, [RpNext]_rpVars PROVE RpIInv'
  OBVIOUS
<1> USE ReplyAssumption DEF RpIInv, RpTypeOK, FlagTells, UndisturbedRoundAnswersOnce, RpGoto
<1>1. ASSUME NEW r \in Rounds, StartRound(r) PROVE RpIInv'
  BY <1>1 DEF StartRound, WriteFlag, Active
<1>2. ASSUME NEW r \in Rounds, StartInternal(r) PROVE RpIInv'
  BY <1>2 DEF StartInternal
<1>3. ASSUME NEW r \in Rounds, ToolPublishes(r) PROVE RpIInv'
  BY <1>3 DEF ToolPublishes
<1>4. ASSUME NEW r \in Rounds, ToolFails(r) PROVE RpIInv'
  BY <1>4 DEF ToolFails
<1>5. ASSUME NEW r \in Rounds, ToolMarksSent(r) PROVE RpIInv'
  BY <1>5 DEF ToolMarksSent, WriteFlag, Active
<1>6. ASSUME NEW r \in Rounds, TurnEnds(r) PROVE RpIInv'
  BY <1>6 DEF TurnEnds
<1>7. ASSUME NEW r \in Rounds, Respond(r) PROVE RpIInv'
  BY <1>7 DEF Respond, AlreadySent
<1>8. CASE UNCHANGED rpVars
  BY <1>8 DEF rpVars
<1>9. QED
  BY <1>1, <1>2, <1>3, <1>4, <1>5, <1>6, <1>7, <1>8 DEF RpNext, RpStop

\* A user round of the default agent that no concurrent round disturbs is
\* answered by the message tool or by processAndRespond, and not by both.
THEOREM RepliesCorrect == RpSpec => []RpInv
<1>1. RpInit => RpIInv
  BY ReplyAssumption DEF RpInit, RpIInv, RpTypeOK, FlagTells, UndisturbedRoundAnswersOnce
<1>2. RpIInv => RpInv
  BY DEF RpIInv, RpInv
<1>3. QED
  BY <1>1, <1>2, RpStepIInv, PTL DEF RpSpec

-----------------------------------------------------------------------------
(***************************************************************************)
(* sanitizeHistoryForProvider.  Both of its passes are folds; what a fold  *)
(* returns follows by induction on how much of the history it has read.    *)
(***************************************************************************)
(* The least of numbers of which there is one.                                *)
LEMMA MinOf ==
    ASSUME NEW S \in SUBSET Nat, NEW n \in S
    PROVE  Min(S) \in S /\ \A x \in S : Min(S) <= x
<1>1. PICK m \in S : \A x \in S : m <= x
  <2> DEFINE R == OpToRel(<, Nat)
  <2>1. PICK x \in S : \A y \in S : ~(<<y, x>> \in R)
    BY NatLessThanWellFounded, WFMin
  <2>2. \A y \in S : ~(y < x)
    BY <2>1 DEF OpToRel
  <2>3. QED
    BY <2>2
<1>2. QED
  BY <1>1 DEF Min

(* A bounded set of numbers that is not empty has a maximum.                  *)
LEMMA MaxOf ==
    ASSUME NEW b \in Nat, NEW S \in SUBSET (0..b), NEW n \in S
    PROVE  Max(S) \in S /\ \A x \in S : x <= Max(S)
<1> DEFINE U == {i \in Nat : \A x \in S : x <= i}
<1>1. b \in U /\ U \in SUBSET Nat
  OBVIOUS
<1>2. PICK m \in U : \A i \in U : m <= i
  <2> HIDE DEF U
  <2> DEFINE R == OpToRel(<, Nat)
  <2>1. PICK x \in U : \A y \in U : ~(<<y, x>> \in R)
    BY <1>1, NatLessThanWellFounded, WFMin
  <2>2. \A y \in U : ~(y < x)
    BY <1>1, <2>1 DEF OpToRel
  <2>3. QED
    BY <1>1, <2>2
<1>3. m \in S
  <2> SUFFICES ASSUME m \notin S PROVE FALSE
    OBVIOUS
  <2>1. m \in Nat /\ \A x \in S : x < m
    BY <1>2
  <2>2. m - 1 \in Nat
    BY <2>1
  <2>3. m - 1 \in U /\ ~(m <= m - 1)
    BY <2>1, <2>2
  <2>4. QED
    BY <1>2, <2>3
<1>4. \A x \in S : m >= x
  BY <1>2
<1>5. QED
  BY <1>3, <1>4 DEF Max

(* Induction on numbers, for a set of them.                                   *)
LEMMA AllNumbers ==
    ASSUME NEW n \in Nat, NEW S, 0 \in S, \A k \in 0..(n - 1) : k \in S => k + 1 \in S
    PROVE  \A k \in 0..n : k \in S
<1> DEFINE T == {k \in 0..n : k \notin S}
           R == OpToRel(<, Nat)
<1> SUFFICES ASSUME T # {} PROVE FALSE
  OBVIOUS
<1>1. T \in SUBSET Nat
  OBVIOUS
<1>2. PICK x \in T : \A y \in T : ~(y < x)
  <2> HIDE DEF T
  <2>1. PICK x \in T : \A y \in T : ~(<<y, x>> \in R)
    BY <1>1, NatLessThanWellFounded, WFMin
  <2>2. QED
    BY <1>1, <2>1 DEF OpToRel
<1>3. x # 0 /\ x \in 0..n /\ x - 1 \in 0..(n - 1)
  <2>1. x # 0 /\ x \in 0..n
    OBVIOUS
  <2>2. QED
    BY <2>1
<1>4. x - 1 \notin T
  BY <1>2, <1>3
<1>5. x - 1 \in S /\ x = (x - 1) + 1
  BY <1>3, <1>4
<1>6. x \in S
  BY <1>3, <1>5
<1> QED
  BY <1>6

(* The greatest of the first numbers.                                         *)
LEMMA MaxOfFirst ==
    ASSUME NEW k \in Nat, NEW s \in SUBSET (1..k), k \in s
    PROVE  Max(s) = k
<1>1. \A x \in s : k >= x
  OBVIOUS
<1>2. \E x \in s : \A y \in s : x >= y
  BY <1>1
<1>3. PICK m \in s : m = Max(s) /\ \A y \in s : m >= y
  BY <1>2 DEF Max
<1>4. QED
  BY <1>1, <1>3

(* The first pass as what it has made of each part of the history.            *)
LEMMA AdmitTrace ==
    ASSUME NEW n \in Nat, NEW h, DOMAIN h = 1..n
    PROVE  \E g : /\ g[0] = <<>> /\ \A k \in 1..n : g[k] = Admit(g[k - 1], h[k])
                  /\ FoldLeft(Admit, <<>>, h) = g[n]
<1> DEFINE Body(f, s) == IF s = {} THEN <<>> ELSE Admit(f[s \ {Max(s)}], h[Max(s)])
           Iter(m, f) == f = [s \in SUBSET (1..m) |-> Body(f, s)]
           Some == {m \in Nat : \E f : Iter(m, f)}
<1>1. 0 \in Some
  <2> DEFINE f == [s \in SUBSET (1..0) |-> <<>>]
  <2>1. \A s \in SUBSET (1..0) : s = {}
    OBVIOUS
  <2>2. Iter(0, f)
    BY <2>1
  <2> HIDE DEF Iter, f
  <2>3. QED
    BY <2>2
<1>2. ASSUME NEW k \in 0..(n - 1), k \in Some PROVE k + 1 \in Some
  <2>1. PICK f : Iter(k, f)
    BY <1>2
  <2> DEFINE g == [s \in SUBSET (1..(k + 1)) |->
                     IF k + 1 \in s THEN Admit(f[s \ {k + 1}], h[k + 1]) ELSE f[s]]
  <2>2. ASSUME NEW s \in SUBSET (1..(k + 1)) PROVE g[s] = Body(g, s)
    <3>1. CASE k + 1 \in s
      <4>1. Max(s) = k + 1
        BY <3>1, MaxOfFirst
      <4>2. s \ {k + 1} \in SUBSET (1..k) /\ s \ {k + 1} \in SUBSET (1..(k + 1))
        OBVIOUS
      <4>3. g[s \ {k + 1}] = f[s \ {k + 1}]
        BY <4>2
      <4>4. QED
        BY <3>1, <4>1, <4>3
    <3>2. CASE k + 1 \notin s
      <4>1. s \in SUBSET (1..k)
        BY <3>2
      <4>2. g[s] = f[s]
        BY <3>2
      <4>3. f[s] = Body(f, s)
        BY <2>1, <4>1
      <4>4. CASE s = {}
        BY <4>2, <4>3, <4>4
      <4>5. CASE s # {}
        <5>1. k + 1 \notin s \ {Max(s)} /\ s \ {Max(s)} \in SUBSET (1..(k + 1))
          BY <3>2
        <5>2. g[s \ {Max(s)}] = f[s \ {Max(s)}]
          BY <5>1
        <5>3. QED
          BY <4>2, <4>3, <4>5, <5>2
      <4>6. QED
        BY <4>4, <4>5
    <3>3. QED
      BY <3>1, <3>2
  <2>3. Iter(k + 1, g)
    BY <2>2
  <2> HIDE DEF Iter, g
  <2>4. QED
    BY <2>3
<1>3. n \in Some
  <2> HIDE DEF Some
  <2>1. \A k \in 0..(n - 1) : k \in Some => k + 1 \in Some
    BY <1>2
  <2>2. \A k \in 0..n : k \in Some
    BY <1>1, <2>1, AllNumbers
  <2>3. QED
    BY <2>2
<1> DEFINE F == CHOOSE f : Iter(n, f)
<1>4. Iter(n, F)
  BY <1>3, Zenon
<1>5. FoldLeft(Admit, <<>>, h) = F[1..n]
  BY Zenon DEF FoldLeft, MapThenFoldSet
<1> DEFINE g == [k \in 0..n |-> F[1..k]]
<1>6. g[0] = <<>>
  <2>1. (1..0) = {} /\ {} \in SUBSET (1..n) /\ 0 \in 0..n
    OBVIOUS
  <2> HIDE DEF F
  <2>2. QED
    BY <1>4, <2>1
<1>7. ASSUME NEW k \in 1..n PROVE g[k] = Admit(g[k - 1], h[k])
  <2>1. Max(1..k) = k /\ (1..k) \ {k} = 1..(k - 1) /\ 1..k # {} /\ 1..k \in SUBSET (1..n)
    <3>1. 1..k \in SUBSET (1..k) /\ k \in 1..k /\ k \in Nat
      OBVIOUS
    <3>2. Max(1..k) = k
      BY <3>1, MaxOfFirst
    <3>3. (1..k) \ {k} = 1..(k - 1) /\ 1..k # {} /\ 1..k \in SUBSET (1..n)
      OBVIOUS
    <3>4. QED
      BY <3>2, <3>3
  <2> HIDE DEF F
  <2>2. F[1..k] = Body(F, 1..k)
    BY <1>4, <2>1
  <2>3. QED
    BY <2>1, <2>2
<1>8. FoldLeft(Admit, <<>>, h) = g[n]
  <2> HIDE DEF F
  <2> QED
  BY <1>5
<1>9. QED
  <2> HIDE DEF g
  <2> QED
  BY <1>6, <1>7, <1>8

(* out has the messages of s at the positions ks, f tells where each is from. *)
Embeds(out, s, ks, f) ==
    /\ f \in [1..Len(out) -> ks]
    /\ \A i, j \in 1..Len(out) : i < j => f[i] < f[j]
    /\ \A k \in ks : \E i \in 1..Len(out) : f[i] = k
    /\ \A i \in 1..Len(out) : out[i] = s[f[i]]

(* Picked as what it has made of each part of the sequence.                   *)
LEMMA PickedTrace ==
    ASSUME NEW S, NEW s \in Seq(S), NEW ks
    PROVE  \E g : /\ g[0] = <<>> /\ Picked(s, ks) = g[Len(s)]
                  /\ \A k \in 1..Len(s) : g[k] = IF k \in ks THEN Append(g[k - 1], s[k]) ELSE g[k - 1]
<1> DEFINE n == Len(s)
           Step(out, j) == IF j \in ks THEN Append(out, s[j]) ELSE out
           id == [j \in 1..n |-> j]
           Body(f, d) == IF d = {} THEN <<>> ELSE Step(f[d \ {Max(d)}], id[Max(d)])
           Iter(m, f) == f = [d \in SUBSET (1..m) |-> Body(f, d)]
           Some == {m \in Nat : \E f : Iter(m, f)}
<1>0. n \in Nat
  OBVIOUS
<1> HIDE DEF n
<1>1. 0 \in Some
  <2> DEFINE f == [d \in SUBSET (1..0) |-> <<>>]
  <2>1. \A d \in SUBSET (1..0) : d = {}
    OBVIOUS
  <2> HIDE DEF Step, id
  <2>2. Iter(0, f)
    BY <2>1
  <2> HIDE DEF Iter, f
  <2>3. QED
    BY <2>2
<1>2. ASSUME NEW k \in 0..(n - 1), k \in Some PROVE k + 1 \in Some
  <2>1. PICK f : Iter(k, f)
    BY <1>2
  <2> HIDE DEF Step, id
  <2> DEFINE g == [d \in SUBSET (1..(k + 1)) |->
                     IF k + 1 \in d THEN Step(f[d \ {k + 1}], id[k + 1]) ELSE f[d]]
  <2>0. k \in Nat
    BY <1>0
  <2>2. ASSUME NEW d \in SUBSET (1..(k + 1)) PROVE g[d] = Body(g, d)
    <3>1. CASE k + 1 \in d
      <4>1. Max(d) = k + 1
        BY <2>0, <3>1, MaxOfFirst
      <4>2. d \ {k + 1} \in SUBSET (1..k) /\ d \ {k + 1} \in SUBSET (1..(k + 1))
        BY <2>0
      <4>3. g[d \ {k + 1}] = f[d \ {k + 1}]
        BY <4>2
      <4>4. QED
        BY <3>1, <4>1, <4>3
    <3>2. CASE k + 1 \notin d
      <4>1. d \in SUBSET (1..k)
        BY <2>0, <3>2
      <4>2. g[d] = f[d]
        BY <3>2
      <4>3. f[d] = Body(f, d)
        BY <2>1, <4>1
      <4>4. CASE d = {}
        BY <4>2, <4>3, <4>4
      <4>5. CASE d # {}
        <5>1. k + 1 \notin d \ {Max(d)} /\ d \ {Max(d)} \in SUBSET (1..(k + 1))
          BY <3>2
        <5>2. g[d \ {Max(d)}] = f[d \ {Max(d)}]
          BY <5>1
        <5>3. QED
          BY <4>2, <4>3, <4>5, <5>2
      <4>6. QED
        BY <4>4, <4>5
    <3>3. QED
      BY <3>1, <3>2
  <2>3. Iter(k + 1, g)
    BY <2>2
  <2> HIDE DEF Iter, g
  <2>4. QED
    BY <2>3, <2>0
<1>3. n \in Some
  <2> HIDE DEF Some
  <2>1. \A k \in 0..(n - 1) : k \in Some => k + 1 \in Some
    BY <1>2
  <2>2. \A k \in 0..n : k \in Some
    BY <1>0, <1>1, <2>1, AllNumbers
  <2>3. QED
    BY <1>0, <2>2
<1> DEFINE F == CHOOSE f : Iter(n, f)
<1>4. Iter(n, F)
  BY <1>3, Zenon
<1>5. Picked(s, ks) = F[1..n]
  <2>1. DOMAIN id = 1..n
    OBVIOUS
  <2> HIDE DEF id
  <2>2. FoldLeft(Step, <<>>, id) = LET it[d \in SUBSET (DOMAIN id)] == Body(it, d) IN it[DOMAIN id]
    BY Zenon DEF FoldLeft, MapThenFoldSet
  <2>3. FoldLeft(Step, <<>>, id) = F[1..n]
    BY <2>1, <2>2, Zenon
  <2>4. Picked(s, ks) = FoldLeft(Step, <<>>, id)
    BY Zenon DEF Picked, id, n
  <2>5. QED
    BY <2>3, <2>4
<1> DEFINE g == [k \in 0..n |-> F[1..k]]
<1>6. g[0] = <<>>
  <2>1. (1..0) = {} /\ {} \in SUBSET (1..n) /\ 0 \in 0..n
    BY <1>0
  <2> HIDE DEF F, Step
  <2>2. QED
    BY <1>4, <2>1
<1>7. ASSUME NEW k \in 1..n PROVE g[k] = Step(g[k - 1], k)
  <2>1. Max(1..k) = k /\ (1..k) \ {k} = 1..(k - 1) /\ 1..k # {} /\ 1..k \in SUBSET (1..n)
    <3>1. 1..k \in SUBSET (1..k) /\ k \in 1..k /\ k \in Nat
      BY <1>0
    <3>2. Max(1..k) = k
      BY <3>1, MaxOfFirst
    <3>3. k \in 1..k /\ (1..k) \ {k} = 1..(k - 1) /\ 1..k \in SUBSET (1..n)
      BY <1>0, <3>1
    <3>4. QED
      BY <3>2, <3>3
  <2> HIDE DEF F
  <2>2. F[1..k] = Body(F, 1..k)
    <3> HIDE DEF Step
    <3> QED
    BY <1>4, <2>1
  <2>3. F[1..k] = Step(F[1..(k-1)], k)
    <3> HIDE DEF Step
    <3> QED
    BY <2>1, <2>2
  <2>4. k \in 0..n /\ k - 1 \in 0..n
    BY <1>0
  <2>5. QED
    BY <2>3, <2>4
<1>8. Picked(s, ks) = g[n] /\ n \in Nat
  <2> HIDE DEF F
  <2> QED
  BY <1>5, <1>0
<1>9. QED
  <2> HIDE DEF g
  <2> QED
  BY <1>6, <1>7, <1>8 DEF n

(* What Picked picks.                                                         *)
LEMMA PickedIs ==
    ASSUME NEW S, NEW s \in Seq(S), NEW ks \in SUBSET (1..Len(s))
    PROVE  Picked(s, ks) \in Seq(S) /\ \E f : Embeds(Picked(s, ks), s, ks, f)
<1>1. PICK g : /\ g[0] = <<>> /\ Picked(s, ks) = g[Len(s)]
               /\ \A k \in 1..Len(s) : g[k] = IF k \in ks THEN Append(g[k - 1], s[k]) ELSE g[k - 1]
  BY PickedTrace
<1> DEFINE n == Len(s)
           Good(k) == g[k] \in Seq(S) /\ \E f : Embeds(g[k], s, ks \cap 1..k, f)
           Some == {k \in 0..n : Good(k)}
<1>2. n \in Nat /\ \A k \in 1..n : s[k] \in S
  OBVIOUS
<1> HIDE DEF n
<1>3. 0 \in Some
  <2>1. Embeds(<<>>, s, ks \cap 1..0, <<>>)
    BY DEF Embeds
  <2>2. g[0] \in Seq(S) /\ 0 \in 0..n
    BY <1>1, <1>2
  <2>3. QED
    BY <1>1, <2>1, <2>2
<1>4. ASSUME NEW k \in 0..(n - 1), k \in Some PROVE k + 1 \in Some
  <2>0. k \in Nat /\ k + 1 \in 1..n /\ k + 1 \in 0..n /\ (k + 1) - 1 = k /\ g[k] \in Seq(S)
    BY <1>2, <1>4
  <2>1. PICK f : Embeds(g[k], s, ks \cap 1..k, f)
    BY <1>4
  <2>2. CASE k + 1 \notin ks
    <3>1. ks \cap 1..(k + 1) = ks \cap 1..k /\ g[k + 1] = g[k]
      BY <1>1, <2>0, <2>2 DEF n
    <3> QED
      BY <2>0, <2>1, <3>1
  <2>3. CASE k + 1 \in ks
    <3> DEFINE out == g[k]
               e == [i \in 1..(Len(out) + 1) |-> IF i = Len(out) + 1 THEN k + 1 ELSE f[i]]
    <3>1. g[k + 1] = Append(out, s[k + 1])
      BY <1>1, <2>0, <2>3 DEF n
    <3>2. s[k + 1] \in S /\ Len(out) \in Nat
      BY <1>2, <2>0
    <3>3. /\ g[k + 1] \in Seq(S) /\ Len(g[k + 1]) = Len(out) + 1 /\ g[k + 1][Len(out) + 1] = s[k + 1]
          /\ \A i \in 1..Len(out) : g[k + 1][i] = out[i]
      BY <2>0, <3>1, <3>2, AppendProperties
    <3> HIDE DEF out
    <3>4. Embeds(out, s, ks \cap 1..k, f)
      BY <2>1 DEF out
    <3>5. Embeds(g[k + 1], s, ks \cap 1..(k + 1), e)
      <4>1. e \in [1..Len(g[k + 1]) -> ks \cap 1..(k + 1)]
        BY <2>0, <2>3, <3>2, <3>3, <3>4 DEF Embeds
      <4>2. \A i, j \in 1..Len(g[k + 1]) : i < j => e[i] < e[j]
        <5>1. \A i \in 1..Len(out) : f[i] \in 1..k
          BY <3>4 DEF Embeds
        <5>2. \A i, j \in 1..Len(out) : i < j => f[i] < f[j]
          BY <3>4 DEF Embeds
        <5>3. QED
          BY <2>0, <3>2, <3>3, <5>1, <5>2
      <4>3. ASSUME NEW x \in ks \cap 1..(k + 1) PROVE \E i \in 1..Len(g[k + 1]) : e[i] = x
        <5>1. CASE x = k + 1
          BY <3>2, <3>3, <5>1
        <5>2. CASE x # k + 1
          <6>1. x \in ks \cap 1..k
            BY <2>0, <5>2
          <6>2. PICK i \in 1..Len(out) : f[i] = x
            BY <3>4, <6>1 DEF Embeds
          <6>3. i \in 1..Len(g[k + 1]) /\ e[i] = x
            BY <3>2, <3>3, <6>2
          <6>4. QED
            BY <6>3
        <5>3. QED
          BY <5>1, <5>2
      <4>4. \A i \in 1..Len(g[k + 1]) : g[k + 1][i] = s[e[i]]
        BY <3>2, <3>3, <3>4 DEF Embeds
      <4>5. QED
        BY <4>1, <4>2, <4>3, <4>4 DEF Embeds
    <3>6. QED
      BY <2>0, <3>3, <3>5
  <2>4. QED
    BY <2>2, <2>3
<1>5. n \in Some
  <2> HIDE DEF Some
  <2>1. \A k \in 0..(n - 1) : k \in Some => k + 1 \in Some
    BY <1>4
  <2>2. \A k \in 0..n : k \in Some
    BY <1>2, <1>3, <2>1, AllNumbers
  <2>3. QED
    BY <1>2, <2>2
<1>6. ks \cap 1..n = ks
  BY DEF n
<1>7. QED
  BY <1>1, <1>5, <1>6 DEF n

(* The owner of a position, and how to recognise it.                          *)
LEMMA OwnerOf ==
    ASSUME NEW s, NEW j \in Nat
    PROVE  /\ Owner(s, j) \in 0..j
           /\ Owner(s, j) > 0 => ~IsTool(s[Owner(s, j)])
           /\ \A p \in (Owner(s, j) + 1)..j : IsTool(s[p])
<1> DEFINE os == {0} \cup {i \in 1..j : ~IsTool(s[i])}
<1>1. os \in SUBSET (0..j) /\ 0 \in os
  OBVIOUS
<1>2. Owner(s, j) = Max(os)
  BY DEF Owner
<1>3. Max(os) \in os /\ \A x \in os : x <= Max(os)
  <2> HIDE DEF os
  <2> QED
    BY <1>1, MaxOf
<1>4. QED
  BY <1>2, <1>3

LEMMA OwnerIs ==
    ASSUME NEW s, NEW j \in Nat, NEW i \in 0..j, i > 0 => ~IsTool(s[i]),
           \A p \in (i + 1)..j : IsTool(s[p])
    PROVE  Owner(s, j) = i
<1> DEFINE o == Owner(s, j)
<1>1. o \in 0..j /\ (o > 0 => ~IsTool(s[o])) /\ \A p \in (o + 1)..j : IsTool(s[p])
  BY OwnerOf
<1> HIDE DEF o
<1>2. ~(o < i) /\ ~(i < o)
  BY <1>1
<1>3. QED
  BY <1>1, <1>2 DEF o

(* The first pass: s is what it admits of the first k messages of h, e tells  *)
(* where each is from.  Each result follows a call, with results between      *)
(* them, and a call is left out only after an assistant message, or first.    *)
Admitted(h, k, s, e) ==
    /\ e \in [1..Len(s) -> 1..k]
    /\ \A i, j \in 1..Len(s) : i < j => e[i] < e[j]
    /\ \A i \in 1..Len(s) : s[i] = h[e[i]]
    /\ \A j \in 1..Len(s) : IsTool(s[j]) =>
         \E i \in 1..(j - 1) : IsCall(s[i]) /\ \A p \in (i + 1)..j : IsTool(s[p])
    /\ \A i \in 1..k : IsCall(h[i]) /\ (\A p \in 1..Len(s) : e[p] # i) =>
         \E m \in 0..Len(s) : /\ m > 0 => e[m] < i /\ s[m].role \notin {"user", "tool"}
                              /\ \A p \in (m + 1)..Len(s) : e[p] > i

(* A message the first pass appends.                                          *)
LEMMA AdmitAppends ==
    ASSUME NEW S, NEW h \in Seq(S), NEW k \in Nat, k + 1 \in 1..Len(h), NEW s \in Seq(S), NEW e,
           Admitted(h, k, s, e), Admit(s, h[k + 1]) = Append(s, h[k + 1]),
           IsTool(h[k + 1]) => Owner(s, Len(s)) > 0 /\ IsCall(s[Owner(s, Len(s))])
    PROVE  \E d : Admitted(h, k + 1, Append(s, h[k + 1]), d)
<1> DEFINE n == Len(s)
           m == h[k + 1]
           out == Append(s, m)
           d == [i \in 1..(n + 1) |-> IF i = n + 1 THEN k + 1 ELSE e[i]]
<1>1. n \in Nat /\ m \in S
  OBVIOUS
<1>2. /\ Len(out) = n + 1 /\ out[n + 1] = m /\ \A i \in 1..n : out[i] = s[i]
  BY <1>1, AppendProperties
<1> HIDE DEF out, m
<1>3. /\ e \in [1..n -> 1..k] /\ (\A i, j \in 1..n : i < j => e[i] < e[j])
      /\ \A i \in 1..n : s[i] = h[e[i]]
  BY DEF Admitted
<1> HIDE DEF n
<1>4. d \in [1..Len(out) -> 1..(k + 1)] /\ d[n + 1] = k + 1 /\ \A i \in 1..n : d[i] = e[i]
  BY <1>1, <1>2, <1>3
<1>5. \A i, j \in 1..Len(out) : i < j => d[i] < d[j]
  <2>1. \A i \in 1..n : e[i] < k + 1
    BY <1>3
  <2> HIDE DEF d
  <2>2. ASSUME NEW i \in 1..(n + 1), NEW j \in 1..(n + 1), i < j PROVE d[i] < d[j]
    <3>1. i \in 1..n /\ (j \in 1..n \/ j = n + 1)
      BY <1>1, <2>2
    <3>2. QED
      BY <1>3, <1>4, <2>1, <2>2, <3>1
  <2>3. QED
    BY <1>2, <2>2
<1>6. \A i \in 1..Len(out) : out[i] = h[d[i]]
  BY <1>1, <1>2, <1>3, <1>4 DEF m
<1> HIDE DEF d
<1>7. ASSUME NEW j \in 1..Len(out), IsTool(out[j])
      PROVE  \E i \in 1..(j - 1) : IsCall(out[i]) /\ \A p \in (i + 1)..j : IsTool(out[p])
  <2>1. CASE j \in 1..n
    <3>1. PICK i \in 1..(j - 1) : IsCall(s[i]) /\ \A p \in (i + 1)..j : IsTool(s[p])
      BY <1>2, <1>7, <2>1 DEF Admitted, n
    <3>2. i \in 1..n /\ \A p \in (i + 1)..j : p \in 1..n
      BY <1>1, <2>1, <3>1
    <3>3. QED
      BY <1>2, <3>1, <3>2
  <2>2. CASE j = n + 1
    <3> DEFINE i == Owner(s, n)
    <3>1. i \in 0..n /\ i > 0 /\ IsCall(s[i]) /\ \A p \in (i + 1)..n : IsTool(s[p])
      BY <1>1, <1>2, <1>7, <2>2, OwnerOf DEF m, n
    <3> HIDE DEF i
    <3>2. i \in 1..(j - 1) /\ i \in 1..n
      BY <1>1, <2>2, <3>1
    <3>3. IsCall(out[i]) /\ \A p \in (i + 1)..n : IsTool(out[p])
      BY <1>1, <1>2, <3>1, <3>2
    <3>4. \A p \in (i + 1)..j : p \in (i + 1)..n \/ p = j
      BY <1>1, <2>2, <3>1
    <3>5. QED
      BY <1>7, <3>2, <3>3, <3>4
  <2>3. j \in 1..n \/ j = n + 1
    BY <1>1, <1>2
  <2>4. QED
    BY <2>1, <2>2, <2>3
<1>8. ASSUME NEW i \in 1..(k + 1), IsCall(h[i]), \A p \in 1..Len(out) : d[p] # i
      PROVE  \E x \in 0..Len(out) : /\ x > 0 => d[x] < i /\ out[x].role \notin {"user", "tool"}
                                    /\ \A p \in (x + 1)..Len(out) : d[p] > i
  <2>1. i # k + 1 /\ i \in 1..k /\ \A p \in 1..n : e[p] # i
    BY <1>1, <1>2, <1>4, <1>8
  <2>2. PICK x \in 0..n : /\ x > 0 => e[x] < i /\ s[x].role \notin {"user", "tool"}
                          /\ \A p \in (x + 1)..n : e[p] > i
    BY <1>8, <2>1 DEF Admitted, n
  <2>3. x \in 0..Len(out) /\ (x > 0 => d[x] < i /\ out[x].role \notin {"user", "tool"})
    BY <1>1, <1>2, <1>4, <2>2
  <2>4. ASSUME NEW p \in (x + 1)..Len(out) PROVE d[p] > i
    <3>1. p \in (x + 1)..n \/ p = n + 1
      BY <1>1, <1>2, <2>2
    <3>2. CASE p \in (x + 1)..n
      <4>1. p \in 1..n /\ e[p] > i
        BY <1>1, <2>2, <3>2
      <4>2. QED
        BY <1>4, <4>1
    <3>3. CASE p = n + 1
      BY <1>4, <2>1, <3>3
    <3>4. QED
      BY <3>1, <3>2, <3>3
  <2>5. QED
    BY <2>3, <2>4
<1>9. Admitted(h, k + 1, out, d)
  BY <1>4, <1>5, <1>6, <1>7, <1>8 DEF Admitted
<1>10. QED
  BY <1>9 DEF out, m

(* A message it leaves out.                                                   *)
LEMMA AdmitLeaves ==
    ASSUME NEW S, NEW h \in Seq(S), NEW k \in Nat, k + 1 \in 1..Len(h), NEW s \in Seq(S), NEW e,
           Admitted(h, k, s, e),
           IsCall(h[k + 1]) => s = <<>> \/ Last(s).role \notin {"user", "tool"}
    PROVE  Admitted(h, k + 1, s, e)
<1> DEFINE n == Len(s)
<1>1. n \in Nat
  OBVIOUS
<1>3. /\ e \in [1..n -> 1..k] /\ (\A i, j \in 1..n : i < j => e[i] < e[j])
      /\ \A i \in 1..n : s[i] = h[e[i]]
  BY DEF Admitted
<1>4. e \in [1..n -> 1..(k + 1)] /\ \A i \in 1..n : e[i] < k + 1
  <2> HIDE DEF n
  <2>1. \A i \in 1..n : e[i] \in 1..(k + 1) /\ e[i] < k + 1
    BY <1>3
  <2>2. QED
    BY <1>3, <2>1
<1>5. ASSUME NEW i \in 1..(k + 1), IsCall(h[i]), \A p \in 1..n : e[p] # i
      PROVE  \E x \in 0..n : /\ x > 0 => e[x] < i /\ s[x].role \notin {"user", "tool"}
                             /\ \A p \in (x + 1)..n : e[p] > i
  <2>1. CASE i \in 1..k
    BY <1>5, <2>1 DEF Admitted
  <2>2. CASE i = k + 1
    <3>1. n > 0 => s[n].role \notin {"user", "tool"}
      BY <1>5, <2>2 DEF Last
    <3>2. n \in 0..n /\ (n > 0 => e[n] < i) /\ \A p \in (n + 1)..n : e[p] > i
      BY <1>1, <1>4, <2>2
    <3>3. QED
      BY <3>1, <3>2
  <2>3. QED
    BY <2>1, <2>2
<1>6. QED
  BY <1>4, <1>5 DEF Admitted

(* What the first pass makes of a history.                                    *)
LEMMA AdmitIs ==
    ASSUME NEW S, NEW h \in Seq(S)
    PROVE  /\ FoldLeft(Admit, <<>>, h) \in Seq(S)
           /\ \E e : Admitted(h, Len(h), FoldLeft(Admit, <<>>, h), e)
<1> DEFINE n == Len(h)
<1>1. n \in Nat /\ DOMAIN h = 1..n /\ \A k \in 1..n : h[k] \in S
  OBVIOUS
<1>2. PICK g : /\ g[0] = <<>> /\ \A k \in 1..n : g[k] = Admit(g[k - 1], h[k])
               /\ FoldLeft(Admit, <<>>, h) = g[n]
  <2> HIDE DEF n
  <2> QED
    BY <1>1, AdmitTrace
<1> DEFINE Good(k) == g[k] \in Seq(S) /\ \E e : Admitted(h, k, g[k], e)
           Some == {k \in 0..n : Good(k)}
<1>3. 0 \in Some
  <2>1. Admitted(h, 0, <<>>, <<>>)
    BY DEF Admitted
  <2>2. g[0] \in Seq(S) /\ 0 \in 0..n
    BY <1>1, <1>2
  <2>3. QED
    BY <1>2, <2>1, <2>2
<1>4. ASSUME NEW k \in 0..(n - 1), k \in Some PROVE k + 1 \in Some
  <2>1. k \in Nat /\ k + 1 \in 1..n /\ k + 1 \in 0..n /\ (k + 1) - 1 = k /\ g[k] \in Seq(S)
    BY <1>1, <1>4
  <2>2. PICK e : Admitted(h, k, g[k], e)
    BY <1>4
  <2>3. g[k + 1] = Admit(g[k], h[k + 1])
    BY <1>2, <2>1
  <2> DEFINE s == g[k]
             m == h[k + 1]
             Fits == /\ IsTool(m) => Owner(s, Len(s)) > 0 /\ IsCall(s[Owner(s, Len(s))])
                     /\ IsCall(m) => s # <<>> /\ Last(s).role \in {"user", "tool"}
  <2>4. Admit(s, m) = IF Fits THEN Append(s, m) ELSE s
    BY Zenon DEF Admit
  <2>5. CASE Fits
    <3>1. g[k + 1] = Append(s, m) /\ Append(s, m) \in Seq(S)
      BY <1>1, <2>1, <2>3, <2>4, <2>5
    <3>2. \E d : Admitted(h, k + 1, Append(s, m), d)
      BY <2>1, <2>2, <2>4, <2>5, AdmitAppends
    <3>3. QED
      BY <2>1, <3>1, <3>2
  <2>6. CASE ~Fits
    <3>1. g[k + 1] = s
      BY <2>3, <2>4, <2>6
    <3>2. IsCall(m) => ~IsTool(m)
      BY DEF IsCall, IsTool
    <3>3. IsCall(m) => s = <<>> \/ Last(s).role \notin {"user", "tool"}
      BY <2>6, <3>2
    <3>4. Admitted(h, k + 1, s, e)
      BY <2>1, <2>2, <3>3, AdmitLeaves
    <3>5. QED
      BY <2>1, <3>1, <3>4
  <2>7. QED
    BY <2>5, <2>6
<1>5. n \in Some
  <2> HIDE DEF Some
  <2>1. \A k \in 0..(n - 1) : k \in Some => k + 1 \in Some
    BY <1>4
  <2>2. \A k \in 0..n : k \in Some
    BY <1>1, <1>3, <2>1, AllNumbers
  <2>3. QED
    BY <1>1, <2>2
<1>6. QED
  BY <1>2, <1>5

(* Of the results that answer tool call n of the call at p, the first is kept.*)
LEMMA FirstIsKept ==
    ASSUME NEW S, NEW s \in Seq(S), NEW p \in 1..Len(s), Answered(s, p), NEW n \in 1..s[p].n
    PROVE  \E j \in (p + 1)..Len(s) : /\ Owner(s, j) = p /\ Answers(s[j], s[p]) /\ s[j].n = n
                                      /\ Kept(s, j)
<1> DEFINE J == {j \in (p + 1)..Len(s) : Owner(s, j) = p /\ Answers(s[j], s[p]) /\ s[j].n = n}
           j == Min(J)
<1>1. PICK x \in J : TRUE
  BY DEF Answered
<1>2. J \in SUBSET Nat /\ Len(s) \in Nat
  OBVIOUS
<1>3. j \in J /\ \A y \in J : j <= y
  <2> HIDE DEF J
  <2> QED
    BY <1>1, <1>2, MinOf
<1> HIDE DEF j
<1>4. j \in (p + 1)..Len(s) /\ Owner(s, j) = p /\ Answers(s[j], s[p]) /\ s[j].n = n
  BY <1>3
<1>5. ASSUME NEW k \in (p + 1)..(j - 1) PROVE s[k] # s[j]
  <2>1. ~IsTool(s[p]) /\ \A q \in (p + 1)..j : IsTool(s[q])
    BY <1>2, <1>4, OwnerOf
  <2>2. k \in Nat /\ p \in 0..k /\ \A q \in (p + 1)..k : IsTool(s[q])
    BY <1>4, <2>1
  <2>3. Owner(s, k) = p
    BY <2>1, <2>2, OwnerIs
  <2>4. k \notin J
    BY <1>2, <1>3, <1>4
  <2>5. k \in (p + 1)..Len(s)
    BY <1>2, <1>4
  <2>6. QED
    BY <1>4, <2>3, <2>4, <2>5
<1>6. Kept(s, j)
  BY <1>4, <1>5 DEF Kept
<1>7. QED
  BY <1>4, <1>6

KeptOf(s) == {j \in DOMAIN s : Kept(s, j)}

(* What is kept keeps its owner, if that is kept.                             *)
LEMMA OwnerMoves ==
    ASSUME NEW S, NEW s \in Seq(S), NEW ks \in SUBSET (1..Len(s)), NEW out \in Seq(S), NEW f,
           Embeds(out, s, ks, f), NEW i \in 1..Len(out), NEW j \in i..Len(out),
           Owner(s, f[j]) = f[i]
    PROVE  Owner(out, j) = i
<1>1. /\ Len(out) \in Nat /\ j \in 1..Len(out) /\ j \in Nat /\ i \in 0..j
      /\ Len(s) \in Nat
  OBVIOUS
<1>2. /\ \A p \in 1..Len(out) : f[p] \in 1..Len(s) /\ out[p] = s[f[p]]
      /\ \A p, q \in 1..Len(out) : p < q => f[p] < f[q]
  BY DEF Embeds
<1>3. ~IsTool(s[f[i]]) /\ \A p \in (f[i] + 1)..f[j] : IsTool(s[p])
  <2>1. f[i] \in 1..Len(s) /\ f[j] \in Nat /\ f[i] > 0
    BY <1>1, <1>2
  <2>2. QED
    BY <2>1, OwnerOf
<1>4. ASSUME NEW p \in (i + 1)..j PROVE IsTool(out[p])
  <2>1. p \in 1..Len(out) /\ i < p /\ (p < j \/ p = j)
    BY <1>1
  <2>2. f[i] < f[p] /\ (f[p] < f[j] \/ f[p] = f[j])
    BY <1>1, <1>2, <2>1
  <2>3. f[p] \in (f[i] + 1)..f[j]
    BY <1>1, <1>2, <2>1, <2>2
  <2>4. QED
    BY <1>2, <1>3, <2>1, <2>3
<1>5. ~IsTool(out[i])
  BY <1>2, <1>3
<1>6. QED
  BY <1>1, <1>4, <1>5, OwnerIs

(* The second pass: out is what it keeps of s.                                *)
LEMMA KeptAre ==
    ASSUME NEW S, NEW s \in Seq(S), NEW out \in Seq(S), NEW f, Embeds(out, s, KeptOf(s), f)
    PROVE  /\ Len(out) \in Nat /\ Len(s) \in Nat /\ DOMAIN out = 1..Len(out) /\ DOMAIN s = 1..Len(s)
           /\ KeptOf(s) \in SUBSET (1..Len(s))
           /\ \A p \in 1..Len(out) : f[p] \in 1..Len(s) /\ Kept(s, f[p]) /\ out[p] = s[f[p]]
           /\ \A p, q \in 1..Len(out) : p < q => f[p] < f[q]
           /\ \A k \in KeptOf(s) : \E q \in 1..Len(out) : f[q] = k
<1>1. /\ Len(out) \in Nat /\ Len(s) \in Nat /\ DOMAIN out = 1..Len(out) /\ DOMAIN s = 1..Len(s)
      /\ KeptOf(s) \in SUBSET (1..Len(s))
  BY DEF KeptOf
<1>2. QED
  BY <1>1 DEF Embeds, KeptOf

(* Each call that is kept is followed by all of its results.                  *)
LEMMA KeptAnswers ==
    ASSUME NEW S, NEW s \in Seq(S), NEW out \in Seq(S), NEW f, Embeds(out, s, KeptOf(s), f)
    PROVE  CallsAnswered(out)
<1>1. /\ Len(out) \in Nat /\ Len(s) \in Nat /\ DOMAIN out = 1..Len(out) /\ DOMAIN s = 1..Len(s)
      /\ KeptOf(s) \in SUBSET (1..Len(s))
  BY KeptAre
<1>2. /\ \A p \in 1..Len(out) : f[p] \in 1..Len(s) /\ Kept(s, f[p]) /\ out[p] = s[f[p]]
      /\ \A p, q \in 1..Len(out) : p < q => f[p] < f[q]
      /\ \A k \in KeptOf(s) : \E q \in 1..Len(out) : f[q] = k
  BY KeptAre
<1> SUFFICES ASSUME NEW i \in 1..Len(out), IsCall(out[i]), NEW n \in 1..out[i].n
             PROVE  \E j \in (i + 1)..Len(out) :
                        Owner(out, j) = i /\ Answers(out[j], out[i]) /\ out[j].n = n
  BY <1>1 DEF CallsAnswered, Answered
<1>3. IsCall(s[f[i]]) /\ ~IsTool(s[f[i]]) /\ f[i] \in 1..Len(s) /\ n \in 1..s[f[i]].n
  BY <1>2 DEF IsCall, IsTool
<1>4. Owner(s, f[i]) = f[i]
  <2>1. f[i] \in Nat /\ f[i] \in 0..f[i] /\ \A p \in (f[i] + 1)..f[i] : IsTool(s[p])
    BY <1>1, <1>3
  <2>2. QED
    BY <1>3, <2>1, OwnerIs
<1>5. Answered(s, f[i])
  BY <1>2, <1>3, <1>4 DEF Kept, IsCall
<1>6. PICK k \in (f[i] + 1)..Len(s) : /\ Owner(s, k) = f[i] /\ Answers(s[k], s[f[i]]) /\ s[k].n = n
                                       /\ Kept(s, k)
  BY <1>3, <1>5, FirstIsKept
<1>7. k \in KeptOf(s) /\ k > f[i]
  BY <1>1, <1>3, <1>6 DEF KeptOf
<1>8. PICK j \in 1..Len(out) : f[j] = k
  BY <1>2, <1>7
<1>9. j > i /\ j \in i..Len(out) /\ j \in (i + 1)..Len(out)
  <2>1. ~(j < i) /\ j # i
    BY <1>2, <1>3, <1>7, <1>8
  <2>2. QED
    BY <1>1, <2>1
<1>10. Owner(out, j) = i
  <2>1. Owner(s, f[j]) = f[i]
    BY <1>6, <1>8
  <2>2. QED
    BY <1>1, <1>9, <2>1, OwnerMoves
<1>11. QED
  BY <1>2, <1>6, <1>8, <1>9, <1>10

(* A sanitized history has no call without its results.                       *)
LEMMA SanitizeAnswers ==
    ASSUME NEW S, NEW h \in Seq(S)
    PROVE  Sanitize(h) \in Seq(S) /\ CallsAnswered(Sanitize(h))
<1> DEFINE s == FoldLeft(Admit, <<>>, h)
<1>1. s \in Seq(S)
  BY AdmitIs
<1>2. Sanitize(h) = Picked(s, KeptOf(s))
  BY Zenon DEF Sanitize, KeptOf
<1> HIDE DEF s
<1>3. KeptOf(s) \in SUBSET (1..Len(s))
  BY <1>1 DEF KeptOf
<1>4. QED
  BY <1>1, <1>2, <1>3, PickedIs, KeptAnswers

Same(a, b) == a.turn = b.turn /\ a.step = b.step

(* A call comes before its results, with nothing but results of it between.   *)
CallFirst(h) ==
    \A i, j \in DOMAIN h :
        IsCall(h[i]) /\ IsTool(h[j]) /\ Same(h[i], h[j]) =>
            i < j /\ \A k \in (i + 1)..j : Answers(h[k], h[i])

(* A result without its call has only results of that call before it, but for *)
(* the first message, which forceCompression keeps.                           *)
HeadOrphans(h) ==
    \A j \in DOMAIN h :
        IsTool(h[j]) /\ (\A i \in DOMAIN h : ~(IsCall(h[i]) /\ Same(h[i], h[j]))) =>
            \A k \in 2..(j - 1) : IsTool(h[k]) /\ Same(h[k], h[j])

WellOrdered(h) ==
    CallFirst(h) /\ HeadOrphans(h) /\ \A i \in DOMAIN h : IsCall(h[i]) => h[i].n \in Nat \ {0}

(* What the first pass admits of a call, two results after it, of which the   *)
(* first is the call's own: so is the second.                                 *)
LEMMA OwnResults ==
    ASSUME NEW S, NEW h \in Seq(S), WellOrdered(h), NEW s \in Seq(S), NEW e, Admitted(h, Len(h), s, e),
           NEW c \in 1..Len(s), NEW x \in (c + 1)..Len(s), NEW j \in (c + 1)..Len(s),
           IsCall(s[c]), \A p \in (c + 1)..x : IsTool(s[p]), \A p \in (c + 1)..j : IsTool(s[p]),
           Answers(s[x], s[c])
    PROVE  Answers(s[j], s[c])
<1> DEFINE C == e[c]
           X == e[x]
           J == e[j]
<1>1. /\ Len(s) \in Nat /\ Len(h) \in Nat /\ DOMAIN h = 1..Len(h)
      /\ x \in 1..Len(s) /\ j \in 1..Len(s) /\ c \in 1..Len(s)
      /\ \A p \in 1..Len(s) : e[p] \in 1..Len(h) /\ s[p] = h[e[p]]
      /\ \A p, q \in 1..Len(s) : p < q => e[p] < e[q]
  <2>1. Len(s) \in Nat /\ Len(h) \in Nat /\ DOMAIN h = 1..Len(h)
    OBVIOUS
  <2>2. x \in 1..Len(s) /\ j \in 1..Len(s) /\ c \in 1..Len(s)
    BY <2>1
  <2>3. QED
    BY <2>1, <2>2 DEF Admitted
<1>2. /\ C \in 1..Len(h) /\ X \in 1..Len(h) /\ J \in 1..Len(h) /\ C < X /\ C < J
      /\ h[C] = s[c] /\ h[X] = s[x] /\ h[J] = s[j] /\ IsTool(h[X]) /\ IsTool(h[J]) /\ IsCall(h[C])
  BY <1>1
<1>3. Same(h[C], h[X])
  BY <1>2 DEF Same, Answers
<1>4. \A k \in (C + 1)..X : Answers(h[k], h[C])
  BY <1>1, <1>2, <1>3 DEF WellOrdered, CallFirst
<1> HIDE DEF C, X, J
<1>5. CASE J <= X
  <2>1. J \in (C + 1)..X
    BY <1>2, <1>5
  <2>2. QED
    BY <1>2, <1>4, <2>1
<1>6. CASE X < J
  <2>1. CASE \A i \in DOMAIN h : ~(IsCall(h[i]) /\ Same(h[i], h[J]))
    <3>1. X \in 2..(J - 1)
      BY <1>2, <1>6
    <3>2. Same(h[X], h[J])
      BY <1>1, <1>2, <2>1, <3>1 DEF WellOrdered, HeadOrphans
    <3>3. Same(h[C], h[J])
      BY <1>3, <3>2 DEF Same
    <3>4. QED
      BY <1>1, <1>2, <2>1, <3>3
  <2>2. ASSUME NEW i \in DOMAIN h, IsCall(h[i]), Same(h[i], h[J]) PROVE Answers(h[J], h[C])
    <3>1. i < J /\ \A k \in (i + 1)..J : Answers(h[k], h[i])
      BY <1>1, <1>2, <2>2 DEF WellOrdered, CallFirst
    <3>2. ~(i < C)
      <4>1. SUFFICES ASSUME i < C PROVE FALSE
        OBVIOUS
      <4>2. C \in (i + 1)..J
        BY <1>1, <1>2, <4>1
      <4>3. QED
        BY <1>2, <3>1, <4>2 DEF Answers, IsTool, IsCall
    <3>3. CASE i = C
      <4>1. J \in (i + 1)..J
        BY <1>1, <1>2, <3>1
      <4>2. QED
        BY <3>1, <3>3, <4>1
    <3>4. CASE C < i
      <4>1. i > X
        <5>1. i \notin (C + 1)..X
          BY <1>4, <2>2 DEF Answers, IsTool, IsCall
        <5>2. QED
          BY <1>1, <1>2, <3>4, <5>1
      <4>2. ASSUME NEW p \in 1..Len(s), e[p] = i PROVE FALSE
        <5>1. ~(p < c) /\ p # c /\ ~(j < p) /\ p # j
          BY <1>1, <3>1, <3>4, <4>2 DEF C, J
        <5>2. p \in (c + 1)..j
          BY <1>1, <5>1
        <5>3. IsTool(h[i])
          BY <1>1, <4>2, <5>2
        <5>4. QED
          BY <2>2, <5>3 DEF IsTool, IsCall
      <4>3. PICK m \in 0..Len(s) : /\ m > 0 => e[m] < i /\ s[m].role \notin {"user", "tool"}
                                   /\ \A p \in (m + 1)..Len(s) : e[p] > i
        BY <1>1, <2>2, <4>2 DEF Admitted
      <4>4. x \notin (m + 1)..Len(s) /\ m \in Nat /\ i \in Nat /\ X \in Nat
        BY <1>1, <1>2, <4>1, <4>3 DEF X
      <4>5. m >= x
        BY <1>1, <4>4
      <4>6. e[m] < i /\ m \in 1..Len(s)
        BY <1>1, <4>3, <4>5
      <4>7. ~(j < m) /\ j # m
        BY <1>1, <1>2, <3>1, <4>4, <4>6 DEF J
      <4>8. m \in (c + 1)..j
        BY <1>1, <4>4, <4>5, <4>7
      <4>9. QED
        BY <1>1, <4>3, <4>6, <4>8 DEF IsTool
    <3>5. QED
      BY <1>1, <1>2, <3>2, <3>3, <3>4
  <2>3. QED
    BY <1>2, <2>1, <2>2
<1>7. QED
  BY <1>2, <1>5, <1>6

(* What the second pass keeps of that: each result follows its own call.      *)
LEMMA KeptOrders ==
    ASSUME NEW S, NEW h \in Seq(S), WellOrdered(h), NEW s \in Seq(S), NEW e, Admitted(h, Len(h), s, e),
           NEW out \in Seq(S), NEW f, Embeds(out, s, KeptOf(s), f)
    PROVE  ResultsAnswer(out)
<1>1. KeptOf(s) \in SUBSET (1..Len(s)) /\ Len(s) \in Nat
  BY DEF KeptOf
<1>3. /\ \A p \in 1..Len(out) : f[p] \in 1..Len(s) /\ Kept(s, f[p]) /\ out[p] = s[f[p]]
      /\ \A p, q \in 1..Len(out) : p < q => f[p] < f[q]
      /\ \A k \in KeptOf(s) : \E q \in 1..Len(out) : f[q] = k
      /\ Len(out) \in Nat /\ DOMAIN out = 1..Len(out) /\ DOMAIN s = 1..Len(s)
  BY KeptAre
<1> SUFFICES ASSUME NEW q \in 1..Len(out), IsTool(out[q])
             PROVE  Owner(out, q) > 0 /\ Answers(out[q], out[Owner(out, q)])
  BY <1>3 DEF ResultsAnswer
<1>4. PICK c \in 1..(f[q] - 1) : IsCall(s[c]) /\ \A p \in (c + 1)..f[q] : IsTool(s[p])
  BY <1>3 DEF Admitted
<1>5. f[q] \in 1..Len(s) /\ c \in 1..Len(s) /\ c \in 0..f[q] /\ ~IsTool(s[c]) /\ f[q] \in (c + 1)..Len(s)
  BY <1>1, <1>3, <1>4 DEF IsTool, IsCall
<1>6. Owner(s, f[q]) = c /\ Owner(s, c) = c
  <2>0. f[q] \in Nat /\ c \in 0..f[q] /\ ~IsTool(s[c])
    BY <1>5
  <2>1. Owner(s, f[q]) = c
    BY <1>4, <2>0, OwnerIs
  <2>2. c \in Nat /\ c \in 0..c /\ \A p \in (c + 1)..c : IsTool(s[p])
    BY <1>5
  <2>3. QED
    BY <1>5, <2>1, <2>2, OwnerIs
<1>7. Answered(s, c)
  BY <1>3, <1>6 DEF Kept, IsTool
<1>8. c \in KeptOf(s)
  BY <1>3, <1>5, <1>6, <1>7 DEF KeptOf, Kept
<1>9. PICK p \in 1..Len(out) : f[p] = c
  BY <1>3, <1>8
<1>10. p <= q
  BY <1>1, <1>3, <1>5, <1>9
<1>11. Owner(out, q) = p
  <2>1. q \in p..Len(out)
    BY <1>3, <1>10
  <2>2. Owner(s, f[q]) = f[p]
    BY <1>6, <1>9
  <2>3. QED
    BY <1>1, <2>1, <2>2, OwnerMoves
<1>12. Answers(s[f[q]], s[c])
  <2>1. 1 \in 1..s[c].n
    <3>1. e[c] \in DOMAIN h /\ s[c] = h[e[c]]
      <4>1. e \in [1..Len(s) -> 1..Len(h)] /\ \A i \in 1..Len(s) : s[i] = h[e[i]]
        BY DEF Admitted
      <4>2. DOMAIN h = 1..Len(h)
        OBVIOUS
      <4>3. QED
        BY <1>5, <4>1, <4>2
    <3>2. s[c].n \in Nat \ {0}
      BY <1>4, <3>1 DEF WellOrdered
    <3>3. QED
      BY <3>2
  <2>2. PICK x \in (c + 1)..Len(s) : Owner(s, x) = c /\ Answers(s[x], s[c])
    BY <1>7, <2>1 DEF Answered
  <2>3. \A y \in (c + 1)..x : IsTool(s[y])
    BY <1>5, <2>2, OwnerOf
  <2>4. QED
    BY <1>4, <1>5, <2>2, <2>3, OwnResults
<1>13. QED
  BY <1>3, <1>9, <1>11, <1>12

(* A sanitized history has no result without its call.                        *)
LEMMA SanitizeOrders ==
    ASSUME NEW S, NEW h \in Seq(S), WellOrdered(h)
    PROVE  ResultsAnswer(Sanitize(h))
<1> DEFINE s == FoldLeft(Admit, <<>>, h)
<1>1. PICK e : s \in Seq(S) /\ Admitted(h, Len(h), s, e)
  BY AdmitIs
<1>2. Sanitize(h) = Picked(s, KeptOf(s))
  BY Zenon DEF Sanitize, KeptOf
<1> HIDE DEF s
<1>3. KeptOf(s) \in SUBSET (1..Len(s))
  BY <1>1 DEF KeptOf
<1>4. QED
  BY <1>1, <1>2, <1>3, PickedIs, KeptOrders

(* A part of a well ordered history: its end, or its first message and its    *)
(* end.                                                                       *)
LEMMA OrderedPart ==
    ASSUME NEW S, NEW h \in Seq(S), WellOrdered(h), NEW g \in Seq(S),
           NEW d \in Nat, Len(h) = Len(g) + d,
           \A i \in 2..Len(g) : g[i] = h[i + d],
           g # <<>> => g[1] = h[1] \/ g[1] = h[1 + d]
    PROVE  WellOrdered(g)
<1> DEFINE n == Len(g)
           from == [i \in 1..n |-> IF i = 1 /\ g[1] = h[1] THEN 1 ELSE i + d]
<1>1. n \in Nat /\ Len(h) = n + d /\ DOMAIN h = 1..(n + d) /\ DOMAIN g = 1..n
  OBVIOUS
<1>2. n > 0 => g[1] = h[1] \/ g[1] = h[1 + d]
  BY <1>1
<1>3. \A i \in 2..n : g[i] = h[i + d]
  OBVIOUS
<1> HIDE DEF n
<1>4. \A i \in 1..n : from[i] \in 1..(n + d) /\ g[i] = h[from[i]]
  BY <1>1, <1>2, <1>3
<1>5. \A i \in 2..n : from[i] = i + d
  BY <1>1
<1>6. \A i, j \in 1..n : from[i] < from[j] => i < j
  BY <1>1
<1>7. \A i, j \in 1..n : i < j => from[i] < from[j]
  BY <1>1
<1> HIDE DEF from
<1>8. CallFirst(g)
  <2> SUFFICES ASSUME NEW i \in 1..n, NEW j \in 1..n, IsCall(g[i]), IsTool(g[j]), Same(g[i], g[j])
               PROVE  i < j /\ \A k \in (i + 1)..j : Answers(g[k], g[i])
    BY <1>1 DEF CallFirst
  <2>1. from[i] < from[j] /\ \A k \in (from[i] + 1)..from[j] : Answers(h[k], h[from[i]])
    BY <1>1, <1>4 DEF WellOrdered, CallFirst
  <2>2. i < j
    BY <1>6, <2>1
  <2>3. ASSUME NEW k \in (i + 1)..j PROVE Answers(g[k], g[i])
    <3>1. k \in 1..n /\ i < k /\ (k < j \/ k = j)
      BY <1>1
    <3>2. from[i] < from[k] /\ (from[k] < from[j] \/ from[k] = from[j])
      BY <1>7, <3>1
    <3>3. from[k] \in (from[i] + 1)..from[j]
      BY <1>1, <1>4, <3>1, <3>2
    <3>4. QED
      BY <1>4, <2>1, <3>1, <3>3
  <2>4. QED
    BY <2>2, <2>3
<1>9. HeadOrphans(g)
  <2> SUFFICES ASSUME NEW j \in 1..n, IsTool(g[j]),
                      \A i \in 1..n : ~(IsCall(g[i]) /\ Same(g[i], g[j])),
                      NEW k \in 2..(j - 1)
               PROVE  IsTool(g[k]) /\ Same(g[k], g[j])
    BY <1>1 DEF HeadOrphans
  <2>1. k \in 1..n /\ k \in 2..n /\ from[k] = k + d /\ from[k] < from[j] /\ from[j] \in 1..(n + d)
    BY <1>1, <1>4, <1>5, <1>7
  <2>2. g[j] = h[from[j]] /\ g[k] = h[from[k]] /\ IsTool(h[from[j]])
    BY <1>4, <2>1
  <2>3. CASE \A i \in DOMAIN h : ~(IsCall(h[i]) /\ Same(h[i], h[from[j]]))
    <3>1. from[k] \in 2..(from[j] - 1)
      BY <1>1, <2>1
    <3>2. QED
      BY <1>1, <2>1, <2>2, <2>3, <3>1 DEF WellOrdered, HeadOrphans
  <2>4. ASSUME NEW i \in DOMAIN h, IsCall(h[i]), Same(h[i], h[from[j]])
        PROVE  IsTool(g[k]) /\ Same(g[k], g[j])
    <3>1. i < from[j] /\ \A x \in (i + 1)..from[j] : Answers(h[x], h[i])
      BY <1>1, <2>1, <2>2, <2>4 DEF WellOrdered, CallFirst
    <3>2. ~(i >= k + d)
      <4> SUFFICES ASSUME i >= k + d PROVE FALSE
        OBVIOUS
      <4>1. i - d \in 2..n /\ (i - d) + d = i /\ i - d \in 1..n
        BY <1>1, <2>1
      <4>2. g[i - d] = h[i]
        BY <1>3, <4>1
      <4>3. QED
        BY <2>2, <2>4, <4>1, <4>2
    <3>3. from[k] \in (i + 1)..from[j]
      BY <1>1, <2>1, <3>2
    <3>4. Answers(h[from[k]], h[i])
      BY <3>1, <3>3
    <3>5. QED
      BY <2>2, <2>4, <3>4 DEF Answers, Same
  <2>5. QED
    BY <2>3, <2>4
<1>10. \A i \in DOMAIN g : IsCall(g[i]) => g[i].n \in Nat \ {0}
  BY <1>1, <1>4 DEF WellOrdered
<1>11. QED
  BY <1>8, <1>9, <1>10 DEF WellOrdered

(* Its beginning.                                                             *)
LEMMA OrderedPrefix ==
    ASSUME NEW S, NEW h \in Seq(S), WellOrdered(h), NEW g \in Seq(S),
           Len(g) <= Len(h), \A i \in 1..Len(g) : g[i] = h[i]
    PROVE  WellOrdered(g)
<1> DEFINE n == Len(g)
           m == Len(h)
<1>1. n \in Nat /\ m \in Nat /\ n <= m /\ DOMAIN g = 1..n /\ DOMAIN h = 1..m /\ \A i \in 1..n : g[i] = h[i]
  OBVIOUS
<1> HIDE DEF n, m
<1>2. CallFirst(g)
  BY <1>1 DEF WellOrdered, CallFirst
<1>3. HeadOrphans(g)
  <2> SUFFICES ASSUME NEW j \in 1..n, IsTool(g[j]), \A i \in 1..n : ~(IsCall(g[i]) /\ Same(g[i], g[j]))
               PROVE  \A k \in 2..(j - 1) : IsTool(g[k]) /\ Same(g[k], g[j])
    BY <1>1 DEF HeadOrphans
  <2>1. ASSUME NEW i \in DOMAIN h PROVE ~(IsCall(h[i]) /\ Same(h[i], h[j]))
    <3>1. j \in DOMAIN h /\ h[j] = g[j]
      BY <1>1
    <3>2. IsCall(h[i]) /\ Same(h[i], h[j]) => i < j
      BY <3>1 DEF WellOrdered, CallFirst
    <3>3. i < j => i \in 1..n
      BY <1>1
    <3>4. QED
      BY <1>1, <3>1, <3>2, <3>3
  <2>2. \A k \in 2..(j - 1) : IsTool(h[k]) /\ Same(h[k], h[j])
    BY <1>1, <2>1 DEF WellOrdered, HeadOrphans
  <2>3. \A k \in 2..(j - 1) : k \in 1..n
    BY <1>1
  <2>4. QED
    BY <1>1, <2>2, <2>3
<1>4. \A i \in DOMAIN g : IsCall(g[i]) => g[i].n \in Nat \ {0}
  BY <1>1 DEF WellOrdered
<1>5. QED
  BY <1>2, <1>3, <1>4 DEF WellOrdered

(* A message of the user or an answer is added to it.                         *)
LEMMA OrderedAppend ==
    ASSUME NEW S, NEW h \in Seq(S), WellOrdered(h), NEW m \in S, ~IsTool(m), ~IsCall(m)
    PROVE  WellOrdered(Append(h, m))
<1> DEFINE n == Len(h)
           g == Append(h, m)
<1>1. /\ n \in Nat /\ DOMAIN h = 1..n /\ DOMAIN g = 1..(n + 1) /\ g[n + 1] = m
      /\ \A i \in 1..n : g[i] = h[i]
  BY AppendProperties
<1> HIDE DEF n, g
<1>2. \A i \in 1..(n + 1) : IsTool(g[i]) \/ IsCall(g[i]) => i \in 1..n
  BY <1>1
<1>3. CallFirst(g)
  <2> SUFFICES ASSUME NEW i \in 1..n, NEW j \in 1..n, IsCall(g[i]), IsTool(g[j]), Same(g[i], g[j])
               PROVE  i < j /\ \A k \in (i + 1)..j : Answers(g[k], g[i])
    BY <1>1, <1>2 DEF CallFirst
  <2>1. i < j /\ \A k \in (i + 1)..j : Answers(h[k], h[i])
    BY <1>1 DEF WellOrdered, CallFirst
  <2>2. QED
    BY <1>1, <2>1
<1>4. HeadOrphans(g)
  <2> SUFFICES ASSUME NEW j \in 1..n, IsTool(g[j]), \A i \in 1..(n + 1) : ~(IsCall(g[i]) /\ Same(g[i], g[j]))
               PROVE  \A k \in 2..(j - 1) : IsTool(g[k]) /\ Same(g[k], g[j])
    BY <1>1, <1>2 DEF HeadOrphans
  <2>1. \A i \in 1..n : ~(IsCall(h[i]) /\ Same(h[i], h[j]))
    BY <1>1
  <2>2. \A k \in 2..(j - 1) : IsTool(h[k]) /\ Same(h[k], h[j])
    BY <1>1, <2>1 DEF WellOrdered, HeadOrphans
  <2>3. \A k \in 2..(j - 1) : k \in 1..n
    BY <1>1
  <2>4. QED
    BY <1>1, <2>2, <2>3
<1>5. \A i \in DOMAIN g : IsCall(g[i]) => g[i].n \in Nat \ {0}
  BY <1>1, <1>2 DEF WellOrdered
<1>6. QED
  BY <1>3, <1>4, <1>5 DEF WellOrdered, g

(* A call and the results it will have are added to it.                       *)
LEMMA OrderedCall ==
    ASSUME NEW S, NEW h \in Seq(S), WellOrdered(h), NEW g \in Seq(S), NEW c, IsCall(c), c.n \in Nat \ {0},
           \A i \in DOMAIN h : IsTool(h[i]) \/ IsCall(h[i]) => ~Same(h[i], c),
           Len(g) >= Len(h) + 1, \A i \in 1..Len(h) : g[i] = h[i], g[Len(h) + 1] = c,
           \A i \in (Len(h) + 2)..Len(g) : Answers(g[i], c)
    PROVE  WellOrdered(g)
<1> DEFINE n == Len(h)
           m == Len(g)
<1>1. /\ n \in Nat /\ m \in Nat /\ n + 1 <= m /\ DOMAIN g = 1..m /\ DOMAIN h = 1..n
      /\ (\A i \in 1..n : g[i] = h[i]) /\ g[n + 1] = c /\ \A i \in (n + 2)..m : Answers(g[i], c)
  OBVIOUS
<1> HIDE DEF n, m
<1>2. \A i \in (n + 2)..m : IsTool(g[i]) /\ ~IsCall(g[i]) /\ Same(g[i], c) /\ Same(c, g[i])
  BY <1>1 DEF Answers, IsTool, IsCall, Same
<1>3. \A i \in 1..m : i \in 1..n \/ i = n + 1 \/ i \in (n + 2)..m
  BY <1>1
<1>4. \A i \in 1..n : IsTool(g[i]) \/ IsCall(g[i]) => ~Same(g[i], c) /\ ~Same(c, g[i])
  BY <1>1 DEF Same
<1>5. ~IsTool(c)
  BY DEF IsTool, IsCall
<1>6. ASSUME NEW i \in 1..m, NEW j \in 1..m, IsCall(g[i]), IsTool(g[j]), Same(g[i], g[j])
      PROVE  i < j /\ \A k \in (i + 1)..j : Answers(g[k], g[i])
  <2>1. CASE j \in 1..n
    <3>1. i \in 1..n
      BY <1>1, <1>2, <1>3, <1>4, <1>6, <2>1
    <3>2. i < j /\ \A k \in (i + 1)..j : Answers(h[k], h[i])
      BY <1>1, <1>6, <2>1, <3>1 DEF WellOrdered, CallFirst
    <3>3. QED
      BY <1>1, <2>1, <3>1, <3>2
  <2>2. CASE j \in (n + 2)..m
    <3>1. Same(g[i], c)
      BY <1>2, <1>6, <2>2 DEF Same
    <3>2. i = n + 1
      BY <1>2, <1>3, <1>4, <1>6, <3>1
    <3>3. QED
      BY <1>1, <2>2, <3>2
  <2>3. QED
    BY <1>1, <1>3, <1>5, <1>6, <2>1, <2>2
<1>7. ASSUME NEW j \in 1..m, IsTool(g[j]), \A i \in 1..m : ~(IsCall(g[i]) /\ Same(g[i], g[j]))
      PROVE  \A k \in 2..(j - 1) : IsTool(g[k]) /\ Same(g[k], g[j])
  <2>1. j \in 1..n
    <3>1. n + 1 \in 1..m
      BY <1>1
    <3>2. QED
      BY <1>1, <1>2, <1>3, <1>5, <1>7, <3>1
  <2>2. \A i \in 1..n : ~(IsCall(h[i]) /\ Same(h[i], h[j]))
    BY <1>1, <1>7, <2>1
  <2>3. \A k \in 2..(j - 1) : IsTool(h[k]) /\ Same(h[k], h[j])
    BY <1>1, <1>7, <2>1, <2>2 DEF WellOrdered, HeadOrphans
  <2>4. \A k \in 2..(j - 1) : k \in 1..n
    BY <1>1, <2>1
  <2>5. QED
    BY <1>1, <2>1, <2>3, <2>4
<1>8. \A i \in DOMAIN g : IsCall(g[i]) => g[i].n \in Nat \ {0}
  BY <1>1, <1>2, <1>3 DEF WellOrdered
<1>9. QED
  BY <1>1, <1>6, <1>7, <1>8 DEF WellOrdered, CallFirst, HeadOrphans

(* What is shown stays answered when messages are added at its end.           *)
LEMMA AnsweredStays ==
    ASSUME NEW S, NEW v \in Seq(S), NEW g \in Seq(S), Len(v) <= Len(g),
           \A i \in 1..Len(v) : g[i] = v[i]
    PROVE  /\ \A j \in 1..Len(v) : Owner(g, j) = Owner(v, j)
           /\ CallsAnswered(v) => \A i \in 1..Len(v) : IsCall(v[i]) => Answered(g, i)
           /\ ResultsAnswer(v) => \A j \in 1..Len(v) : IsTool(v[j]) =>
                                    Owner(g, j) > 0 /\ Answers(g[j], g[Owner(g, j)])
<1> DEFINE n == Len(v)
<1>1. /\ n \in Nat /\ Len(g) \in Nat /\ n <= Len(g) /\ DOMAIN v = 1..n
      /\ \A i \in 1..n : g[i] = v[i]
  OBVIOUS
<1>2. ASSUME NEW j \in 1..n PROVE Owner(g, j) = Owner(v, j)
  <2> DEFINE o == Owner(v, j)
  <2>1. j \in Nat /\ o \in 0..j /\ (o > 0 => ~IsTool(v[o])) /\ \A p \in (o + 1)..j : IsTool(v[p])
    BY <1>1, OwnerOf
  <2> HIDE DEF o
  <2>2. (o > 0 => ~IsTool(g[o])) /\ \A p \in (o + 1)..j : IsTool(g[p])
    <3>1. o > 0 => o \in 1..n
      BY <1>1, <2>1
    <3>2. \A p \in (o + 1)..j : p \in 1..n
      BY <1>1, <2>1
    <3>3. QED
      BY <1>1, <2>1, <3>1, <3>2
  <2>3. Owner(g, j) = o
    BY <2>1, <2>2, OwnerIs
  <2>4. QED
    BY <2>3 DEF o
<1>3. ASSUME CallsAnswered(v), NEW i \in 1..n, IsCall(v[i]) PROVE Answered(g, i)
  <2> SUFFICES ASSUME NEW k \in 1..g[i].n
               PROVE  \E j \in (i + 1)..Len(g) : Owner(g, j) = i /\ Answers(g[j], g[i]) /\ g[j].n = k
    BY DEF Answered
  <2>1. PICK j \in (i + 1)..n : Owner(v, j) = i /\ Answers(v[j], v[i]) /\ v[j].n = k
    BY <1>1, <1>3 DEF CallsAnswered, Answered
  <2>2. j \in 1..n /\ j \in (i + 1)..Len(g)
    BY <1>1
  <2>3. QED
    BY <1>1, <1>2, <2>1, <2>2
<1>4. ASSUME ResultsAnswer(v), NEW j \in 1..n, IsTool(v[j])
      PROVE  Owner(g, j) > 0 /\ Answers(g[j], g[Owner(g, j)])
  <2>1. Owner(v, j) > 0 /\ Answers(v[j], v[Owner(v, j)])
    BY <1>1, <1>4 DEF ResultsAnswer
  <2>2. Owner(v, j) \in 0..j
    BY <1>1, OwnerOf
  <2>3. Owner(v, j) \in 1..n
    BY <1>1, <2>1, <2>2
  <2>4. QED
    BY <1>1, <1>2, <2>1, <2>3
<1>5. QED
  BY <1>2, <1>3, <1>4

(* A message of the user is added to it.                                      *)
LEMMA ShownAppend ==
    ASSUME NEW S, NEW v \in Seq(S), NEW m \in S, ~IsTool(m), ~IsCall(m)
    PROVE  /\ CallsAnswered(v) => CallsAnswered(Append(v, m))
           /\ ResultsAnswer(v) => ResultsAnswer(Append(v, m))
<1> DEFINE n == Len(v)
           g == Append(v, m)
<1>1. /\ n \in Nat /\ g \in Seq(S) /\ Len(g) = n + 1 /\ DOMAIN g = 1..(n + 1) /\ g[n + 1] = m
      /\ \A i \in 1..n : g[i] = v[i]
  BY AppendProperties
<1> HIDE DEF g
<1>2. /\ CallsAnswered(v) => \A i \in 1..n : IsCall(v[i]) => Answered(g, i)
      /\ ResultsAnswer(v) => \A j \in 1..n : IsTool(v[j]) =>
                               Owner(g, j) > 0 /\ Answers(g[j], g[Owner(g, j)])
  BY <1>1, AnsweredStays
<1> HIDE DEF n
<1>3. \A i \in 1..(n + 1) : IsTool(g[i]) \/ IsCall(g[i]) => i \in 1..n
  BY <1>1
<1>4. CallsAnswered(v) => CallsAnswered(g)
  BY <1>1, <1>2, <1>3 DEF CallsAnswered
<1>5. ResultsAnswer(v) => ResultsAnswer(g)
  BY <1>1, <1>2, <1>3 DEF ResultsAnswer
<1>6. QED
  BY <1>4, <1>5 DEF g

(* A call and all of its results are added to it.                             *)
LEMMA ShownCall ==
    ASSUME NEW S, NEW v \in Seq(S), NEW g \in Seq(S), NEW c, IsCall(c), c.n \in Nat \ {0},
           Len(g) = Len(v) + 1 + c.n, \A i \in 1..Len(v) : g[i] = v[i], g[Len(v) + 1] = c,
           \A k \in 1..c.n : Answers(g[Len(v) + 1 + k], c) /\ g[Len(v) + 1 + k].n = k
    PROVE  /\ CallsAnswered(v) => CallsAnswered(g)
           /\ ResultsAnswer(v) => ResultsAnswer(g)
<1> DEFINE p == Len(v) + 1
<1>1. /\ p \in Nat \ {0} /\ Len(g) = p + c.n /\ DOMAIN g = 1..(p + c.n) /\ g[p] = c /\ Len(v) = p - 1
      /\ \A k \in 1..c.n : Answers(g[p + k], c) /\ g[p + k].n = k
      /\ \A i \in 1..(p - 1) : g[i] = v[i]
  OBVIOUS
<1>2. /\ CallsAnswered(v) => \A i \in 1..(p - 1) : IsCall(v[i]) => Answered(g, i)
      /\ ResultsAnswer(v) => \A j \in 1..(p - 1) : IsTool(v[j]) =>
                               Owner(g, j) > 0 /\ Answers(g[j], g[Owner(g, j)])
  <2>1. Len(v) <= Len(g)
    BY <1>1
  <2>2. /\ CallsAnswered(v) => \A i \in 1..Len(v) : IsCall(v[i]) => Answered(g, i)
        /\ ResultsAnswer(v) => \A j \in 1..Len(v) : IsTool(v[j]) =>
                                 Owner(g, j) > 0 /\ Answers(g[j], g[Owner(g, j)])
    BY <2>1, AnsweredStays
  <2>3. QED
    BY <1>1, <2>2
<1> HIDE DEF p
<1>3. \A j \in (p + 1)..(p + c.n) : Answers(g[j], c) /\ IsTool(g[j]) /\ ~IsCall(g[j])
  <2> DEFINE n == c.n
  <2>0. n \in Nat /\ p \in Nat
    BY <1>1
  <2> HIDE DEF n
  <2>1. \A j \in (p + 1)..(p + n) : j - p \in 1..n /\ p + (j - p) = j
    BY <2>0
  <2>2. QED
    BY <1>1, <2>1 DEF Answers, IsTool, IsCall, n
<1>4. ~IsTool(c)
  BY DEF IsTool, IsCall
<1>5. ASSUME NEW j \in (p + 1)..(p + c.n) PROVE Owner(g, j) = p
  <2>1. j \in Nat /\ p \in 0..j
    BY <1>1
  <2>2. \A q \in (p + 1)..j : q \in (p + 1)..(p + c.n)
    BY <1>1
  <2>3. QED
    BY <1>1, <1>3, <1>4, <2>1, <2>2, OwnerIs
<1>6. Answered(g, p)
  <2> SUFFICES ASSUME NEW k \in 1..c.n
               PROVE  \E j \in (p + 1)..Len(g) : Owner(g, j) = p /\ Answers(g[j], g[p]) /\ g[j].n = k
    BY <1>1 DEF Answered
  <2>1. p + k \in (p + 1)..(p + c.n)
    BY <1>1
  <2>2. QED
    BY <1>1, <1>5, <2>1
<1>7. \A i \in 1..(p + c.n) : i \in 1..(p - 1) \/ i = p \/ i \in (p + 1)..(p + c.n)
  BY <1>1
<1>8. CallsAnswered(v) => CallsAnswered(g)
  BY <1>1, <1>2, <1>3, <1>6, <1>7 DEF CallsAnswered
<1>9. ResultsAnswer(v) => ResultsAnswer(g)
  <2> SUFFICES ASSUME ResultsAnswer(v), NEW j \in 1..(p + c.n), IsTool(g[j])
               PROVE  Owner(g, j) > 0 /\ Answers(g[j], g[Owner(g, j)])
    BY <1>1 DEF ResultsAnswer
  <2>1. CASE j \in 1..(p - 1)
    BY <1>1, <1>2, <2>1
  <2>2. CASE j \in (p + 1)..(p + c.n)
    BY <1>1, <1>3, <1>5, <2>2
  <2>3. QED
    BY <1>1, <1>4, <1>7, <2>1, <2>2
<1>10. QED
  BY <1>8, <1>9

(* Taking the next of what is due moves it, and no more.                      *)
LEMMA MovesOne ==
    ASSUME NEW S, NEW h \in Seq(S), NEW due \in Seq(S), due # <<>>
    PROVE  Append(h, Head(due)) \o Tail(due) = h \o due
<1>1. Head(due) \in S /\ Head(due) = due[1] /\ Tail(due) \in Seq(S) /\ <<Head(due)>> \in Seq(S)
  BY HeadTailProperties
<1>2. Append(h, Head(due)) = h \o <<Head(due)>>
  BY <1>1, AppendIsConcat
<1>3. (h \o <<Head(due)>>) \o Tail(due) = h \o (<<Head(due)>> \o Tail(due))
  BY <1>1, ConcatAssociative
<1>4. <<Head(due)>> \o Tail(due) = due
  <2>1. 1 \in 1..Len(due) /\ Len(due) \in 1..Len(due)
    OBVIOUS
  <2>2. SubSeq(due, 1, Len(due)) = <<due[1]>> \o SubSeq(due, 1 + 1, Len(due))
    BY <2>1, SubSeqRecursiveFirst
  <2>3. SubSeq(due, 1, Len(due)) = due /\ Tail(due) = SubSeq(due, 2, Len(due)) /\ 1 + 1 = 2
    BY SubSeqFull, TailIsSubSeq
  <2>4. QED
    BY <1>1, <2>2, <2>3
<1>5. QED
  BY <1>2, <1>3, <1>4

-----------------------------------------------------------------------------
(***************************************************************************)
(* The session's history.  It holds nothing that was not said, one         *)
(* summarizer works at a time, and what it is about to remove it has put   *)
(* into the summary, or the clear command has taken that away.             *)
(***************************************************************************)
Working(t) == summarizer[t].at # "idle"

SsIInv ==
    /\ history \in Seq(said) /\ snap \in [Turns -> Seq(said)]
    /\ DOMAIN summarizer = Turns
    /\ \A t \in Turns :
        /\ DOMAIN summarizer[t] = {"at", "batch", "text"}
        /\ Working(t) => summarizing /\ \A u \in Turns : Working(u) => u = t
        /\ summarizer[t].at = "set" =>
             /\ ToSet(summarizer[t].batch) \subseteq summarizer[t].text
             /\ Len(summarizer[t].batch) > MaxPart \/ summary \subseteq summarizer[t].text
        /\ summarizer[t].at = "truncate" => ToSet(summarizer[t].batch) \subseteq summary \cup gone
    /\ KeptOrSummarized

(* forceCompression splits a conversation somewhere.                          *)
LEMMA SplitsSomewhere ==
    ASSUME NEW S, NEW conv \in Seq(S)
    PROVE  SplitPoint(conv) \in Nat
<1> DEFINE half == Len(conv) \div 2
           ends == {i \in half..Len(conv) : i < Len(conv) => ~IsTool(conv[i + 1])}
           past == Min(ends)
           mid == IF past > 0 /\ past < Len(conv) /\ IsCall(conv[past]) THEN past - 1 ELSE past
           outside == {i \in 1..half : i = 1 \/ ~Inside(conv, i)}
<1>1. Len(conv) \in Nat /\ half \in Nat /\ half <= Len(conv)
  <2> DEFINE len == Len(conv)
  <2>1. len \in Nat
    OBVIOUS
  <2> HIDE DEF len
  <2>2. len \div 2 \in Nat /\ len \div 2 <= len
    BY <2>1
  <2>3. QED
    BY <2>1, <2>2 DEF len
<1> HIDE DEF half
<1>2. mid \in Nat
  <2>1. ends \in SUBSET Nat /\ Len(conv) \in ends
    BY <1>1
  <2> HIDE DEF ends
  <2>2. past \in Nat
    BY <2>1, MinOf
  <2> HIDE DEF past
  <2>3. past > 0 => past - 1 \in Nat
    BY <2>2
  <2>4. QED
    BY <2>2, <2>3
<1>3. half > 1 => Max(outside) \in Nat
  <2> SUFFICES ASSUME half > 1 PROVE Max(outside) \in Nat
    OBVIOUS
  <2>1. outside \in SUBSET (0..half) /\ 1 \in outside /\ outside \in SUBSET Nat
    BY <1>1
  <2> HIDE DEF outside
  <2>2. QED
    BY <1>1, <2>1, MaxOf
<1> HIDE DEF mid, outside
<1>4. SplitPoint(conv) = IF mid < Len(conv) - 1 THEN mid ELSE IF half <= 1 THEN half ELSE Max(outside)
  BY Zenon DEF SplitPoint, half, mid, outside
<1>5. QED
  BY <1>1, <1>2, <1>3, <1>4

(* What it keeps was there.                                                   *)
LEMMA CompressKeeps ==
    ASSUME NEW S, NEW h \in Seq(S)
    PROVE  Compress(h) \in Seq(S)
<1> DEFINE conv == SubSeq(h, 2, Len(h) - 1)
           k == SplitPoint(conv) + 1
           rest == SubSeq(conv, k, Len(conv))
<1>1. CASE Len(h) <= 4
  BY <1>1 DEF Compress
<1>2. CASE ~(Len(h) <= 4)
  <2>1. Len(h) \in Nat /\ Len(h) > 4 /\ \A i \in 1..Len(h) : h[i] \in S
    BY <1>2
  <2>2. conv \in Seq(S)
    <3>1. \A i \in 2..(Len(h) - 1) : h[i] \in S
      BY <2>1
    <3>2. QED
      BY <2>1, <3>1, SubSeqProperties
  <2> HIDE DEF conv
  <2>3. k \in Nat /\ k >= 1 /\ Len(conv) \in Nat
    BY <2>2, SplitsSomewhere
  <2> HIDE DEF k
  <2>4. rest \in Seq(S)
    <3>1. \A i \in k..Len(conv) : conv[i] \in S
      BY <2>2, <2>3
    <3>2. QED
      BY <2>3, <3>1, SubSeqProperties
  <2> HIDE DEF rest
  <2>5. Head(h) \in S /\ Last(h) \in S
    BY <2>1 DEF Last
  <2>6. <<Head(h)>> \in Seq(S) /\ <<Last(h)>> \in Seq(S)
    BY <2>5
  <2>7. <<Head(h)>> \o rest \o <<Last(h)>> \in Seq(S)
    BY <2>4, <2>6, ConcatProperties
  <2>8. Compress(h) = <<Head(h)>> \o rest \o <<Last(h)>>
    BY <1>2, Zenon DEF Compress, rest, k, conv
  <2>9. QED
    BY <2>7, <2>8
<1>3. QED
  BY <1>1, <1>2

(* What the invariant says of the summarizer that turn t left behind.         *)
Honest(t) ==
    /\ summarizer[t].at = "set" =>
         /\ ToSet(summarizer[t].batch) \subseteq summarizer[t].text
         /\ Len(summarizer[t].batch) > MaxPart \/ summary \subseteq summarizer[t].text
    /\ summarizer[t].at = "truncate" => ToSet(summarizer[t].batch) \subseteq summary \cup gone

(* A step that adds m or nothing, and at most takes messages away that are    *)
(* gone, preserves it when the summarizers stay.                              *)
LEMMA HistoryMoves ==
    ASSUME SsIInv, history' \in Seq(said'), snap' \in [Turns -> Seq(said')],
           UNCHANGED <<summaryVars, summary, dropped>>, gone \subseteq gone',
           ToSet(history) \subseteq ToSet(history') \cup gone',
           \A m \in said' \ said : m \in ToSet(history')
    PROVE  SsIInv'
<1>1. KeptOrSummarized'
  BY DEF SsIInv, KeptOrSummarized
<1>2. summarizer' = summarizer /\ summarizing' = summarizing
  BY DEF summaryVars
<1>3. QED
  BY <1>1, <1>2 DEF SsIInv, Working

(* Sequences of what was said are sequences of what has been said since.      *)
LEMMA SaidStays ==
    ASSUME NEW s, NEW T, NEW U, s \in Seq(T), T \subseteq U
    PROVE  s \in Seq(U)
<1>1. Len(s) \in Nat /\ s \in [1..Len(s) -> T]
  OBVIOUS
<1>2. s \in [1..Len(s) -> U]
  BY <1>1
<1>3. QED
  BY <1>1, <1>2

(* A message is added.                                                        *)
LEMMA AddMoves ==
    ASSUME SsIInv, NEW m, SsAdd(m), UNCHANGED <<summaryVars, snap>>
    PROVE  SsIInv'
<1>1. /\ history \in Seq(said) /\ snap \in [Turns -> Seq(said)] /\ history' = Append(history, m)
      /\ said' = said \cup {m} /\ UNCHANGED <<summary, gone, dropped>>
  BY DEF SsIInv, SsAdd
<1>2. history \in Seq(said') /\ m \in said'
  BY <1>1, SaidStays
<1>3. /\ history' \in Seq(said') /\ Len(history') = Len(history) + 1 /\ Len(history) \in Nat
      /\ \A i \in 1..Len(history) : history'[i] = history[i]
      /\ history'[Len(history) + 1] = m
  BY <1>1, <1>2, AppendProperties
<1>4. snap' \in [Turns -> Seq(said')]
  <2>1. \A t \in Turns : snap[t] \in Seq(said')
    BY <1>1, SaidStays
  <2>2. QED
    BY <1>1, <2>1
<1>5. ToSet(history) \subseteq ToSet(history') /\ m \in ToSet(history')
  <2>1. DOMAIN history = 1..Len(history) /\ DOMAIN history' = 1..(Len(history) + 1)
    BY <1>1, <1>3
  <2>2. QED
    BY <1>3, <2>1 DEF ToSet
<1>6. QED
  BY <1>1, <1>3, <1>4, <1>5, HistoryMoves

(* A step of a turn that changes neither the store nor the summarizers.       *)
LEMMA SnapMoves ==
    ASSUME SsIInv, UNCHANGED <<store, summaryVars, ssGhosts>>, snap' \in [Turns -> Seq(said)]
    PROVE  SsIInv'
  BY HistoryMoves DEF SsIInv, store, ssGhosts

(* Each turn's steps.                                                         *)
LEMMA TurnIInv == ASSUME SsIInv, NEW t \in Turns, TurnStep(t) PROVE SsIInv'
<1>0. history \in Seq(said) /\ snap \in [Turns -> Seq(said)]
  BY DEF SsIInv
<1>1. CASE BuildMessages(t)
  BY <1>0, <1>1, HistoryMoves DEF BuildMessages, store
<1>2. CASE SaveUser(t)
  BY <1>2, AddMoves DEF SaveUser
<1>3. CASE RespondCalls(t)
  BY <1>3, AddMoves DEF RespondCalls
<1>4. CASE SaveResult(t)
  BY <1>4, AddMoves DEF SaveResult
<1>5. CASE Answer(t)
  BY <1>5, AddMoves DEF Answer
<1>6. CASE ChatFails(t)
  BY <1>0, <1>6, SnapMoves DEF ChatFails
<1>7. CASE ContextError(t)
  <2>1. snap' = snap \/ snap' = [snap EXCEPT ![t] = history]
    BY <1>7 DEF ContextError
  <2>2. snap' \in [Turns -> Seq(said)]
    BY <1>0, <2>1
  <2>3. QED
    BY <1>7, <2>2, SnapMoves DEF ContextError
<1>8. CASE SetCompressed(t)
  <2>1. /\ history' = Compress(snap[t]) /\ snap' = [snap EXCEPT ![t] = <<>>]
        /\ gone' = gone \cup ((ToSet(history) \cup ToSet(snap[t])) \ ToSet(history'))
        /\ UNCHANGED <<summary, summaryVars, said, dropped>>
    BY <1>8 DEF SetCompressed
  <2>2. history' \in Seq(said')
    BY <1>0, <2>1, CompressKeeps
  <2>3. snap' \in [Turns -> Seq(said')]
    <3>1. <<>> \in Seq(said)
      OBVIOUS
    <3>2. QED
      BY <1>0, <2>1, <3>1
  <2>4. gone \subseteq gone' /\ ToSet(history) \subseteq ToSet(history') \cup gone'
    BY <2>1
  <2>5. QED
    BY <2>1, <2>2, <2>3, <2>4, HistoryMoves
<1>9. CASE Rebuild(t)
  BY <1>0, <1>9, SnapMoves DEF Rebuild
<1>10. QED
  BY <1>1, <1>2, <1>3, <1>4, <1>5, <1>6, <1>7, <1>8, <1>9 DEF TurnStep

(* The summarizer of turn t, which is the one at work, goes on to stage at.   *)
LEMMA SummarizerMoves ==
    ASSUME SsIInv, NEW t \in Turns, DOMAIN summarizer' = Turns, DOMAIN summarizer'[t] = {"at", "batch", "text"},
           \A u \in Turns \ {t} : summarizer'[u] = summarizer[u] /\ ~Working(u),
           Working(t)' => summarizing', Honest(t)', KeptOrSummarized',
           history' \in Seq(said'), snap' \in [Turns -> Seq(said')]
    PROVE  SsIInv'
<1>1. \A u \in Turns \ {t} : ~Working(u)' /\ DOMAIN summarizer'[u] = {"at", "batch", "text"}
  BY DEF SsIInv, Working
<1>2. \A u \in Turns \ {t} : summarizer'[u].at = "idle"
  BY <1>1 DEF Working
<1>3. QED
  BY <1>1, <1>2 DEF SsIInv, Working, Honest

(* Each summarizer's steps.                                                   *)
LEMMA SummarizerIInv ==
    ASSUME SsIInv, NEW t \in Turns, SummarizerStep(t) \/ MaybeSummarize(t)
    PROVE  SsIInv'
<1>0. /\ history \in Seq(said) /\ snap \in [Turns -> Seq(said)] /\ DOMAIN summarizer = Turns
      /\ DOMAIN summarizer[t] = {"at", "batch", "text"} /\ Honest(t) /\ KeptOrSummarized
      /\ Working(t) => summarizing /\ \A u \in Turns \ {t} : ~Working(u)
  BY DEF SsIInv, Honest
<1>1. CASE MaybeSummarize(t)
  <2>1. CASE UNCHANGED summaryVars
    BY <1>0, <1>1, <2>1, SnapMoves DEF MaybeSummarize
  <2>2. CASE ~summarizing /\ summarizing' = TRUE /\ summarizer' = [summarizer EXCEPT ![t].at = "read"]
    <3>1. \A u \in Turns \ {t} : ~Working(u) /\ summarizer'[u] = summarizer[u]
      BY <1>0, <2>2 DEF SsIInv
    <3>2. /\ DOMAIN summarizer' = Turns /\ DOMAIN summarizer'[t] = {"at", "batch", "text"}
          /\ summarizer'[t].at = "read"
      BY <1>0, <2>2
    <3>3. UNCHANGED <<history, said, snap, summary, gone, dropped>>
      BY <1>1 DEF MaybeSummarize, store, ssGhosts
    <3>4. KeptOrSummarized'
      BY <1>0, <3>3 DEF KeptOrSummarized
    <3>5. QED
      BY <1>0, <2>2, <3>1, <3>2, <3>3, <3>4, SummarizerMoves DEF Honest
  <2>3. QED
    BY <1>1, <2>1, <2>2 DEF MaybeSummarize
<1>2. ASSUME summarizer' = [summarizer EXCEPT ![t] = SsIdle], Working(t), KeptOrSummarized',
             history' \in Seq(said'), snap' = snap, said' = said
      PROVE  SsIInv'
  <2>1. /\ DOMAIN summarizer' = Turns /\ DOMAIN summarizer'[t] = {"at", "batch", "text"}
        /\ summarizer'[t].at = "idle"
        /\ \A u \in Turns \ {t} : summarizer'[u] = summarizer[u]
    BY <1>0, <1>2 DEF SsIdle
  <2>2. QED
    BY <1>0, <1>2, <2>1, SummarizerMoves DEF Honest, Working
<1>3. CASE ReadHistory(t)
  <2>1. Working(t) /\ UNCHANGED <<history, said, snap, summary, gone, dropped>>
    BY <1>3 DEF ReadHistory, Working, store, turnVars, ssGhosts
  <2>2. KeptOrSummarized'
    BY <1>0, <2>1 DEF KeptOrSummarized
  <2>3. CASE SummarizerDone(t)
    BY <1>0, <1>2, <2>1, <2>2, <2>3 DEF SummarizerDone
  <2>4. ASSUME NEW b, summarizer' = [summarizer EXCEPT ![t].at = "prior", ![t].batch = b],
               UNCHANGED summarizing
        PROVE  SsIInv'
    <3>1. /\ DOMAIN summarizer' = Turns /\ DOMAIN summarizer'[t] = {"at", "batch", "text"}
          /\ summarizer'[t].at = "prior"
          /\ \A u \in Turns \ {t} : summarizer'[u] = summarizer[u]
      BY <1>0, <2>4
    <3>2. QED
      BY <1>0, <2>1, <2>2, <2>4, <3>1, SummarizerMoves DEF Honest
  <2>5. QED
    BY <1>3, <2>3, <2>4 DEF ReadHistory
<1>4. CASE ReadSummary(t)
  <2> DEFINE text == Summarized(summarizer[t].batch, summary)
  <2>1. Working(t) /\ UNCHANGED <<history, said, snap, summary, gone, dropped, summarizing>>
    BY <1>4 DEF ReadSummary, Working, store, turnVars, ssGhosts
  <2>2. KeptOrSummarized'
    BY <1>0, <2>1 DEF KeptOrSummarized
  <2>3. summarizer' = [summarizer EXCEPT ![t].at = "set", ![t].text = text]
    BY <1>4 DEF ReadSummary
  <2>4. /\ ToSet(summarizer[t].batch) \subseteq text
        /\ Len(summarizer[t].batch) > MaxPart \/ summary \subseteq text
    <3>1. /\ ToSet(summarizer[t].batch) \subseteq text
          /\ Len(summarizer[t].batch) <= MaxPart => summary \subseteq text
      BY DEF Summarized
    <3>2. CASE Len(summarizer[t].batch) <= MaxPart
      BY <3>1, <3>2
    <3>3. CASE ~(Len(summarizer[t].batch) <= MaxPart)
      BY <3>1, <3>3, SessionAssumption
    <3>4. QED
      BY <3>2, <3>3
  <2> HIDE DEF text
  <2>5. /\ DOMAIN summarizer' = Turns /\ DOMAIN summarizer'[t] = {"at", "batch", "text"}
        /\ summarizer'[t].at = "set" /\ summarizer'[t].text = text
        /\ summarizer'[t].batch = summarizer[t].batch
        /\ \A u \in Turns \ {t} : summarizer'[u] = summarizer[u]
    BY <1>0, <2>3
  <2>6. Honest(t)'
    BY <2>1, <2>4, <2>5 DEF Honest
  <2>7. QED
    BY <1>0, <2>1, <2>2, <2>5, <2>6, SummarizerMoves
<1>5. CASE SetSummary(t)
  <2>1. /\ Working(t) /\ UNCHANGED <<history, said, snap, gone, summarizing>>
        /\ summarizer[t].at = "set" /\ summary' = summarizer[t].text
        /\ dropped' = dropped \cup (IF Len(summarizer[t].batch) > MaxPart THEN summary ELSE {})
        /\ summarizer' = [summarizer EXCEPT ![t].at = "truncate"]
    BY <1>5 DEF SetSummary, Working, turnVars
  <2>2. summary \subseteq summary' \cup dropped'
    BY <1>0, <2>1 DEF Honest
  <2>3. KeptOrSummarized'
    BY <1>0, <2>1, <2>2 DEF KeptOrSummarized
  <2>4. /\ DOMAIN summarizer' = Turns /\ DOMAIN summarizer'[t] = {"at", "batch", "text"}
        /\ summarizer'[t].at = "truncate" /\ summarizer'[t].batch = summarizer[t].batch
        /\ \A u \in Turns \ {t} : summarizer'[u] = summarizer[u]
    BY <1>0, <2>1
  <2>5. Honest(t)'
    BY <1>0, <2>1, <2>4 DEF Honest
  <2>6. QED
    BY <1>0, <2>1, <2>3, <2>4, <2>5, SummarizerMoves
<1>6. CASE TruncateHistory(t)
  <2>1. /\ Working(t) /\ UNCHANGED <<summary, said, snap, dropped>> /\ summarizer[t].at = "truncate"
        /\ gone' = gone \cup (ToSet(history) \ (ToSet(history') \cup ToSet(summarizer[t].batch)))
        /\ summarizer' = [summarizer EXCEPT ![t] = SsIdle]
    BY <1>6 DEF TruncateHistory, Working, turnVars, SummarizerDone
  <2>2. KeptOrSummarized'
    BY <1>0, <2>1 DEF KeptOrSummarized, Honest
  <2>3. history' \in Seq(said')
    <3>1. CASE history' = history
      BY <1>0, <2>1, <3>1
    <3>2. CASE ~(Len(history) <= 4) /\ history' = SubSeq(history, Len(history) - 3, Len(history))
      <4>1. Len(history) \in Nat /\ Len(history) > 4 /\ \A i \in 1..Len(history) : history[i] \in said
        BY <1>0, <3>2
      <4>2. Len(history) - 3 \in Nat /\ Len(history) - 3 >= 1
        BY <4>1
      <4>3. \A i \in (Len(history) - 3)..Len(history) : history[i] \in said
        BY <4>1, <4>2
      <4>4. QED
        BY <1>0, <2>1, <3>2, <4>1, <4>2, <4>3, SubSeqProperties
    <3>3. QED
      BY <1>6, <3>1, <3>2 DEF TruncateHistory
  <2>4. QED
    BY <1>2, <2>1, <2>2, <2>3
<1>7. QED
  BY <1>1, <1>3, <1>4, <1>5, <1>6 DEF SummarizerStep

(* Every step preserves it.                                                   *)
LEMMA SsStepIInv == SsIInv /\ [SsNext]_ssVars => SsIInv'
<1> SUFFICES ASSUME SsIInv, [SsNext]_ssVars PROVE SsIInv'
  OBVIOUS
<1>0. /\ history \in Seq(said) /\ snap \in [Turns -> Seq(said)] /\ KeptOrSummarized
      /\ \A s : <<>> \in Seq(s)
  BY DEF SsIInv
<1>1. CASE ClearHistory
  <2>1. /\ history' = <<>> /\ gone' = gone \cup said
        /\ UNCHANGED <<summary, summaryVars, said, dropped, snap>>
    BY <1>1 DEF ClearHistory, turnVars
  <2>2. ToSet(history) \subseteq said
    BY <1>0 DEF ToSet
  <2>3. QED
    BY <1>0, <2>1, <2>2, HistoryMoves
<1>2. CASE ClearSummary
  <2>1. /\ summary' = {} /\ gone' = gone \cup summary
        /\ UNCHANGED <<history, said, snap, summarizer, summarizing, dropped>>
    BY <1>2 DEF ClearSummary, turnVars, summaryVars
  <2>2. KeptOrSummarized'
    BY <1>0, <2>1 DEF KeptOrSummarized
  <2>3. QED
    BY <2>1, <2>2 DEF SsIInv, Working
<1>3. CASE Restart
  <2>1. /\ UNCHANGED <<history, summary, said, gone, dropped>>
        /\ snap' = [t \in Turns |-> <<>>] /\ summarizer' = [t \in Turns |-> SsIdle]
    BY <1>3 DEF Restart, store, ssGhosts
  <2>2. KeptOrSummarized'
    BY <1>0, <2>1 DEF KeptOrSummarized
  <2>3. snap' \in [Turns -> Seq(said')]
    BY <1>0, <2>1
  <2>4. \A t \in Turns : /\ summarizer'[t].at = "idle"
                         /\ DOMAIN summarizer'[t] = {"at", "batch", "text"}
    BY <2>1 DEF SsIdle
  <2>5. QED
    BY <1>0, <2>1, <2>2, <2>3, <2>4 DEF SsIInv, Working
<1>4. CASE UNCHANGED ssVars
  BY <1>0, <1>4, SnapMoves DEF ssVars, turnVars
<1>5. QED
  BY <1>1, <1>2, <1>3, <1>4, TurnIInv, SummarizerIInv DEF SsNext, Terminating

(* It holds at the start.                                                     *)
LEMMA SsStarts == SsInit => SsIInv
<1> SUFFICES ASSUME SsInit PROVE SsIInv
  OBVIOUS
<1>1. \A s : <<>> \in Seq(s)
  OBVIOUS
<1>2. /\ history \in Seq(said) /\ snap \in [Turns -> Seq(said)] /\ said = {}
      /\ summarizer = [t \in Turns |-> SsIdle]
  BY <1>1 DEF SsInit
<1>3. \A t \in Turns : /\ summarizer[t].at = "idle"
                       /\ DOMAIN summarizer[t] = {"at", "batch", "text"}
  BY <1>2 DEF SsIdle
<1>4. QED
  BY <1>2, <1>3 DEF SsIInv, Working, KeptOrSummarized

\* However turns, compressions, the summarizer, clears and restarts overlap, what
\* was said is in the history or in the summary unless it is known to be gone.
THEOREM NothingIsForgotten == SsSpec => []KeptOrSummarized
<1>1. SsIInv => KeptOrSummarized
  BY DEF SsIInv
<1>2. QED
  BY <1>1, SsStarts, SsStepIInv, PTL DEF SsSpec

-----------------------------------------------------------------------------
(***************************************************************************)
(* The types of the session, on the way to what a provider is shown: with  *)
(* SsIInv, which says that the history and the snapshots are of messages   *)
(* said, they are inductive.                                               *)
(***************************************************************************)
TurnRecords ==
    [at : {"start", "saveUser", "chat", "tools", "reply", "maybeSummarize", "compress", "rebuild", "done"},
     step : 0..MaxSteps, due : Seq(Messages), retry : 0..MaxRetries]
Summarizers ==
    [at : {"idle", "read", "prior", "set", "truncate"}, batch : Seq(Messages), text : SUBSET Messages]

TurnsTyped ==
    /\ turn \in [Turns -> TurnRecords]
    /\ \A t \in Turns : turn[t].at = "tools" => turn[t].due # <<>>

SsTyInv ==
    /\ summary \in SUBSET Messages
    /\ said \in SUBSET Messages /\ gone \in SUBSET Messages /\ dropped \in SUBSET Messages
    /\ TurnsTyped /\ view \in [Turns -> Seq(Messages)]
    /\ summarizer \in [Turns -> Summarizers]
    /\ summarizing \in BOOLEAN /\ clearing \in BOOLEAN /\ overlapped \in BOOLEAN
    /\ clears \in 0..MaxClears /\ restarts \in 0..MaxRestarts

(* History and snapshots are typed with it, and a set of messages they have.  *)
LEMMA HistoryTyped ==
    ASSUME SsIInv, SsTyInv
    PROVE  /\ history \in Seq(Messages) /\ \A t \in Turns : snap[t] \in Seq(Messages)
           /\ ToSet(history) \in SUBSET Messages /\ \A t \in Turns : ToSet(snap[t]) \in SUBSET Messages
<1>1. history \in Seq(Messages)
  BY SaidStays DEF SsIInv, SsTyInv
<1>2. \A t \in Turns : snap[t] \in Seq(Messages)
  BY SaidStays DEF SsIInv, SsTyInv
<1>3. \A s \in Seq(Messages) : ToSet(s) \in SUBSET Messages
  <2>1. \A s \in Seq(Messages) : \A i \in DOMAIN s : s[i] \in Messages
    OBVIOUS
  <2>2. QED
    BY <2>1 DEF ToSet
<1>4. QED
  BY <1>1, <1>2, <1>3

(* The messages turns make.                                                   *)
LEMMA MessagesTyped ==
    /\ \A t \in Turns : User(t) \in Messages /\ Reply(t) \in Messages
    /\ \A t \in Turns, k \in 0..MaxSteps, n \in 1..MaxCalls :
         ToolCalls(t, k, n) \in Messages /\ ToolResult(t, k, n) \in Messages
<1>1. 0 \in 0..MaxSteps /\ 0 \in 0..MaxCalls /\ \A n \in 1..MaxCalls : n \in 0..MaxCalls
  BY SessionAssumption
<1>2. QED
  BY <1>1 DEF User, Reply, ToolCalls, ToolResult, Messages

LEMMA DueTyped ==
    ASSUME NEW t \in Turns, NEW k \in 0..MaxSteps, NEW n \in 1..MaxCalls
    PROVE  [i \in 1..n |-> ToolResult(t, k, i)] \in Seq(Messages)
<1>1. n \in Nat /\ \A i \in 1..n : i \in 1..MaxCalls
  BY SessionAssumption
<1>2. \A i \in 1..n : ToolResult(t, k, i) \in Messages
  BY <1>1, MessagesTyped
<1>3. QED
  BY <1>1, <1>2

(* Each turn's steps keep the types.                                          *)
LEMMA TurnTyped == ASSUME SsIInv, SsTyInv, NEW t \in Turns, TurnStep(t) PROVE SsTyInv'
<1>0. /\ history \in Seq(Messages) /\ \A u \in Turns : snap[u] \in Seq(Messages)
      /\ ToSet(history) \in SUBSET Messages /\ \A u \in Turns : ToSet(snap[u]) \in SUBSET Messages
  BY HistoryTyped
<1>1. /\ turn[t] \in TurnRecords /\ view[t] \in Seq(Messages) /\ turn[t].step \in 0..MaxSteps
      /\ turn[t].due \in Seq(Messages) /\ turn[t].retry \in 0..MaxRetries
      /\ User(t) \in Messages /\ Reply(t) \in Messages
  BY MessagesTyped DEF SsTyInv, TurnsTyped, TurnRecords
<1>2. CASE BuildMessages(t)
  <2>1. Append(Sanitize(history), User(t)) \in Seq(Messages)
    BY <1>0, <1>1, SanitizeAnswers, AppendProperties
  <2>2. view' \in [Turns -> Seq(Messages)]
    BY <1>2, <2>1 DEF BuildMessages, SsTyInv
  <2>3. TurnsTyped'
    BY <1>2 DEF BuildMessages, SsTyInv, TurnsTyped, SsGoto, TurnRecords
  <2>4. QED
    BY <1>2, <2>2, <2>3 DEF BuildMessages, SsTyInv, store, summaryVars, clearVars
<1>3. CASE SaveUser(t)
  <2>1. 1 \in 0..MaxSteps
    BY SessionAssumption
  <2>2. TurnsTyped'
    BY <1>3, <2>1 DEF SaveUser, SsTyInv, TurnsTyped, TurnRecords
  <2>3. QED
    BY <1>1, <1>3, <2>2 DEF SaveUser, SsAdd, SsTyInv, summaryVars, clearVars
<1>4. CASE RespondCalls(t)
  <2> DEFINE due(n) == [i \in 1..n |-> ToolResult(t, turn[t].step, i)]
  <2>1. PICK n \in 1..MaxCalls :
          /\ SsAdd(ToolCalls(t, turn[t].step, n))
          /\ view' = [view EXCEPT ![t] = Append(@, ToolCalls(t, turn[t].step, n))]
          /\ turn' = [turn EXCEPT ![t].at = "tools", ![t].due = due(n)]
    BY <1>4 DEF RespondCalls
  <2>2. due(n) \in Seq(Messages) /\ due(n) # <<>> /\ ToolCalls(t, turn[t].step, n) \in Messages
    <3>1. 1 \in DOMAIN due(n)
      BY SessionAssumption
    <3>2. due(n) \in Seq(Messages) /\ ToolCalls(t, turn[t].step, n) \in Messages
      BY <1>1, DueTyped, MessagesTyped
    <3>3. QED
      BY <3>1, <3>2
  <2> HIDE DEF due
  <2>3. TurnsTyped'
    BY <2>1, <2>2 DEF SsTyInv, TurnsTyped, TurnRecords
  <2>4. view' \in [Turns -> Seq(Messages)]
    BY <1>1, <2>1, <2>2, AppendProperties DEF SsTyInv
  <2>5. QED
    BY <1>4, <2>1, <2>2, <2>3, <2>4 DEF RespondCalls, SsAdd, SsTyInv, summaryVars, clearVars
<1>5. CASE SaveResult(t)
  <2> DEFINE due == turn[t].due
  <2>0. turn[t].due # <<>> /\ turn[t].at = "tools"
    BY <1>5 DEF SaveResult, SsTyInv, TurnsTyped
  <2>1. Head(due) \in Messages /\ Tail(due) \in Seq(Messages) /\ <<>> \in Seq(Messages)
    BY <1>1, <2>0, HeadTailProperties
  <2>2. TurnsTyped'
    <3>1. turn[t].step < MaxSteps => turn[t].step + 1 \in 0..MaxSteps
      BY <1>1, SessionAssumption
    <3>2. 0 \in 0..MaxRetries
      BY SessionAssumption
    <3> DEFINE r == turn[t]
               next == AfterResult(r)
    <3>3. Len(r.due) > 1 => Tail(r.due) # <<>>
      <4> DEFINE d == Tail(r.due)
      <4>1. d \in Seq(Messages) /\ (Len(r.due) > 1 => Len(d) > 0)
        BY <1>1, <2>0, HeadTailProperties
      <4> HIDE DEF d
      <4>2. Len(r.due) > 1 => d # <<>>
        BY <4>1
      <4>3. QED
        BY <4>2 DEF d
    <3>4. next \in TurnRecords /\ (next.at = "tools" => next.due # <<>>)
      BY <1>1, <2>0, <2>1, <3>1, <3>2, <3>3 DEF TurnRecords, AfterResult
    <3>5. turn' = [turn EXCEPT ![t] = next]
      BY <1>5 DEF SaveResult
    <3> HIDE DEF next
    <3>6. QED
      BY <3>4, <3>5 DEF SsTyInv, TurnsTyped
  <2>3. view' \in [Turns -> Seq(Messages)]
    BY <1>1, <1>5, <2>1, AppendProperties DEF SaveResult, SsTyInv
  <2>4. QED
    BY <1>5, <2>1, <2>2, <2>3 DEF SaveResult, SsAdd, SsTyInv, summaryVars, clearVars
<1>6. CASE Answer(t)
  <2>1. TurnsTyped'
    BY <1>6 DEF Answer, SsTyInv, TurnsTyped, SsGoto, TurnRecords
  <2>2. view' \in [Turns -> Seq(Messages)]
    BY <1>6 DEF Answer, SsTyInv
  <2>3. QED
    BY <1>1, <1>6, <2>1, <2>2 DEF Answer, SsAdd, SsTyInv, summaryVars, clearVars
<1>7. CASE ChatFails(t)
  <2>1. TurnsTyped'
    BY <1>7 DEF ChatFails, SsTyInv, TurnsTyped, SsGoto, TurnRecords
  <2>2. view' \in [Turns -> Seq(Messages)]
    BY <1>7 DEF ChatFails, SsTyInv
  <2>3. QED
    BY <1>7, <2>1, <2>2 DEF ChatFails, SsTyInv, store, summaryVars, clearVars, ssGhosts
<1>8. CASE ContextError(t)
  <2>1. turn[t].retry + 1 \in 0..MaxRetries
    BY <1>1, <1>8, SessionAssumption DEF ContextError
  <2>2. TurnsTyped'
    <3> DEFINE r == turn[t]
               next == [r EXCEPT !.at = IF Len(history) <= 4 THEN "rebuild" ELSE "compress",
                                 !.retry = r.retry + 1]
    <3>1. next \in TurnRecords /\ next.at # "tools"
      BY <1>1, <2>1 DEF TurnRecords
    <3>2. turn' = [turn EXCEPT ![t] = next]
      BY <1>8 DEF ContextError
    <3> HIDE DEF next
    <3>3. QED
      BY <3>1, <3>2 DEF SsTyInv, TurnsTyped
  <2>3. QED
    BY <1>8, <2>2 DEF ContextError, SsTyInv, store, summaryVars, clearVars, ssGhosts
<1>9. CASE SetCompressed(t)
  <2>1. TurnsTyped'
    BY <1>9 DEF SetCompressed, SsTyInv, TurnsTyped, SsGoto, TurnRecords
  <2>2. gone' \in SUBSET Messages
    BY <1>0, <1>9 DEF SetCompressed, SsTyInv
  <2>3. QED
    BY <1>9, <2>1, <2>2 DEF SetCompressed, SsTyInv, summaryVars, clearVars
<1>10. CASE Rebuild(t)
  <2>1. TurnsTyped'
    BY <1>10 DEF Rebuild, SsTyInv, TurnsTyped, SsGoto, TurnRecords
  <2>2. view' \in [Turns -> Seq(Messages)]
    BY <1>0, <1>10, SanitizeAnswers DEF Rebuild, SsTyInv
  <2>3. QED
    BY <1>10, <2>1, <2>2 DEF Rebuild, SsTyInv, store, summaryVars, clearVars, ssGhosts
<1>11. QED
  BY <1>2, <1>3, <1>4, <1>5, <1>6, <1>7, <1>8, <1>9, <1>10 DEF TurnStep

(* The messages to be summarized are messages.                                *)
LEMMA ValidTyped ==
    ASSUME NEW S, NEW h \in Seq(S)
    PROVE  Valid(ToSummarize(h)) \in Seq(S)
<1> DEFINE old == ToSummarize(h)
<1>1. old \in Seq(S)
  <2>1. Len(h) \in Nat /\ Len(h) - 4 \in Int /\ \A i \in 1..(Len(h) - 4) : h[i] \in S
    OBVIOUS
  <2>2. QED
    BY <2>1, SubSeqProperties DEF ToSummarize
<1> HIDE DEF old
<1>2. {i \in DOMAIN old : ~IsTool(old[i])} \in SUBSET (1..Len(old))
  BY <1>1
<1>3. Picked(old, {i \in DOMAIN old : ~IsTool(old[i])}) \in Seq(S)
  BY <1>1, <1>2, PickedIs
<1>4. QED
  BY <1>3 DEF Valid, old

(* Each summarizer's steps keep the types.                                    *)
LEMMA SummarizerTyped ==
    ASSUME SsIInv, SsTyInv, NEW t \in Turns, SummarizerStep(t) \/ MaybeSummarize(t)
    PROVE  SsTyInv'
<1>0. /\ history \in Seq(Messages) /\ ToSet(history) \in SUBSET Messages
      /\ summarizer[t] \in Summarizers /\ summarizer[t].batch \in Seq(Messages)
      /\ summarizer[t].text \in SUBSET Messages
      /\ SsIdle \in Summarizers
  BY HistoryTyped DEF SsTyInv, Summarizers, SsIdle
<1>1. CASE MaybeSummarize(t)
  <2>1. TurnsTyped'
    BY <1>1 DEF MaybeSummarize, SsTyInv, TurnsTyped, SsGoto, TurnRecords
  <2>2. summarizer' \in [Turns -> Summarizers] /\ summarizing' \in BOOLEAN
    <3>1. [summarizer[t] EXCEPT !.at = "read"] \in Summarizers
      BY <1>0 DEF Summarizers
    <3>2. CASE UNCHANGED summaryVars
      BY <3>2 DEF SsTyInv, summaryVars
    <3>3. CASE summarizing' = TRUE /\ summarizer' = [summarizer EXCEPT ![t].at = "read"]
      BY <3>1, <3>3 DEF SsTyInv
    <3>4. QED
      BY <1>1, <3>2, <3>3 DEF MaybeSummarize
  <2>3. QED
    BY <1>1, <2>1, <2>2 DEF MaybeSummarize, SsTyInv, store, clearVars, ssGhosts
<1>2. CASE ReadHistory(t)
  <2> DEFINE batch == Valid(ToSummarize(history))
  <2>1. batch \in Seq(Messages)
    BY <1>0, ValidTyped
  <2> HIDE DEF batch
  <2>2. \/ SummarizerDone(t)
        \/ /\ summarizer' = [summarizer EXCEPT ![t].at = "prior", ![t].batch = batch]
           /\ UNCHANGED summarizing
    BY <1>2 DEF ReadHistory, batch
  <2>3. summarizer' \in [Turns -> Summarizers] /\ summarizing' \in BOOLEAN
    <3>1. [summarizer[t] EXCEPT !.at = "prior", !.batch = batch] \in Summarizers
      BY <1>0, <2>1 DEF Summarizers
    <3>2. CASE SummarizerDone(t)
      BY <1>0, <3>2 DEF SummarizerDone, SsTyInv
    <3>3. CASE UNCHANGED summarizing /\ summarizer' = [summarizer EXCEPT ![t].at = "prior", ![t].batch = batch]
      BY <3>1, <3>3 DEF SsTyInv
    <3>4. QED
      BY <2>2, <3>2, <3>3
  <2>4. QED
    BY <1>2, <2>3 DEF ReadHistory, SsTyInv, TurnsTyped, store, turnVars, clearVars, ssGhosts
<1>3. CASE ReadSummary(t)
  <2> DEFINE text == Summarized(summarizer[t].batch, summary)
  <2>1. text \in SUBSET Messages
    <3>1. ToSet(summarizer[t].batch) \in SUBSET Messages
      BY <1>0 DEF ToSet
    <3>2. QED
      BY <3>1 DEF Summarized, SsTyInv
  <2> HIDE DEF text
  <2>2. summarizer' = [summarizer EXCEPT ![t].at = "set", ![t].text = text]
    BY <1>3 DEF ReadSummary, text
  <2>3. summarizer' \in [Turns -> Summarizers]
    BY <2>1, <2>2 DEF SsTyInv, Summarizers
  <2>4. QED
    BY <1>3, <2>3 DEF ReadSummary, SsTyInv, TurnsTyped, store, turnVars, clearVars, ssGhosts
<1>4. CASE SetSummary(t)
  <2>1. summarizer' \in [Turns -> Summarizers]
    BY <1>4 DEF SetSummary, SsTyInv, Summarizers
  <2>2. summary' \in SUBSET Messages /\ dropped' \in SUBSET Messages
    BY <1>0, <1>4 DEF SetSummary, SsTyInv
  <2>3. QED
    BY <1>4, <2>1, <2>2 DEF SetSummary, SsTyInv, TurnsTyped, turnVars, clearVars
<1>5. CASE TruncateHistory(t)
  <2>1. summarizer' \in [Turns -> Summarizers] /\ summarizing' \in BOOLEAN
    BY <1>0, <1>5 DEF TruncateHistory, SummarizerDone, SsTyInv
  <2>2. gone' \in SUBSET Messages
    BY <1>0, <1>5 DEF TruncateHistory, SsTyInv
  <2>3. QED
    BY <1>5, <2>1, <2>2 DEF TruncateHistory, SsTyInv, TurnsTyped, turnVars, clearVars
<1>6. QED
  BY <1>1, <1>2, <1>3, <1>4, <1>5 DEF SummarizerStep

(* Every step keeps the types.                                                *)
LEMMA SsStepTyped == SsIInv /\ SsTyInv /\ [SsNext]_ssVars => SsTyInv'
<1> SUFFICES ASSUME SsIInv, SsTyInv, [SsNext]_ssVars PROVE SsTyInv'
  OBVIOUS
<1>1. CASE ClearHistory
  <2>1. clears' \in 0..MaxClears
    BY <1>1, SessionAssumption DEF ClearHistory, SsTyInv
  <2>2. QED
    BY <1>1, <2>1 DEF ClearHistory, SsTyInv, TurnsTyped, turnVars, summaryVars
<1>2. CASE ClearSummary
  BY <1>2 DEF ClearSummary, SsTyInv, TurnsTyped, turnVars, summaryVars
<1>3. CASE Restart
  <2>1. restarts' \in 0..MaxRestarts
    BY <1>3, SessionAssumption DEF Restart, SsTyInv
  <2>2. TurnsTyped'
    <3>1. \A t \in Turns : /\ turn[t] \in TurnRecords /\ [turn[t] EXCEPT !.at = "done"] \in TurnRecords
                           /\ [turn[t] EXCEPT !.at = "done"].at = "done"
      BY DEF SsTyInv, TurnsTyped, TurnRecords
    <3>2. QED
      BY <1>3, <3>1 DEF Restart, SsTyInv, TurnsTyped
  <2>3. view' \in [Turns -> Seq(Messages)]
    BY <1>3 DEF Restart
  <2>4. summarizer' \in [Turns -> Summarizers]
    BY <1>3 DEF Restart, SsIdle, Summarizers
  <2>5. QED
    BY <1>3, <2>1, <2>2, <2>3, <2>4 DEF Restart, SsTyInv, store, ssGhosts
<1>4. CASE UNCHANGED ssVars
  BY <1>4 DEF SsTyInv, TurnsTyped, ssVars, store, turnVars, summaryVars, clearVars, ssGhosts
<1>5. QED
  BY <1>1, <1>2, <1>3, <1>4, TurnTyped, SummarizerTyped DEF SsNext, Terminating

-----------------------------------------------------------------------------
(***************************************************************************)
(* What is shown is complete.  The order a history is in (WellOrdered) is  *)
(* kept by compression, truncation and clearing, and by a turn that is     *)
(* alone, also for the results it still has to save.                       *)
(***************************************************************************)
(* Concatenation and the end of a sequence, position by position.             *)
LEMMA Joined ==
    ASSUME NEW S, NEW a \in Seq(S), NEW b \in Seq(S)
    PROVE  /\ a \o b \in Seq(S) /\ Len(a \o b) = Len(a) + Len(b)
           /\ \A i \in 1..Len(a) : (a \o b)[i] = a[i]
           /\ \A i \in 1..Len(b) : (a \o b)[Len(a) + i] = b[i]
<1> DEFINE n == Len(a)
           m == Len(b)
<1>1. n \in Nat /\ m \in Nat
  OBVIOUS
<1>2. /\ a \o b \in Seq(S) /\ Len(a \o b) = n + m
      /\ \A i \in 1..(n + m) : (a \o b)[i] = IF i <= n THEN a[i] ELSE b[i - n]
  BY ConcatProperties
<1> HIDE DEF n, m
<1>3. \A i \in 1..n : i \in 1..(n + m) /\ i <= n
  BY <1>1
<1>4. \A i \in 1..m : n + i \in 1..(n + m) /\ ~(n + i <= n) /\ (n + i) - n = i
  BY <1>1
<1>5. /\ \A i \in 1..n : (a \o b)[i] = a[i]
      /\ \A i \in 1..m : (a \o b)[n + i] = b[i]
  BY <1>1, <1>2, <1>3, <1>4
<1>6. QED
  BY <1>2, <1>5 DEF n, m

LEMMA CutOff ==
    ASSUME NEW S, NEW h \in Seq(S), NEW k \in Nat, NEW n \in Nat, k <= n, n <= Len(h)
    PROVE  /\ SubSeq(h, k + 1, n) \in Seq(S) /\ Len(SubSeq(h, k + 1, n)) = n - k
           /\ \A i \in 1..(n - k) : SubSeq(h, k + 1, n)[i] = h[i + k]
<1>1. \A i \in (k + 1)..n : h[i] \in S
  OBVIOUS
<1> DEFINE s == SubSeq(h, k + 1, n)
<1>2. /\ s \in Seq(S) /\ Len(s) = IF k + 1 <= n THEN n - (k + 1) + 1 ELSE 0
      /\ \A i \in 1..(n - (k + 1) + 1) : s[i] = h[(k + 1) + i - 1]
  BY <1>1, SubSeqProperties
<1> HIDE DEF s
<1>3. n - (k + 1) + 1 = n - k /\ (~(k + 1 <= n) => n - k = 0) /\ \A i \in 1..(n - k) : (k + 1) + i - 1 = i + k
  OBVIOUS
<1>4. QED
  BY <1>2, <1>3 DEF s

(* What forceCompression makes of a long history: its first message and its   *)
(* end.                                                                       *)
LEMMA CompressIs ==
    ASSUME NEW S, NEW h \in Seq(S), ~(Len(h) <= 4)
    PROVE  \E d \in Nat : /\ Compress(h) \in Seq(S) /\ Len(h) = Len(Compress(h)) + d
                          /\ Compress(h) # <<>> => Compress(h)[1] = h[1]
                          /\ \A i \in 2..Len(Compress(h)) : Compress(h)[i] = h[i + d]
<1> DEFINE L == Len(h)
           conv == SubSeq(h, 2, L - 1)
           k == SplitPoint(conv)
           rest == SubSeq(conv, k + 1, Len(conv))
           a == <<Head(h)>>
           b == <<Last(h)>>
<1>1. L \in Nat /\ L > 4 /\ DOMAIN h = 1..L /\ h[1] \in S /\ h[L] \in S
  OBVIOUS
<1>2. /\ a \in Seq(S) /\ Len(a) = 1 /\ a[1] = h[1]
      /\ b \in Seq(S) /\ Len(b) = 1 /\ b[1] = h[L]
  BY <1>1 DEF Last
<1>3. Compress(h) = (a \o rest) \o b
  BY Zenon DEF Compress
<1> HIDE DEF a, b
<1>4. conv \in Seq(S) /\ Len(conv) = L - 2 /\ \A i \in 1..(L - 2) : conv[i] = h[i + 1]
  <2> HIDE DEF L
  <2>1. 1 \in Nat /\ L - 1 \in Nat /\ 1 <= L - 1 /\ L - 1 <= Len(h) /\ 1 + 1 = 2 /\ (L - 1) - 1 = L - 2
    BY <1>1 DEF L
  <2>2. QED
    BY <2>1, CutOff
<1> HIDE DEF conv, L
<1>5. PICK d \in Nat : /\ d <= L - 2 /\ rest \in Seq(S) /\ Len(rest) = L - 2 - d
                       /\ \A i \in 1..(L - 2 - d) : rest[i] = conv[i + d]
  <2>1. k \in Nat
    BY <1>4, SplitsSomewhere
  <2> HIDE DEF k
  <2>2. CASE k <= L - 2
    BY <1>1, <1>4, <2>1, <2>2, CutOff
  <2>3. CASE ~(k <= L - 2)
    <3>1. rest = <<>>
      BY <1>1, <1>4, <2>1, <2>3, SubSeqEmpty
    <3> HIDE DEF rest
    <3>2. L - 2 \in Nat /\ L - 2 - (L - 2) = 0 /\ rest \in Seq(S) /\ Len(rest) = 0
      BY <1>1, <3>1
    <3>3. QED
      BY <3>2
  <2>4. QED
    BY <2>2, <2>3
<1> HIDE DEF rest
<1> DEFINE m == L - 2 - d
<1>6. m \in Nat /\ \A i \in 1..m : rest[i] = h[i + d + 1]
  <2>1. m \in Nat /\ \A i \in 1..m : i + d \in 1..(L - 2)
    BY <1>1, <1>5
  <2>2. QED
    BY <1>4, <1>5, <2>1
<1>7. /\ a \o rest \in Seq(S) /\ Len(a \o rest) = 1 + m /\ (a \o rest)[1] = h[1]
      /\ \A i \in 1..m : (a \o rest)[1 + i] = h[i + d + 1]
  <2>1. Len(rest) = m
    BY <1>5
  <2> HIDE DEF m
  <2>2. /\ a \o rest \in Seq(S) /\ Len(a \o rest) = Len(a) + Len(rest)
        /\ \A i \in 1..Len(a) : (a \o rest)[i] = a[i]
        /\ \A i \in 1..Len(rest) : (a \o rest)[Len(a) + i] = rest[i]
    <3>1. a \in Seq(S) /\ rest \in Seq(S)
      BY <1>2, <1>5
    <3>2. QED
      BY <3>1, Joined
  <2>3. 1 \in 1..Len(a)
    BY <1>2
  <2> DEFINE c == a \o rest
  <2>4. /\ c \in Seq(S) /\ Len(c) = Len(a) + Len(rest) /\ \A i \in 1..Len(a) : c[i] = a[i]
        /\ \A i \in 1..Len(rest) : c[Len(a) + i] = rest[i]
    BY Zenon, <2>2
  <2> HIDE DEF c
  <2>5. c \in Seq(S) /\ Len(c) = 1 + m /\ c[1] = h[1] /\ \A i \in 1..m : c[1 + i] = h[i + d + 1]
    BY <1>2, <1>6, <2>1, <2>3, <2>4
  <2>6. QED
    BY <2>5 DEF c
<1> DEFINE c == a \o rest
           g == c \o b
<1> HIDE DEF c, m
<1>8. c \in Seq(S) /\ Len(c) = 1 + m /\ c[1] = h[1] /\ \A i \in 1..m : c[1 + i] = h[i + d + 1]
  BY <1>7 DEF c
<1>9. /\ g \in Seq(S) /\ Len(g) = (1 + m) + 1 /\ \A i \in 1..(1 + m) : g[i] = c[i]
      /\ g[(1 + m) + 1] = h[L]
  <2>1. /\ g \in Seq(S) /\ Len(g) = Len(c) + Len(b)
        /\ \A i \in 1..Len(c) : g[i] = c[i]
        /\ \A i \in 1..Len(b) : g[Len(c) + i] = b[i]
    <3>1. c \in Seq(S) /\ b \in Seq(S)
      BY <1>2, <1>8
    <3>2. QED
      BY <3>1, Joined
  <2> HIDE DEF g
  <2>2. Len(c) = 1 + m /\ Len(b) = 1 /\ 1 \in 1..Len(b)
    BY <1>2, <1>8
  <2>3. QED
    BY <1>2, <2>1, <2>2
<1> HIDE DEF g
<1>10. L = Len(g) + d
  BY <1>1, <1>5, <1>9 DEF m
<1>11. g[1] = h[1]
  BY <1>6, <1>8, <1>9
<1>12. ASSUME NEW i \in 2..(2 + m) PROVE g[i] = h[i + d]
  <2>1. CASE i = 2 + m
    <3>1. i = (1 + m) + 1 /\ i + d = L
      BY <1>1, <1>5, <1>6, <2>1 DEF m
    <3>2. QED
      BY <1>9, <3>1
  <2>2. CASE i # 2 + m
    <3>1. i - 1 \in 1..m /\ 1 + (i - 1) = i /\ i \in 1..(1 + m) /\ (i - 1) + d + 1 = i + d
      BY <1>5, <1>6, <2>2
    <3>2. QED
      BY <1>8, <1>9, <3>1
  <2>3. QED
    BY <2>1, <2>2
<1>13. Len(g) = 2 + m
  BY <1>6, <1>9
<1>14. Compress(h) = g
  BY <1>3 DEF g, c
<1>15. QED
  BY <1>9, <1>10, <1>11, <1>12, <1>13, <1>14 DEF L

(* It leaves it well ordered.                                                 *)
LEMMA OrderedCompress ==
    ASSUME NEW S, NEW h \in Seq(S), WellOrdered(h)
    PROVE  WellOrdered(Compress(h))
<1>1. CASE Len(h) <= 4
  BY <1>1 DEF Compress
<1>2. CASE ~(Len(h) <= 4)
  BY <1>2, CompressIs, OrderedPart
<1>3. QED
  BY <1>1, <1>2

(* A truncation or a clear leaves the end of it, and of what is due.          *)
LEMMA OrderedEnd ==
    ASSUME NEW S, NEW h \in Seq(S), NEW due \in Seq(S), NEW k \in Nat, k <= Len(h), WellOrdered(h \o due)
    PROVE  WellOrdered(SubSeq(h, k + 1, Len(h)) \o due)
<1> DEFINE n == Len(h)
           m == Len(due)
           g == SubSeq(h, k + 1, n)
           a == g \o due
           b == h \o due
<1>1. n \in Nat /\ m \in Nat /\ k <= n /\ n <= Len(h)
  OBVIOUS
<1>2. g \in Seq(S) /\ Len(g) = n - k /\ \A i \in 1..(n - k) : g[i] = h[i + k]
  <2> HIDE DEF n
  <2>1. QED
    BY <1>1, CutOff
<1> HIDE DEF g
<1>3. /\ b \in Seq(S) /\ Len(b) = n + m /\ \A i \in 1..n : b[i] = h[i]
      /\ \A i \in 1..m : b[n + i] = due[i]
  BY Joined
<1>4. /\ a \in Seq(S) /\ Len(a) = (n - k) + m /\ \A i \in 1..(n - k) : a[i] = g[i]
      /\ \A i \in 1..m : a[(n - k) + i] = due[i]
  <2> DEFINE p == n - k
  <2>1. p = Len(g) /\ m = Len(due) /\ g \in Seq(S)
    BY <1>2
  <2> HIDE DEF p, m
  <2>2. /\ a \in Seq(S) /\ Len(a) = p + m /\ \A i \in 1..p : a[i] = g[i]
        /\ \A i \in 1..m : a[p + i] = due[i]
    BY <2>1, Joined
  <2>3. QED
    BY <2>2 DEF p
<1>5. WellOrdered(b)
  OBVIOUS
<1> HIDE DEF n, m, a, b
<1>6. ASSUME NEW i \in 1..((n - k) + m) PROVE a[i] = b[i + k]
  <2>1. CASE i <= n - k
    <3>1. i \in 1..(n - k) /\ i + k \in 1..n
      BY <1>1, <2>1
    <3>2. QED
      BY <1>2, <1>3, <1>4, <3>1
  <2>2. CASE ~(i <= n - k)
    <3>1. i - (n - k) \in 1..m /\ (n - k) + (i - (n - k)) = i /\ n + (i - (n - k)) = i + k
      BY <1>1, <2>2
    <3>2. a[(n - k) + (i - (n - k))] = due[i - (n - k)] /\ b[n + (i - (n - k))] = due[i - (n - k)]
      BY <1>3, <1>4, <3>1
    <3>3. QED
      BY <3>1, <3>2
  <2>3. QED
    BY <2>1, <2>2
<1>7. Len(b) = Len(a) + k
  BY <1>1, <1>3, <1>4
<1>8. a # <<>> => a[1] = b[1 + k]
  <2>1. a # <<>> => 1 \in 1..Len(a)
    BY <1>4
  <2>2. QED
    BY <1>4, <1>6, <2>1
<1>9. \A i \in 2..Len(a) : a[i] = b[i + k]
  BY <1>4, <1>6
<1>10. WellOrdered(a)
  BY <1>3, <1>4, <1>5, <1>7, <1>8, <1>9, OrderedPart
<1>11. QED
  BY <1>10 DEF a, g, n

(* A call or a result that was said is of a step its turn has reached, and of *)
(* one it has left when its next one will come from the provider.             *)
Asking == {"chat", "compress", "rebuild"}
Reached(m, r) ==
    m.role \in {"call", "tool"} =>
        m.step <= r.step /\ (r.at \in Asking => m.step < r.step)

(* What turn t shows, or will once its results are in: r is its state, v its  *)
(* view, c the history it has read to compress it, h the history of the       *)
(* session, and o says that turns have overlapped.                            *)
TurnShows(t, r, v, c, h, o) ==
    /\ r.at \in {"start", "saveUser"} => r.step = 0
    /\ r.at \in {"saveUser", "chat"} => CallsAnswered(v) /\ (~o => ResultsAnswer(v))
    /\ r.at = "tools" =>
        /\ \A i \in DOMAIN r.due : IsTool(r.due[i]) /\ r.due[i].turn = t /\ r.due[i].step = r.step
        /\ CallsAnswered(v \o r.due)
        /\ ~o => ResultsAnswer(v \o r.due) /\ WellOrdered(h \o r.due)
    /\ r.at = "compress" /\ ~o => WellOrdered(c)

ShownIInv ==
    /\ \A m \in said : Reached(m, turn[m.turn])
    /\ \A t \in Turns : TurnShows(t, turn[t], view[t], snap[t], history, overlapped)
    /\ ~overlapped => /\ WellOrdered(history)
                      /\ \A t, u \in Turns : UnderWay(t) /\ UnderWay(u) => t = u

(* It holds at the start.                                                     *)
LEMMA NothingOrdered == WellOrdered(<<>>)
  BY DEF WellOrdered, CallFirst, HeadOrphans

LEMMA ShownStarts == SsInit => ShownIInv
<1> SUFFICES ASSUME SsInit PROVE ShownIInv
  OBVIOUS
<1>1. \A t \in Turns : turn[t].at = "start" /\ turn[t].step = 0
  BY DEF SsInit
<1>2. \A t \in Turns : TurnShows(t, turn[t], view[t], snap[t], history, overlapped)
  BY <1>1 DEF TurnShows
<1>3. \A t \in Turns : ~UnderWay(t)
  BY <1>1 DEF UnderWay
<1>4. QED
  BY <1>2, <1>3, NothingOrdered DEF SsInit, ShownIInv

(* It implies what the providers see.                                         *)
LEMMA ShownImplies == ShownIInv => ProviderSeesResults /\ ProviderSeesCalls
  BY DEF ShownIInv, TurnShows, ProviderSeesResults, ProviderSeesCalls

(* A step of one turn keeps it, given what it does to this turn, to the       *)
(* history and to what was said.                                              *)
LEMMA OneTurnShows ==
    ASSUME SsTyInv, ShownIInv, NEW t \in Turns,
           \A u \in Turns \ {t} : turn'[u] = turn[u] /\ view'[u] = view[u] /\ snap'[u] = snap[u],
           overlapped => overlapped',
           ~overlapped' => \A u \in Turns \ {t} : ~UnderWay(u),
           turn'[t].step \in Nat, turn[t].step <= turn'[t].step,
           turn'[t].at \in Asking => turn[t].at \in Asking \/ turn[t].step < turn'[t].step,
           \A m \in said' \ said : m.turn = t /\ Reached(m, turn'[t]),
           TurnShows(t, turn'[t], view'[t], snap'[t], history', overlapped'),
           ~overlapped' => WellOrdered(history')
    PROVE  ShownIInv'
<1>1. turn[t].step \in Nat /\ \A m \in said : m.turn \in Turns /\ m.step \in Nat
  BY SessionAssumption DEF SsTyInv, TurnsTyped, TurnRecords, Messages
<1>2. \A u \in Turns \ {t} : turn'[u] = turn[u]
  OBVIOUS
<1>3. ASSUME NEW m \in said' PROVE Reached(m, turn'[m.turn])
  <2>1. CASE m \in said /\ m.turn = t
    <3>1. Reached(m, turn[t]) /\ m.step \in Nat
      BY <1>1, <2>1 DEF ShownIInv
    <3>2. Reached(m, turn'[t])
      BY <1>1, <3>1 DEF Reached
    <3>3. QED
      BY <2>1, <3>2
  <2>2. CASE m \in said /\ m.turn # t
    BY <1>1, <1>2, <2>2 DEF ShownIInv
  <2>3. CASE m \notin said
    BY <2>3
  <2>4. QED
    BY <2>1, <2>2, <2>3
<1>4. ASSUME NEW u \in Turns PROVE TurnShows(u, turn'[u], view'[u], snap'[u], history', overlapped')
  <2>1. CASE u = t
    BY <2>1
  <2>2. CASE u # t /\ overlapped'
    <3>1. TurnShows(u, turn[u], view[u], snap[u], history, overlapped)
      BY DEF ShownIInv
    <3>2. TurnShows(u, turn[u], view[u], snap[u], history', overlapped')
      BY <2>2, <3>1 DEF TurnShows
    <3>3. QED
      BY <1>2, <2>2, <3>2
  <2>3. CASE u # t /\ ~overlapped'
    <3>1. turn[u].at \in {"start", "done"} /\ turn'[u] = turn[u]
      BY <1>2, <2>3 DEF UnderWay
    <3>2. turn[u].at = "start" => turn[u].step = 0
      BY DEF ShownIInv, TurnShows
    <3>3. QED
      BY <3>1, <3>2 DEF TurnShows
  <2>4. QED
    BY <2>1, <2>2, <2>3
<1>5. ASSUME ~overlapped', NEW u \in Turns, NEW w \in Turns, UnderWay(u)', UnderWay(w)' PROVE u = w
  <2>1. u = t /\ w = t
    BY <1>2, <1>5 DEF UnderWay
  <2>2. QED
    BY <2>1
<1>6. QED
  BY <1>3, <1>4, <1>5 DEF ShownIInv

(* A step that only shortens the history keeps it, if the end stays in order. *)
LEMMA HistoryShows ==
    ASSUME SsTyInv, ShownIInv, UNCHANGED <<turn, view, snap, said, overlapped>>,
           history' \in Seq(Messages), history \in Seq(Messages),
           \A due \in Seq(Messages) : WellOrdered(history \o due) => WellOrdered(history' \o due)
    PROVE  ShownIInv'
<1>1. \A h \in Seq(Messages) : h \o <<>> = h
  BY ConcatEmptySeq
<1>2. <<>> \in Seq(Messages) /\ \A t \in Turns : turn[t].due \in Seq(Messages)
  BY DEF SsTyInv, TurnsTyped, TurnRecords
<1>3. WellOrdered(history) => WellOrdered(history')
  BY <1>1, <1>2
<1>4. ASSUME NEW t \in Turns
      PROVE  TurnShows(t, turn[t], view[t], snap[t], history', overlapped)
  <2>1. TurnShows(t, turn[t], view[t], snap[t], history, overlapped)
    BY DEF ShownIInv
  <2>2. WellOrdered(history \o turn[t].due) => WellOrdered(history' \o turn[t].due)
    BY <1>2
  <2>3. QED
    BY <2>1, <2>2 DEF TurnShows
<1>5. QED
  BY <1>3, <1>4 DEF ShownIInv, UnderWay

LEMMA Alone ==
    ASSUME ShownIInv, NEW t \in Turns, UnderWay(t)
    PROVE  ~overlapped => \A u \in Turns \ {t} : ~UnderWay(u)
BY DEF ShownIInv

(* What turns begin with, call, answer, and give up, one action at a time.    *)
LEMMA BeginShows ==
    ASSUME SsIInv, SsTyInv, ShownIInv, NEW t \in Turns, BuildMessages(t)
    PROVE  ShownIInv'
<1> DEFINE r == [turn[t] EXCEPT !.at = "saveUser"]
           s == Sanitize(history)
           m == User(t)
           v == Append(s, m)
<1>0. history \in Seq(Messages) /\ turn[t] \in TurnRecords /\ view \in [Turns -> Seq(Messages)]
  BY HistoryTyped DEF SsTyInv, TurnsTyped
<1>1. /\ r.at = "saveUser" /\ r.step = turn[t].step /\ r.step \in Nat /\ turn'[t] = r /\ (\A u \in Turns \ {t} : turn'[u] = turn[u])
      /\ view'[t] = v /\ \A u \in Turns \ {t} : view'[u] = view[u] /\ snap'[u] = snap[u]
  BY <1>0, SessionAssumption DEF BuildMessages, SsGoto, SsTyInv, TurnsTyped, TurnRecords
<1>2. m \in Messages /\ ~IsTool(m) /\ ~IsCall(m)
  BY MessagesTyped DEF User, IsTool, IsCall
<1>3. s \in Seq(Messages) /\ CallsAnswered(s) /\ (WellOrdered(history) => ResultsAnswer(s))
  BY <1>0, SanitizeAnswers, SanitizeOrders
<1> HIDE DEF s, m
<1>4. CallsAnswered(v) /\ (WellOrdered(history) => ResultsAnswer(v))
  BY <1>2, <1>3, ShownAppend
<1>5. /\ overlapped => overlapped'
      /\ ~overlapped' => \A u \in Turns \ {t} : ~UnderWay(u)
  BY DEF BuildMessages
<1>6. r.step = 0 /\ (~overlapped' => WellOrdered(history))
  BY <1>1, <1>5 DEF ShownIInv, TurnShows, BuildMessages
<1>7. history' = history /\ said' = said
  BY DEF BuildMessages, store
<1> HIDE DEF r, v
<1>8. TurnShows(t, r, view'[t], snap'[t], history', overlapped')
  BY <1>1, <1>4, <1>6 DEF TurnShows
<1>9. r.at \notin Asking /\ turn[t].step <= r.step
  BY <1>1 DEF Asking
<1>10. QED
  BY <1>1, <1>5, <1>6, <1>7, <1>8, <1>9, OneTurnShows

LEMMA SaveUserShows ==
    ASSUME SsIInv, SsTyInv, ShownIInv, NEW t \in Turns, SaveUser(t)
    PROVE  ShownIInv'
<1> DEFINE r == [turn[t] EXCEPT !.at = "chat", !.step = 1]
           m == User(t)
<1>0. history \in Seq(Messages) /\ turn[t] \in TurnRecords
  BY HistoryTyped DEF SsTyInv, TurnsTyped
<1>1. /\ r.at = "chat" /\ r.step = 1 /\ turn'[t] = r /\ (\A u \in Turns \ {t} : turn'[u] = turn[u]) /\ turn[t].at = "saveUser"
      /\ view' = view /\ snap' = snap /\ overlapped' = overlapped
      /\ history' = Append(history, m) /\ said' = said \cup {m}
  BY <1>0 DEF SaveUser, SsAdd, SsTyInv, TurnsTyped, TurnRecords
<1>2. m \in Messages /\ ~IsTool(m) /\ ~IsCall(m) /\ m.turn = t /\ Reached(m, r)
  BY MessagesTyped DEF User, IsTool, IsCall, Reached
<1> HIDE DEF m, r
<1>3. TurnShows(t, turn[t], view[t], snap[t], history, overlapped)
  BY DEF ShownIInv
<1>4. TurnShows(t, r, view'[t], snap'[t], history', overlapped') /\ turn[t].step = 0
  BY <1>1, <1>3 DEF TurnShows
<1>5. ~overlapped' => WellOrdered(history')
  BY <1>0, <1>1, <1>2, OrderedAppend DEF ShownIInv
<1>6. ~overlapped' => \A u \in Turns \ {t} : ~UnderWay(u)
  BY <1>1, Alone DEF UnderWay
<1>7. QED
  BY <1>1, <1>2, <1>4, <1>5, <1>6, OneTurnShows

LEMMA AnswerShows ==
    ASSUME SsIInv, SsTyInv, ShownIInv, NEW t \in Turns, Answer(t)
    PROVE  ShownIInv'
<1> DEFINE r == [turn[t] EXCEPT !.at = "maybeSummarize"]
           m == Reply(t)
<1>0. history \in Seq(Messages) /\ turn[t] \in TurnRecords /\ view \in [Turns -> Seq(Messages)]
  BY HistoryTyped DEF SsTyInv, TurnsTyped
<1>1. /\ r.at = "maybeSummarize" /\ r.step = turn[t].step /\ r.step \in Nat
      /\ turn'[t] = r /\ (\A u \in Turns \ {t} : turn'[u] = turn[u]) /\ turn[t].at \in {"chat", "reply"}
      /\ \A u \in Turns \ {t} : view'[u] = view[u] /\ snap'[u] = snap[u]
      /\ overlapped' = overlapped /\ history' = Append(history, m) /\ said' = said \cup {m}
  BY <1>0, SessionAssumption DEF Answer, SsAdd, SsGoto, SsTyInv, TurnsTyped, TurnRecords
<1>2. m \in Messages /\ ~IsTool(m) /\ ~IsCall(m) /\ m.turn = t /\ Reached(m, r)
  BY MessagesTyped DEF Reply, IsTool, IsCall, Reached
<1> HIDE DEF m, r
<1>3. TurnShows(t, r, view'[t], snap'[t], history', overlapped') /\ r.at \notin Asking
  BY <1>1 DEF TurnShows, Asking
<1>4. ~overlapped' => WellOrdered(history')
  BY <1>0, <1>1, <1>2, OrderedAppend DEF ShownIInv
<1>5. ~overlapped' => \A u \in Turns \ {t} : ~UnderWay(u)
  BY <1>1, Alone DEF UnderWay
<1>6. QED
  BY <1>1, <1>2, <1>3, <1>4, <1>5, OneTurnShows

LEMMA QuietShows ==
    ASSUME SsIInv, SsTyInv, ShownIInv, NEW t \in Turns, ChatFails(t) \/ MaybeSummarize(t)
    PROVE  ShownIInv'
<1> DEFINE r == [turn[t] EXCEPT !.at = "done"]
<1>0. turn \in [Turns -> TurnRecords] /\ view \in [Turns -> Seq(Messages)]
  BY DEF SsTyInv, TurnsTyped
<1>1. /\ r.at = "done" /\ r.step = turn[t].step /\ r.step \in Nat
      /\ turn'[t] = r /\ (\A u \in Turns \ {t} : turn'[u] = turn[u]) /\ turn[t].at \in {"chat", "maybeSummarize"}
      /\ \A u \in Turns \ {t} : view'[u] = view[u] /\ snap'[u] = snap[u]
      /\ overlapped' = overlapped /\ history' = history /\ said' = said
  <2>1. /\ turn' = [turn EXCEPT ![t].at = "done"] /\ turn[t].at \in {"chat", "maybeSummarize"}
        /\ view' = view \/ view' = [view EXCEPT ![t] = <<>>]
        /\ UNCHANGED <<snap, overlapped, history, said>>
    <3>1. CASE ChatFails(t)
      BY <3>1 DEF ChatFails, SsGoto, store, ssGhosts
    <3>2. CASE MaybeSummarize(t)
      BY <3>2 DEF MaybeSummarize, SsGoto, store, ssGhosts
    <3>3. QED
      BY <3>1, <3>2
  <2>2. r.at = "done" /\ r.step = turn[t].step
    BY <1>0 DEF TurnRecords
  <2>3. turn[t].step \in Nat
    BY <1>0, SessionAssumption DEF TurnRecords
  <2>4. turn'[t] = r /\ \A u \in Turns \ {t} : turn'[u] = turn[u]
    BY <1>0, <2>1
  <2>5. \A u \in Turns \ {t} : view'[u] = view[u]
    BY <1>0, <2>1
  <2> HIDE DEF r
  <2>6. QED
    BY <2>1, <2>2, <2>3, <2>4, <2>5
<1> HIDE DEF r
<1>2. TurnShows(t, r, view'[t], snap'[t], history', overlapped') /\ r.at \notin Asking
  BY <1>1 DEF TurnShows, Asking
<1>3. ~overlapped' => WellOrdered(history')
  BY <1>1 DEF ShownIInv
<1>4. ~overlapped' => \A u \in Turns \ {t} : ~UnderWay(u)
  BY <1>1, Alone DEF UnderWay
<1>5. QED
  BY <1>1, <1>2, <1>3, <1>4, OneTurnShows

(* A turn that retries: the error, the compression and the messages made anew.*)
LEMMA ErrorShows ==
    ASSUME SsIInv, SsTyInv, ShownIInv, NEW t \in Turns, ContextError(t)
    PROVE  ShownIInv'
<1> DEFINE r == turn'[t]
           short == Len(history) <= 4
<1>0. turn \in [Turns -> TurnRecords] /\ snap \in [Turns -> Seq(said)] /\ DOMAIN snap = Turns
  BY DEF SsTyInv, TurnsTyped, SsIInv
<1>1. /\ r.at = (IF short THEN "rebuild" ELSE "compress") /\ r.step = turn[t].step /\ r.step \in Nat
      /\ turn[t].at = "chat" /\ overlapped' = overlapped /\ history' = history /\ said' = said
      /\ ~short => snap'[t] = history
      /\ \A u \in Turns \ {t} : turn'[u] = turn[u] /\ view'[u] = view[u] /\ snap'[u] = snap[u]
  <2> HIDE DEF short
  <2>1. /\ turn[t].at = "chat" /\ UNCHANGED <<history, view, said, overlapped>>
        /\ UNCHANGED snap \/ snap' = [snap EXCEPT ![t] = history]
        /\ ~short => snap' = [snap EXCEPT ![t] = history]
        /\ turn' = [turn EXCEPT ![t].at = IF short THEN "rebuild" ELSE "compress", ![t].retry = @ + 1]
    BY DEF ContextError, store, ssGhosts, short
  <2>2. \A u \in Turns \ {t} : turn'[u] = turn[u] /\ view'[u] = view[u] /\ snap'[u] = snap[u]
    BY <1>0, <2>1
  <2>3. r.at = (IF short THEN "rebuild" ELSE "compress") /\ r.step = turn[t].step
    BY <1>0, <2>1 DEF TurnRecords
  <2>4. turn[t].step \in Nat
    BY <1>0, SessionAssumption DEF TurnRecords
  <2>5. QED
    BY <1>0, <2>1, <2>2, <2>3, <2>4
<1> HIDE DEF r, short
<1>2. ~overlapped => WellOrdered(history)
  BY DEF ShownIInv
<1>3. TurnShows(t, r, view'[t], snap'[t], history', overlapped')
  BY <1>1, <1>2 DEF TurnShows
<1>4. turn[t].at \in Asking
  BY <1>1 DEF Asking
<1>5. ~overlapped => \A u \in Turns \ {t} : ~UnderWay(u)
  BY <1>1, Alone DEF UnderWay
<1>6. QED
  BY <1>1, <1>2, <1>3, <1>4, <1>5, OneTurnShows DEF r

LEMMA CompressShows ==
    ASSUME SsIInv, SsTyInv, ShownIInv, NEW t \in Turns, SetCompressed(t)
    PROVE  ShownIInv'
<1> DEFINE r == turn'[t]
<1>0. turn \in [Turns -> TurnRecords] /\ snap \in [Turns -> Seq(said)] /\ snap[t] \in Seq(Messages)
  BY HistoryTyped DEF SsTyInv, TurnsTyped, SsIInv
<1>1. /\ r.at = "rebuild" /\ r.step = turn[t].step /\ r.step \in Nat
      /\ turn[t].at = "compress" /\ overlapped' = overlapped /\ said' = said
      /\ history' = Compress(snap[t])
      /\ \A u \in Turns \ {t} : turn'[u] = turn[u] /\ view'[u] = view[u] /\ snap'[u] = snap[u]
  BY <1>0, SessionAssumption DEF SetCompressed, SsGoto, TurnRecords
<1> HIDE DEF r
<1>2. ~overlapped => WellOrdered(snap[t])
  BY <1>1 DEF ShownIInv, TurnShows
<1>3. ~overlapped' => WellOrdered(history')
  BY <1>0, <1>1, <1>2, OrderedCompress
<1>4. TurnShows(t, r, view'[t], snap'[t], history', overlapped')
  BY <1>1 DEF TurnShows
<1>5. turn[t].at \in Asking
  BY <1>1 DEF Asking
<1>6. ~overlapped => \A u \in Turns \ {t} : ~UnderWay(u)
  BY <1>1, Alone DEF UnderWay
<1>7. QED
  BY <1>1, <1>3, <1>4, <1>5, <1>6, OneTurnShows DEF r

LEMMA RebuildShows ==
    ASSUME SsIInv, SsTyInv, ShownIInv, NEW t \in Turns, Rebuild(t)
    PROVE  ShownIInv'
<1> DEFINE r == turn'[t]
<1>0. turn \in [Turns -> TurnRecords] /\ view \in [Turns -> Seq(Messages)] /\ history \in Seq(Messages)
  BY HistoryTyped DEF SsTyInv, TurnsTyped
<1>1. /\ r.at = "chat" /\ r.step = turn[t].step /\ r.step \in Nat
      /\ turn[t].at = "rebuild" /\ overlapped' = overlapped /\ said' = said /\ history' = history
      /\ view'[t] = Sanitize(history)
      /\ \A u \in Turns \ {t} : turn'[u] = turn[u] /\ view'[u] = view[u] /\ snap'[u] = snap[u]
  BY <1>0, SessionAssumption DEF Rebuild, SsGoto, TurnRecords, store, ssGhosts
<1> HIDE DEF r
<1>2. ~overlapped => WellOrdered(history)
  BY DEF ShownIInv
<1>3. CallsAnswered(view'[t]) /\ (~overlapped => ResultsAnswer(view'[t]))
  BY <1>0, <1>1, <1>2, SanitizeAnswers, SanitizeOrders
<1>4. TurnShows(t, r, view'[t], snap'[t], history', overlapped')
  BY <1>1, <1>3 DEF TurnShows
<1>5. turn[t].at \in Asking
  BY <1>1 DEF Asking
<1>6. ~overlapped => \A u \in Turns \ {t} : ~UnderWay(u)
  BY <1>1, Alone DEF UnderWay
<1>7. QED
  BY <1>1, <1>2, <1>4, <1>5, <1>6, OneTurnShows DEF r

(* The results of the calls, one by one.                                      *)
LEMMA ResultShows ==
    ASSUME SsIInv, SsTyInv, ShownIInv, NEW t \in Turns, SaveResult(t)
    PROVE  ShownIInv'
<1> DEFINE r == turn'[t]
           due == turn[t].due
           h == Append(history, Head(due))
           v == Append(view[t], Head(due))
<1>0. /\ turn \in [Turns -> TurnRecords] /\ view \in [Turns -> Seq(Messages)]
      /\ history \in Seq(Messages) /\ view[t] \in Seq(Messages)
      /\ turn[t] \in TurnRecords /\ turn[t].step \in Nat /\ due \in Seq(Messages)
  BY HistoryTyped, SessionAssumption DEF SsTyInv, TurnsTyped, TurnRecords
<1>1. /\ r = AfterResult(turn[t]) /\ turn[t].at = "tools"
      /\ overlapped' = overlapped /\ said' = said \cup {Head(due)} /\ history' = h /\ view'[t] = v
      /\ \A u \in Turns \ {t} : turn'[u] = turn[u] /\ view'[u] = view[u] /\ snap'[u] = snap[u]
  BY <1>0 DEF SaveResult, SsAdd
<1>2. due # <<>>
  BY <1>1 DEF SsTyInv, TurnsTyped
<1>3. TurnShows(t, turn[t], view[t], snap[t], history, overlapped)
  BY DEF ShownIInv
<1> DEFINE tl == Tail(due)
<1>4. /\ Head(due) = due[1] /\ 1 \in DOMAIN due /\ Head(due) \in Messages
      /\ tl \in Seq(Messages) /\ Len(tl) = Len(due) - 1 /\ \A i \in DOMAIN tl : i + 1 \in DOMAIN due /\ tl[i] = due[i + 1]
      /\ Len(due) \in Nat
  BY <1>0, <1>2, HeadTailProperties
<1>5. h \o tl = history \o due /\ v \o tl = view[t] \o due /\ h \in Seq(Messages) /\ v \in Seq(Messages)
  BY <1>0, <1>2, <1>4, MovesOne, AppendProperties
<1>6. /\ \A i \in DOMAIN due : IsTool(due[i]) /\ due[i].turn = t /\ due[i].step = turn[t].step
      /\ CallsAnswered(v \o tl)
      /\ ~overlapped => ResultsAnswer(v \o tl) /\ WellOrdered(h \o tl)
  BY <1>1, <1>3, <1>5 DEF TurnShows
<1> HIDE DEF h, v, r, tl
<1>7. ~overlapped => WellOrdered(h)
  <2> DEFINE a == h \o tl
  <2>1. a \in Seq(Messages) /\ Len(h) <= Len(a) /\ \A i \in 1..Len(h) : a[i] = h[i]
    <3>1. a \in Seq(Messages) /\ Len(a) = Len(h) + Len(tl) /\ \A i \in 1..Len(h) : a[i] = h[i]
      <4>1. h \in Seq(Messages) /\ tl \in Seq(Messages)
        BY <1>4, <1>5
      <4>2. QED
        BY <4>1, Joined
    <3> HIDE DEF a
    <3>2. Len(h) \in Nat /\ Len(tl) \in Nat
      BY <1>4, <1>5
    <3>3. QED
      BY <3>1, <3>2
  <2> HIDE DEF a
  <2>2. ~overlapped => WellOrdered(a)
    BY <1>6 DEF a
  <2>3. QED
    BY <1>5, <2>1, <2>2, OrderedPrefix
<1>8. Head(due).turn = t /\ Head(due).step = turn[t].step
  BY <1>4, <1>6
<1>9. CASE Len(due) > 1
  <2>1. r.at = "tools" /\ r.step = turn[t].step /\ r.due = tl
    BY <1>0, <1>1, <1>9 DEF AfterResult, TurnRecords, tl
  <2>2. TurnShows(t, r, v, snap'[t], h, overlapped)
    BY <1>4, <1>6, <2>1 DEF TurnShows
  <2>3. Reached(Head(due), r) /\ r.at \notin Asking
    BY <1>0, <1>8, <2>1 DEF Reached, Asking
  <2>4. QED
    BY <1>0, <1>1, <1>7, <1>8, <2>1, <2>2, <2>3, Alone, OneTurnShows DEF r, UnderWay
<1>10. CASE ~(Len(due) > 1)
  <2>1. tl = <<>>
    BY <1>4, <1>10
  <2>2. v \o <<>> = v
    BY <1>5, ConcatEmptySeq
  <2>3. CallsAnswered(v) /\ (~overlapped => ResultsAnswer(v))
    BY <1>6, <2>1, <2>2
  <2>4. \/ r.at = "chat" /\ r.step = turn[t].step + 1
        \/ r.at = "reply" /\ r.step = turn[t].step
    BY <1>0, <1>1, <1>10 DEF AfterResult, TurnRecords
  <2>5. TurnShows(t, r, v, snap'[t], h, overlapped)
    BY <2>3, <2>4 DEF TurnShows
  <2>6. /\ Reached(Head(due), r) /\ (r.at \in Asking => turn[t].step < r.step)
        /\ r.step \in Nat /\ turn[t].step <= r.step
    BY <1>0, <1>8, <2>4 DEF Reached, Asking
  <2>7. QED
    BY <1>0, <1>1, <1>7, <1>8, <2>5, <2>6, Alone, OneTurnShows DEF r, UnderWay
<1>11. QED
  BY <1>9, <1>10

(* A message, and the results of its calls, after what there is.              *)
CallAdded(S, v, c, due, w, g) ==
    /\ w \in Seq(S) /\ g \in Seq(S)
    /\ Len(w) = Len(v) + 1 /\ Len(g) = Len(v) + 1 + Len(due)
    /\ \A i \in 1..Len(v) : g[i] = v[i]
    /\ g[Len(v) + 1] = c
    /\ \A i \in 1..Len(due) : g[Len(v) + 1 + i] = due[i]
    /\ \A i \in 1..Len(w) : g[i] = w[i]

LEMMA CallAndDue ==
    ASSUME NEW S, NEW v \in Seq(S), NEW c \in S, NEW due \in Seq(S)
    PROVE  CallAdded(S, v, c, due, Append(v, c), Append(v, c) \o due)
<1> DEFINE L == Len(v)
           w == Append(v, c)
           g == w \o due
<1>1. w \in Seq(S) /\ Len(w) = L + 1 /\ w[L + 1] = c /\ \A i \in 1..L : w[i] = v[i]
  OBVIOUS
<1>2. L \in Nat /\ Len(due) \in Nat
  OBVIOUS
<1> HIDE DEF w
<1>3. /\ g \in Seq(S) /\ Len(g) = Len(w) + Len(due)
      /\ \A i \in 1..Len(w) : g[i] = w[i]
      /\ \A i \in 1..Len(due) : g[Len(w) + i] = due[i]
  <2>1. w \in Seq(S)
    BY <1>1
  <2>2. QED
    BY <2>1, Joined
<1> HIDE DEF L, g
<1>4. /\ Len(g) = L + 1 + Len(due) /\ \A i \in 1..L : g[i] = v[i]
      /\ g[L + 1] = c
  BY <1>1, <1>2, <1>3
<1>5. \A i \in 1..Len(due) : g[L + 1 + i] = due[i]
  BY <1>1, <1>3
<1>6. CallAdded(S, v, c, due, w, g)
  BY <1>1, <1>3, <1>4, <1>5 DEF CallAdded, L
<1>7. QED
  BY <1>6 DEF w, g

(* What the results of a call are.                                            *)
LEMMA DueAnswers ==
    ASSUME NEW t \in Turns, NEW k \in 0..MaxSteps, NEW n \in 1..MaxCalls,
           NEW c, c = ToolCalls(t, k, n), NEW due, due = [i \in 1..n |-> ToolResult(t, k, i)]
    PROVE  /\ c \in Messages /\ due \in Seq(Messages) /\ Len(due) = n
           /\ IsCall(c) /\ c.turn = t /\ c.step = k /\ c.n = n /\ n \in Nat \ {0}
           /\ \A i \in 1..n : due[i].n = i /\ Answers(due[i], c)
           /\ \A i \in DOMAIN due : IsTool(due[i]) /\ due[i].turn = t /\ due[i].step = k
<1>1. IsCall(c) /\ c.turn = t /\ c.step = k /\ c.n = n /\ n \in Nat \ {0}
  BY SessionAssumption DEF ToolCalls, IsCall
<1>2. c \in Messages /\ due \in Seq(Messages)
  BY MessagesTyped, DueTyped
<1>3. DOMAIN due = 1..n /\ Len(due) = n /\ \A i \in 1..n : due[i] = ToolResult(t, k, i)
  BY <1>1
<1>4. \A i \in 1..n : IsTool(due[i]) /\ due[i].turn = t /\ due[i].step = k /\ due[i].n = i /\ Answers(due[i], c)
  BY <1>1, <1>3 DEF ToolResult, IsTool, Answers
<1>5. QED
  BY <1>1, <1>2, <1>3, <1>4

LEMMA CallsShow ==
    ASSUME SsIInv, SsTyInv, ShownIInv, NEW t \in Turns, RespondCalls(t)
    PROVE  ShownIInv'
<1> DEFINE r == turn'[t]
           k == turn[t].step
           due(n) == [i \in 1..n |-> ToolResult(t, k, i)]
           call(n) == ToolCalls(t, k, n)
<1>0. /\ turn \in [Turns -> TurnRecords] /\ view \in [Turns -> Seq(Messages)]
      /\ history \in Seq(Messages) /\ history \in Seq(said) /\ view[t] \in Seq(Messages)
      /\ turn[t] \in TurnRecords /\ k \in 0..MaxSteps /\ k \in Nat
  BY HistoryTyped, SessionAssumption DEF SsTyInv, TurnsTyped, TurnRecords, SsIInv
<1>1. PICK n \in 1..MaxCalls :
        /\ SsAdd(call(n))
        /\ view' = [view EXCEPT ![t] = Append(@, call(n))]
        /\ turn' = [turn EXCEPT ![t].at = "tools", ![t].due = due(n)]
  BY DEF RespondCalls
<1> DEFINE c == call(n)
           d == due(n)
           v == Append(view[t], c)
           h == Append(history, c)
<1>2. /\ r.at = "tools" /\ r.step = k /\ r.due = d /\ turn[t].at = "chat"
      /\ overlapped' = overlapped /\ said' = said \cup {c} /\ history' = h /\ view'[t] = v
      /\ \A u \in Turns \ {t} : turn'[u] = turn[u] /\ view'[u] = view[u] /\ snap'[u] = snap[u]
  <2> HIDE DEF d, c
  <2>1. turn' = [turn EXCEPT ![t].at = "tools", ![t].due = d] /\ view' = [view EXCEPT ![t] = Append(@, c)]
    BY <1>1 DEF c, d
  <2>2. r.at = "tools" /\ r.step = k /\ r.due = d /\ \A u \in Turns \ {t} : turn'[u] = turn[u]
    BY <1>0, <2>1 DEF TurnRecords
  <2>3. view'[t] = v /\ \A u \in Turns \ {t} : view'[u] = view[u]
    BY <1>0, <2>1
  <2>4. UNCHANGED snap /\ turn[t].at = "chat" /\ SsAdd(c)
    BY <1>1 DEF RespondCalls, c
  <2>5. QED
    BY <2>2, <2>3, <2>4 DEF SsAdd
<1>3. /\ TurnShows(t, turn[t], view[t], snap[t], history, overlapped)
      /\ ~overlapped => WellOrdered(history)
      /\ \A m \in said : Reached(m, turn[m.turn])
  BY DEF ShownIInv
<1>4. CallsAnswered(view[t]) /\ (~overlapped => ResultsAnswer(view[t]))
  BY <1>2, <1>3 DEF TurnShows
<1>5. /\ c \in Messages /\ d \in Seq(Messages) /\ Len(d) = c.n
      /\ IsCall(c) /\ c.n \in Nat \ {0} /\ c.turn = t /\ c.step = k
      /\ \A i \in 1..c.n : d[i].n = i /\ Answers(d[i], c)
      /\ \A i \in DOMAIN d : IsTool(d[i]) /\ d[i].turn = t /\ d[i].step = k
  <2> HIDE DEF k
  <2>1. c = ToolCalls(t, k, n) /\ d = [i \in 1..n |-> ToolResult(t, k, i)]
    OBVIOUS
  <2> HIDE DEF c, d
  <2>2. k \in 0..MaxSteps
    BY <1>0
  <2>3. QED
    BY <2>1, <2>2, DueAnswers
<1> HIDE DEF c, d
<1> HIDE DEF r, k
<1> DEFINE gv == v \o d
           gh == h \o d
<1>6. CallsAnswered(gv) /\ (~overlapped => ResultsAnswer(gv))
  <2>1. /\ gv \in Seq(Messages)
        /\ Len(gv) = Len(view[t]) + 1 + c.n /\ \A i \in 1..Len(view[t]) : gv[i] = view[t][i]
        /\ gv[Len(view[t]) + 1] = c
        /\ \A i \in 1..c.n : gv[Len(view[t]) + 1 + i] = d[i]
    <3>1. view[t] \in Seq(Messages) /\ c \in Messages /\ d \in Seq(Messages) /\ Len(d) = c.n
      BY <1>0, <1>5
    <3>2. CallAdded(Messages, view[t], c, d, v, gv)
      BY Zenon, <3>1, CallAndDue
    <3> HIDE DEF v, gv
    <3>3. QED
      BY <3>1, <3>2 DEF CallAdded
  <2> HIDE DEF gv
  <2>2. \A i \in 1..c.n : Answers(gv[Len(view[t]) + 1 + i], c) /\ gv[Len(view[t]) + 1 + i].n = i
    BY <1>5, <2>1
  <2>3. QED
    BY <1>0, <1>4, <1>5, <2>1, <2>2, ShownCall
<1>6a. /\ gh \in Seq(Messages) /\ h \in Seq(Messages)
       /\ Len(gh) = Len(history) + 1 + c.n /\ \A i \in 1..Len(history) : gh[i] = history[i]
       /\ gh[Len(history) + 1] = c
       /\ \A i \in 1..c.n : gh[Len(history) + 1 + i] = d[i]
       /\ Len(h) = Len(history) + 1 /\ \A i \in 1..Len(h) : gh[i] = h[i]
  <2>1. history \in Seq(Messages) /\ c \in Messages /\ d \in Seq(Messages) /\ Len(d) = c.n
    BY <1>0, <1>5
  <2>2. CallAdded(Messages, history, c, d, h, gh)
    BY Zenon, <2>1, CallAndDue
  <2> HIDE DEF h, gh
  <2>3. QED
    BY <2>1, <2>2 DEF CallAdded
<1>7. /\ gh \in Seq(Messages) /\ h \in Seq(Messages) /\ IsCall(c) /\ c.n \in Nat \ {0} /\ c.turn = t /\ c.step = k
      /\ Len(gh) = Len(history) + 1 + c.n /\ \A i \in 1..Len(history) : gh[i] = history[i]
      /\ gh[Len(history) + 1] = c
      /\ \A i \in 1..c.n : Answers(gh[Len(history) + 1 + i], c)
      /\ \A i \in DOMAIN d : IsTool(d[i]) /\ d[i].turn = t /\ d[i].step = k
      /\ Len(h) = Len(history) + 1 /\ \A i \in 1..Len(h) : gh[i] = h[i]
  <2> HIDE DEF gh, h
  <2>1. QED
    BY <1>5, <1>6a
<1>8. ASSUME NEW i \in DOMAIN history, IsTool(history[i]) \/ IsCall(history[i]) PROVE ~Same(history[i], c)
  <2>1. history[i] \in said /\ history[i].step \in Nat
    <3>1. history[i] \in said /\ history[i] \in Messages
      BY <1>0
    <3>2. QED
      BY <3>1, SessionAssumption DEF Messages
  <2>2. history[i].turn = t => history[i].step < k
    BY <1>2, <1>3, <1>8, <2>1 DEF Reached, Asking, IsTool, IsCall, k
  <2>3. QED
    BY <1>0, <1>7, <2>1, <2>2 DEF Same
<1> HIDE DEF gv, gh, h
<1>9. Len(history) \in Nat /\ c.n \in Nat
  BY <1>0, <1>7
<1>10. ASSUME NEW i \in (Len(history) + 2)..Len(gh) PROVE Answers(gh[i], c)
  <2> DEFINE L == Len(history)
             j == i - (L + 1)
  <2> HIDE DEF L
  <2>1. j \in 1..c.n /\ L + 1 + j = i
    BY <1>7, <1>9 DEF L
  <2>2. QED
    BY <1>7, <2>1 DEF L
<1>11. Len(gh) >= Len(history) + 1
  BY <1>7, <1>9
<1>12. ~overlapped => WellOrdered(gh)
  BY <1>0, <1>3, <1>7, <1>8, <1>10, <1>11, OrderedCall
<1>13. ~overlapped => WellOrdered(h)
  BY <1>7, <1>11, <1>12, OrderedPrefix
<1>14. TurnShows(t, r, v, snap'[t], h, overlapped)
  BY <1>2, <1>6, <1>7, <1>12 DEF TurnShows, gv, gh
<1>15. Reached(c, r) /\ r.at \notin Asking
  BY <1>0, <1>2, <1>7 DEF Reached, Asking
<1>16. ~overlapped => \A u \in Turns \ {t} : ~UnderWay(u)
  BY <1>2, Alone DEF UnderWay
<1>17. r.step \in Nat /\ turn[t].step <= r.step
  BY <1>0, <1>2 DEF k
<1>18. QED
  BY <1>2, <1>7, <1>13, <1>14, <1>15, <1>16, <1>17, OneTurnShows DEF r

LEMMA TurnShown ==
    ASSUME SsIInv, SsTyInv, ShownIInv, NEW t \in Turns, TurnStep(t) PROVE ShownIInv'
BY BeginShows, SaveUserShows, CallsShow, ResultShows, AnswerShows, QuietShows, ErrorShows, CompressShows, RebuildShows
   DEF TurnStep

(* The summarizer, the clear command and a restart only shorten the history.  *)
LEMMA TruncateShows ==
    ASSUME SsIInv, SsTyInv, ShownIInv, NEW t \in Turns, TruncateHistory(t) PROVE ShownIInv'
<1>1. history \in Seq(Messages)
  BY HistoryTyped
<1>2. UNCHANGED <<turn, view, snap, said, overlapped>>
  BY DEF TruncateHistory, turnVars
<1>3. CASE Len(history) <= 4
  <2>1. history' = history
    BY <1>3 DEF TruncateHistory
  <2>2. QED
    BY <1>1, <1>2, <2>1, HistoryShows
<1>4. CASE ~(Len(history) <= 4)
  <2> DEFINE L == Len(history)
             k == L - 4
             g == SubSeq(history, k + 1, L)
  <2>1. L \in Nat /\ k \in Nat /\ k <= L /\ L - 3 = k + 1
    BY <1>1, <1>4
  <2>2. history' = g
    BY <1>4, <2>1 DEF TruncateHistory
  <2> HIDE DEF k
  <2>3. \A due \in Seq(Messages) : WellOrdered(history \o due) => WellOrdered(g \o due)
    BY <1>1, <2>1, OrderedEnd
  <2>4. g \in Seq(Messages)
    BY <1>1, <2>1, CutOff
  <2> HIDE DEF g
  <2>5. QED
    BY <1>1, <1>2, <2>2, <2>3, <2>4, HistoryShows
<1>5. QED
  BY <1>3, <1>4

LEMMA ClearShows ==
    ASSUME SsIInv, SsTyInv, ShownIInv, ClearHistory PROVE ShownIInv'
<1>1. history \in Seq(Messages)
  BY HistoryTyped
<1>2. UNCHANGED <<turn, view, snap, said, overlapped>> /\ history' = <<>>
  BY DEF ClearHistory, turnVars
<1> DEFINE L == Len(history)
           g == SubSeq(history, L + 1, L)
<1>3. L \in Nat /\ L <= L /\ L + 1 > L
  BY <1>1
<1>4. g = <<>>
  BY <1>1, <1>3, SubSeqEmpty
<1>5. \A due \in Seq(Messages) : WellOrdered(history \o due) => WellOrdered(g \o due)
  BY <1>1, <1>3, OrderedEnd
<1> HIDE DEF g
<1>6. history' \in Seq(Messages) /\ history' = g
  BY <1>2, <1>4
<1>7. QED
  BY <1>1, <1>2, <1>5, <1>6, HistoryShows

LEMMA RestartShows ==
    ASSUME SsTyInv, ShownIInv, Restart PROVE ShownIInv'
<1>1. /\ turn' = [t \in Turns |-> IF UnderWay(t) THEN [turn[t] EXCEPT !.at = "done"] ELSE turn[t]]
      /\ UNCHANGED <<history, said, overlapped>>
  BY DEF Restart, store, ssGhosts
<1>2. ASSUME NEW t \in Turns PROVE turn'[t].at \in {"start", "done"} /\ turn'[t].step = turn[t].step
                                   /\ (turn'[t].at = "start" => turn[t].at = "start")
  BY <1>1 DEF UnderWay, SsTyInv, TurnsTyped, TurnRecords
<1>3. ASSUME NEW t \in Turns PROVE TurnShows(t, turn'[t], view'[t], snap'[t], history', overlapped')
  <2>1. turn[t].at = "start" => turn[t].step = 0
    BY DEF ShownIInv, TurnShows
  <2>2. QED
    BY <1>2, <2>1 DEF TurnShows
<1>4. ASSUME NEW m \in said' PROVE Reached(m, turn'[m.turn])
  <2>1. m.turn \in Turns /\ Reached(m, turn[m.turn])
    BY <1>1 DEF ShownIInv, SsTyInv, Messages
  <2>2. QED
    BY <1>2, <2>1 DEF Reached, Asking
<1>5. \A t \in Turns : ~UnderWay(t)'
  BY <1>2 DEF UnderWay
<1>6. QED
  BY <1>1, <1>3, <1>4, <1>5 DEF ShownIInv

(* Every step keeps it.                                                       *)
LEMMA SsStepShows == SsIInv /\ SsTyInv /\ ShownIInv /\ [SsNext]_ssVars => ShownIInv'
<1> SUFFICES ASSUME SsIInv, SsTyInv, ShownIInv, [SsNext]_ssVars PROVE ShownIInv'
  OBVIOUS
<1>1. UNCHANGED <<turn, view, snap, said, overlapped, history>> => ShownIInv'
  BY HistoryTyped, HistoryShows
<1>2. ASSUME NEW t \in Turns, SummarizerStep(t) PROVE ShownIInv'
  BY <1>1, <1>2, TruncateShows
     DEF SummarizerStep, ReadHistory, ReadSummary, SetSummary, store, turnVars, ssGhosts
<1>3. ASSUME ClearSummary PROVE ShownIInv'
  BY <1>1, <1>3 DEF ClearSummary, turnVars
<1>4. ASSUME UNCHANGED ssVars PROVE ShownIInv'
  BY <1>1, <1>4 DEF ssVars, store, turnVars, ssGhosts
<1>5. QED
  BY <1>2, <1>3, <1>4, TurnShown, QuietShows, ClearShows, RestartShows DEF SsNext, Terminating

LEMMA SsTyStarts == SsInit => SsTyInv
<1> SUFFICES ASSUME SsInit PROVE SsTyInv
  OBVIOUS
<1>1. <<>> \in Seq(Messages) /\ 0 \in 0..MaxSteps /\ 0 \in 0..MaxRetries /\ 0 \in 0..MaxClears /\ 0 \in 0..MaxRestarts
  BY SessionAssumption
<1>2. turn \in [Turns -> TurnRecords] /\ \A t \in Turns : turn[t].at = "start"
  BY <1>1 DEF SsInit, TurnRecords
<1>3. summarizer \in [Turns -> Summarizers]
  BY <1>1 DEF SsInit, SsIdle, Summarizers
<1>4. QED
  BY <1>1, <1>2, <1>3 DEF SsInit, SsTyInv, TurnsTyped

(* The types of the session, of which the history is a part of what was said. *)
LEMMA SsTyImplies == SsIInv /\ SsTyInv => SsTypeOK
<1> SUFFICES ASSUME SsIInv, SsTyInv PROVE SsTypeOK
  OBVIOUS
<1>1. history \in Seq(Messages) /\ \A t \in Turns : snap[t] \in Seq(Messages)
  BY HistoryTyped
<1>2. QED
  BY <1>1 DEF SsTypeOK, SsTyInv, TurnsTyped, TurnRecords, Summarizers

(* Whatever turns, summarizers, compressions, clears and restarts do to a     *)
(* session, each tool call a provider is shown has all of its results, and,   *)
(* unless turns overlapped, each result its call: runLLMIteration,            *)
(* sanitizeHistoryForProvider, forceCompression and summarizeSession.         *)
THEOREM ShownComplete == SsSpec => []SsInv
<1>1. SsInit => SsIInv /\ SsTyInv /\ ShownIInv
  BY SsStarts, SsTyStarts, ShownStarts
<1>2. SsIInv /\ SsTyInv /\ ShownIInv /\ [SsNext]_ssVars => (SsIInv /\ SsTyInv /\ ShownIInv)'
  BY SsStepIInv, SsStepTyped, SsStepShows
<1>3. SsIInv /\ SsTyInv /\ ShownIInv => SsInv
  BY SsTyImplies, ShownImplies DEF SsInv
<1>4. QED
  BY <1>1, <1>2, <1>3, PTL DEF SsSpec

(***************************************************************************)
(* What a provider is sent.  Each adapter makes of a message, by itself,   *)
(* its text once and, where calls are data, its calls in order or the      *)
(* result it is; what is sent is these parts one after another.  So it is  *)
(* enough that in the conversation every call is followed by its result,   *)
(* at the place it has among the calls, and that every result is such.     *)
(***************************************************************************)
(* A sequence of sequences as what its parts make, one after another.         *)
LEMMA FlattenTrace ==
    ASSUME NEW S, NEW seqs \in Seq(Seq(S))
    PROVE  \E g : /\ g[0] = <<>> /\ FlattenSeq(seqs) = g[Len(seqs)]
                  /\ \A k \in 1..Len(seqs) : g[k] = g[k - 1] \o seqs[k]
<1> DEFINE n == Len(seqs)
           Body(f, i) == IF i = 1 THEN seqs[i] ELSE f[i - 1] \o seqs[i]
           Iter(m, f) == f = [i \in 1..m |-> Body(f, i)]
           Some == {m \in Nat : \E f : Iter(m, f)}
<1>0. n \in Nat /\ \A i \in 1..n : seqs[i] \in Seq(S)
  OBVIOUS
<1>1. CASE n = 0
  <2> DEFINE g == [k \in 0..0 |-> <<>>]
  <2>1. seqs = <<>> /\ FlattenSeq(seqs) = seqs
    BY <1>1 DEF FlattenSeq
  <2>2. g[0] = <<>> /\ 1..n = {}
    BY <1>1
  <2> HIDE DEF g
  <2>3. QED
    BY <1>1, <2>1, <2>2
<1>2. CASE n # 0
  <2> HIDE DEF n
  <2>1. 0 \in Some
    <3> DEFINE f == [i \in 1..0 |-> <<>>]
    <3>1. \A i \in 1..0 : FALSE
      OBVIOUS
    <3>2. Iter(0, f)
      BY <3>1
    <3> HIDE DEF Iter, f
    <3>3. QED
      BY <3>2
  <2>2. ASSUME NEW k \in 0..(n - 1), k \in Some PROVE k + 1 \in Some
    <3>0. k \in Nat
      BY <1>0
    <3>1. PICK f : Iter(k, f)
      BY <2>2
    <3> DEFINE g == [i \in 1..(k + 1) |-> IF i = k + 1 THEN Body(f, k + 1) ELSE f[i]]
    <3>2. ASSUME NEW i \in 1..(k + 1) PROVE g[i] = Body(g, i)
      <4>1. CASE i = k + 1 /\ k = 0
        BY <3>0, <4>1
      <4>2. CASE i = k + 1 /\ k # 0
        <5>1. k \in 1..(k + 1) /\ g[k] = f[k] /\ (k + 1) - 1 = k /\ k + 1 # 1
          BY <3>0, <4>2
        <5>2. QED
          BY <3>0, <4>2, <5>1
      <4>3. CASE i # k + 1
        <5>1. i \in 1..k /\ g[i] = f[i] /\ f[i] = Body(f, i)
          <6>1. i \in 1..k /\ g[i] = f[i]
            BY <3>0, <4>3
          <6> HIDE DEF Body, g
          <6>2. f[i] = Body(f, i)
            BY Zenon, <3>1, <6>1
          <6>3. QED
            BY <6>1, <6>2
        <5>2. i # 1 => i - 1 \in 1..k /\ i - 1 # k + 1 /\ i - 1 \in 1..(k + 1)
          BY <3>0, <5>1
        <5>3. i # 1 => g[i - 1] = f[i - 1]
          BY <5>2
        <5> HIDE DEF g
        <5>4. QED
          BY <5>1, <5>3
      <4>4. QED
        BY <4>1, <4>2, <4>3
    <3>3. Iter(k + 1, g)
      BY <3>2
    <3> HIDE DEF Iter, g
    <3>4. QED
      BY <3>0, <3>3
  <2>3. n \in Some
    <3> HIDE DEF Some
    <3>1. \A k \in 0..(n - 1) : k \in Some => k + 1 \in Some
      BY <2>2
    <3>2. \A k \in 0..n : k \in Some
      BY <1>0, <2>1, <3>1, AllNumbers
    <3>3. QED
      BY <1>0, <3>2
  <2> DEFINE F == CHOOSE f : Iter(n, f)
  <2>4. Iter(n, F)
    BY <2>3, Zenon
  <2>5. FlattenSeq(seqs) = F[n]
    BY Zenon, <1>2 DEF FlattenSeq, n
  <2> HIDE DEF F
  <2> DEFINE g == [k \in 0..n |-> IF k = 0 THEN <<>> ELSE F[k]]
  <2>6. g[0] = <<>> /\ g[n] = F[n]
    BY <1>0, <1>2
  <2>7. ASSUME NEW k \in 1..n PROVE g[k] = g[k - 1] \o seqs[k]
    <3>1. F[k] = Body(F, k) /\ g[k] = F[k]
      <4>1. g[k] = F[k]
        BY <1>0
      <4> HIDE DEF Body, g
      <4>2. F[k] = Body(F, k)
        BY Zenon, <2>4
      <4>3. QED
        BY <4>1, <4>2
    <3>2. CASE k = 1
      <4>1. g[k - 1] = <<>> /\ seqs[k] \in Seq(S)
        BY <1>0, <3>2
      <4>2. <<>> \o seqs[k] = seqs[k]
        BY <4>1, ConcatEmptySeq
      <4>3. QED
        BY <3>1, <3>2, <4>1, <4>2
    <3>3. CASE k # 1
      <4>1. g[k - 1] = F[k - 1]
        BY <1>0, <3>3
      <4>2. QED
        BY <3>1, <3>3, <4>1
    <3>4. QED
      BY <3>2, <3>3
  <2> HIDE DEF g
  <2>8. QED
    BY <2>5, <2>6, <2>7 DEF n
<1>3. QED
  BY <1>1, <1>2

(* off tells where each part of seqs ends in w, which is made of them.        *)
Flat(w, seqs, off) ==
    /\ off[0] = 0 /\ Len(w) = off[Len(seqs)]
    /\ \A i \in 0..Len(seqs) : off[i] \in Nat
    /\ \A i \in 1..Len(seqs) :
         /\ off[i] = off[i - 1] + Len(seqs[i])
         /\ \A c \in 1..Len(seqs[i]) : w[off[i - 1] + c] = seqs[i][c]

LEMMA Flattened ==
    ASSUME NEW S, NEW seqs \in Seq(Seq(S))
    PROVE  FlattenSeq(seqs) \in Seq(S) /\ \E off : Flat(FlattenSeq(seqs), seqs, off)
<1> DEFINE n == Len(seqs)
<1>0. n \in Nat /\ \A i \in 1..n : seqs[i] \in Seq(S) /\ Len(seqs[i]) \in Nat
  OBVIOUS
<1>1. PICK g : g[0] = <<>> /\ FlattenSeq(seqs) = g[n] /\ \A k \in 1..n : g[k] = g[k - 1] \o seqs[k]
  BY FlattenTrace
<1> HIDE DEF n
<1> DEFINE off == [k \in 0..n |-> Len(g[k])]
           Good(k) == /\ g[k] \in Seq(S)
                      /\ \A i \in 1..k : \A c \in 1..Len(seqs[i]) :
                           Len(g[i - 1]) + c \in 1..Len(g[k]) /\ g[k][Len(g[i - 1]) + c] = seqs[i][c]
           Some == {k \in Nat : Good(k)}
<1>2. 0 \in Some
  <2>1. g[0] \in Seq(S) /\ \A i \in 1..0 : FALSE
    BY <1>1
  <2>2. Good(0)
    BY <2>1
  <2> HIDE DEF Good
  <2>3. QED
    BY <2>2
<1>3. ASSUME NEW k \in 0..(n - 1), k \in Some PROVE k + 1 \in Some
  <2>1. k \in Nat /\ k + 1 \in 1..n /\ (k + 1) - 1 = k /\ g[k] \in Seq(S)
    BY <1>0, <1>3
  <2>2. g[k + 1] = g[k] \o seqs[k + 1] /\ seqs[k + 1] \in Seq(S)
    BY <1>0, <1>1, <2>1
  <2> DEFINE a == g[k]
             b == seqs[k + 1]
             d == g[k + 1]
  <2>3. a \in Seq(S) /\ b \in Seq(S) /\ d = a \o b
    BY <2>1, <2>2
  <2>4. /\ d \in Seq(S) /\ Len(d) = Len(a) + Len(b) /\ Len(a) \in Nat /\ Len(b) \in Nat
        /\ \A i \in 1..Len(a) : d[i] = a[i]
        /\ \A i \in 1..Len(b) : d[Len(a) + i] = b[i]
    <3> HIDE DEF a, b, d
    <3>1. QED
      BY <2>3, Joined
  <2>5. ASSUME NEW i \in 1..(k + 1), NEW c \in 1..Len(seqs[i])
        PROVE  Len(g[i - 1]) + c \in 1..Len(d) /\ d[Len(g[i - 1]) + c] = seqs[i][c]
    <3>1. CASE i = k + 1
      <4>1. Len(g[i - 1]) = Len(a) /\ seqs[i] = b
        BY <2>1, <3>1
      <4> HIDE DEF a, b, d
      <4>2. c \in 1..Len(b)
        BY <4>1
      <4>3. QED
        BY <2>4, <4>1, <4>2
    <3>2. CASE i # k + 1
      <4>1. i \in 1..k
        BY <2>1, <3>2
      <4>2. Len(g[i - 1]) + c \in 1..Len(a) /\ a[Len(g[i - 1]) + c] = seqs[i][c]
        BY <1>3, <4>1
      <4> HIDE DEF a, b, d
      <4>3. QED
        BY <2>4, <4>2
    <3>3. QED
      BY <3>1, <3>2
  <2>6. Good(k + 1)
    BY <2>4, <2>5
  <2> HIDE DEF Good
  <2>7. QED
    BY <2>1, <2>6
<1>4. \A k \in 0..n : Good(k)
  <2> HIDE DEF Good
  <2>0. \A k \in 0..(n - 1) : k \in Some => k + 1 \in Some
    BY <1>3
  <2> HIDE DEF Some
  <2>1. \A k \in 0..n : k \in Some
    BY <1>0, <1>2, <2>0, AllNumbers
  <2>2. QED
    BY <2>1 DEF Some
<1>5. \A k \in 0..n : g[k] \in Seq(S) /\ off[k] = Len(g[k]) /\ off[k] \in Nat
  BY <1>4
<1>6. off[0] = 0 /\ Len(g[n]) = off[n] /\ g[n] \in Seq(S)
  BY <1>0, <1>1, <1>5
<1>7. ASSUME NEW i \in 1..n
      PROVE  /\ off[i] = off[i - 1] + Len(seqs[i])
             /\ \A c \in 1..Len(seqs[i]) : g[n][off[i - 1] + c] = seqs[i][c]
  <2>1. i \in 0..n /\ i - 1 \in 0..n /\ n \in 0..n
    BY <1>0
  <2>2. /\ g[i] = g[i - 1] \o seqs[i] /\ g[i - 1] \in Seq(S) /\ seqs[i] \in Seq(S)
        /\ off[i] = Len(g[i]) /\ off[i - 1] = Len(g[i - 1])
    BY <1>0, <1>1, <1>5, <2>1
  <2>3. Len(g[i]) = Len(g[i - 1]) + Len(seqs[i])
    BY <2>2, ConcatProperties
  <2>4. \A c \in 1..Len(seqs[i]) : g[n][Len(g[i - 1]) + c] = seqs[i][c]
    BY <1>4, <2>1
  <2> HIDE DEF off
  <2>5. QED
    BY <2>2, <2>3, <2>4
<1> HIDE DEF off
<1>8. Flat(g[n], seqs, off)
  BY <1>5, <1>6, <1>7 DEF Flat, n
<1>9. QED
  BY <1>1, <1>6, <1>8

(* The parts come in order, and each element is of one of them.               *)
InOrder(w, seqs, off) ==
    /\ \A i, j \in 0..Len(seqs) : i <= j => off[i] <= off[j]
    /\ \A b \in DOMAIN w : \E i \in 1..Len(seqs) : \E c \in 1..Len(seqs[i]) :
         b = off[i - 1] + c /\ w[b] = seqs[i][c]

LEMMA Offsets ==
    ASSUME NEW S, NEW seqs \in Seq(Seq(S)), NEW w \in Seq(S), NEW off, Flat(w, seqs, off)
    PROVE  InOrder(w, seqs, off)
<1> DEFINE n == Len(seqs)
<1>0. /\ n \in Nat /\ \A i \in 1..n : Len(seqs[i]) \in Nat
      /\ off[0] = 0 /\ Len(w) = off[n] /\ DOMAIN w = 1..off[n]
      /\ \A i \in 0..n : off[i] \in Nat
      /\ \A i \in 1..n : /\ off[i] = off[i - 1] + Len(seqs[i])
                         /\ \A c \in 1..Len(seqs[i]) : w[off[i - 1] + c] = seqs[i][c]
  BY DEF Flat
<1> HIDE DEF n
<1> DEFINE Good(k) == /\ \A i \in 0..k : off[i] <= off[k]
                      /\ \A b \in 1..off[k] : \E i \in 1..k : \E c \in 1..Len(seqs[i]) : b = off[i - 1] + c
           Some == {k \in Nat : Good(k)}
<1>1. 0 \in Some
  BY <1>0
<1>2. ASSUME NEW k \in 0..(n - 1), k \in Some PROVE k + 1 \in Some
  <2>1. k \in Nat /\ k + 1 \in 1..n /\ (k + 1) - 1 = k /\ k \in 0..n /\ k + 1 \in 0..n
    BY <1>0
  <2>2. off[k + 1] = off[k] + Len(seqs[k + 1]) /\ off[k] \in Nat /\ Len(seqs[k + 1]) \in Nat
    BY <1>0, <2>1
  <2>3. ASSUME NEW i \in 0..(k + 1) PROVE off[i] <= off[k + 1]
    <3>1. CASE i = k + 1
      BY <2>2, <3>1
    <3>2. CASE i # k + 1
      <4>1. i \in 0..k /\ i \in 0..n
        BY <1>0, <2>1, <3>2
      <4>2. off[i] <= off[k] /\ off[i] \in Nat
        BY <1>0, <1>2, <4>1
      <4>3. QED
        BY <2>2, <4>2
    <3>3. QED
      BY <3>1, <3>2
  <2>4. ASSUME NEW b \in 1..off[k + 1]
        PROVE  \E i \in 1..(k + 1) : \E c \in 1..Len(seqs[i]) : b = off[i - 1] + c
    <3>1. CASE b <= off[k]
      <4>1. b \in 1..off[k]
        BY <2>2, <3>1
      <4>2. PICK i \in 1..k : \E c \in 1..Len(seqs[i]) : b = off[i - 1] + c
        BY <1>2, <4>1
      <4>3. i \in 1..(k + 1)
        BY <2>1
      <4>4. QED
        BY <4>2, <4>3
    <3>2. CASE ~(b <= off[k])
      <4> DEFINE c == b - off[k]
      <4>1. c \in 1..Len(seqs[k + 1]) /\ b = off[k] + c
        BY <2>2, <3>2
      <4> HIDE DEF c
      <4>2. b = off[(k + 1) - 1] + c /\ k + 1 \in 1..(k + 1)
        BY <2>1, <4>1
      <4>3. QED
        BY <4>1, <4>2
    <3>3. QED
      BY <3>1, <3>2
  <2>5. Good(k + 1)
    BY <2>3, <2>4
  <2> HIDE DEF Good
  <2>6. QED
    BY <2>1, <2>5
<1>3. \A k \in 0..n : Good(k)
  <2> HIDE DEF Good
  <2>0. \A k \in 0..(n - 1) : k \in Some => k + 1 \in Some
    BY <1>2
  <2> HIDE DEF Some
  <2>1. \A k \in 0..n : k \in Some
    BY <1>0, <1>1, <2>0, AllNumbers
  <2>2. QED
    BY <2>1 DEF Some
<1>4. ASSUME NEW i \in 0..n, NEW j \in 0..n, i <= j PROVE off[i] <= off[j]
  <2>1. i \in 0..j
    BY <1>0, <1>4
  <2>2. QED
    BY <1>3, <2>1
<1>5. ASSUME NEW b \in DOMAIN w
      PROVE  \E i \in 1..n : \E c \in 1..Len(seqs[i]) : b = off[i - 1] + c /\ w[b] = seqs[i][c]
  <2>1. PICK i \in 1..n : \E c \in 1..Len(seqs[i]) : b = off[i - 1] + c
    <3>1. n \in 0..n /\ b \in 1..off[n]
      BY <1>0
    <3>2. QED
      BY <1>3, <3>1
  <2>2. QED
    BY <1>0, <2>1
<1>6. QED
  BY <1>4, <1>5 DEF n, InOrder

(* Where every call has a name none is left out.                              *)
LEMMA AllNamed ==
    ASSUME NEW S, NEW bs \in Seq(S), \A k \in DOMAIN bs : bs[k].named
    PROVE  Named(bs) = bs
<1> DEFINE n == Len(bs)
           seqs == [k \in DOMAIN bs |-> IF bs[k].named THEN <<bs[k]>> ELSE <<>>]
           w == FlattenSeq(seqs)
<1>0. n \in Nat /\ DOMAIN bs = 1..n /\ \A k \in 1..n : bs[k] \in S
  OBVIOUS
<1>1. /\ n \in Nat /\ DOMAIN bs = 1..n /\ seqs \in Seq(Seq(S)) /\ Len(seqs) = n
      /\ \A k \in 1..n : seqs[k] = <<bs[k]>>
  <2> HIDE DEF n
  <2>1. seqs = [k \in 1..n |-> <<bs[k]>>]
    BY <1>0
  <2>2. \A k \in 1..n : <<bs[k]>> \in Seq(S)
    BY <1>0
  <2> HIDE DEF seqs
  <2>3. QED
    BY <1>0, <2>1, <2>2
<1>2. \A k \in 1..n : Len(seqs[k]) = 1 /\ seqs[k][1] = bs[k]
  BY <1>1
<1> HIDE DEF seqs
<1>3. w \in Seq(S) /\ \E off : Flat(w, seqs, off)
  BY <1>1, Flattened
<1> HIDE DEF w
<1>4. PICK off : Flat(w, seqs, off)
  BY <1>3
<1> HIDE DEF n
<1>5. /\ off[0] = 0 /\ Len(w) = off[n]
      /\ \A i \in 1..n : off[i] = off[i - 1] + 1 /\ \A c \in 1..1 : w[off[i - 1] + c] = seqs[i][c]
  <2>1. /\ off[0] = 0 /\ Len(w) = off[n]
        /\ \A i \in 1..n : off[i] = off[i - 1] + Len(seqs[i]) /\ \A c \in 1..Len(seqs[i]) : w[off[i - 1] + c] = seqs[i][c]
    BY <1>1, <1>4 DEF Flat
  <2>2. QED
    BY <1>2, <2>1
<1> DEFINE Some == {k \in Nat : off[k] = k}
<1>6. \A k \in 0..n : k \in Some
  <2>1. 0 \in Some
    BY <1>5
  <2>2. ASSUME NEW k \in 0..(n - 1), k \in Some PROVE k + 1 \in Some
    <3>1. k + 1 \in 1..n /\ (k + 1) - 1 = k /\ k \in Nat /\ off[k] = k
      BY <1>1, <2>2
    <3>2. off[k + 1] = off[k] + 1
      BY <1>5, <3>1
    <3>3. QED
      BY <3>1, <3>2
  <2> HIDE DEF Some
  <2>3. QED
    BY <1>1, <2>1, <2>2, AllNumbers
<1>7. Len(w) = n
  BY <1>1, <1>5, <1>6
<1>8. ASSUME NEW i \in 1..n PROVE w[i] = bs[i]
  <2>1. i - 1 \in 0..n /\ (i - 1) + 1 = i /\ 1 \in 1..1
    BY <1>1
  <2>2. off[i - 1] = i - 1
    BY <1>6, <2>1
  <2>3. w[off[i - 1] + 1] = seqs[i][1]
    BY <1>5, <2>1
  <2>4. QED
    BY <1>2, <2>1, <2>2, <2>3
<1>9. Len(bs) = Len(w) /\ \A i \in 1..Len(bs) : w[i] = bs[i]
  BY <1>7, <1>8 DEF n
<1>10. w = bs
  BY <1>3, <1>9, SeqEqual
<1>11. QED
  BY <1>10 DEF Named, w, seqs

(* A message as the loop makes it: its names may be lost in the session, its  *)
(* functions and signatures are not.                                          *)
PwMsgOK(m) ==
    /\ m.role \in {"user", "assistant", "tool"} /\ m.text \in BOOLEAN /\ m.image \in BOOLEAN /\ m.id \in Nat
    /\ m.calls \in Seq(PwCalls) /\ Len(m.calls) <= PwMaxCalls
    /\ \A k \in DOMAIN m.calls :
         /\ m.calls[k].func
         /\ m.calls[k].by = "gemini" => m.calls[k].sig = "extra"
         /\ m.calls[k].by = "antigravity" => m.calls[k].sig = "function"
         /\ \A j \in DOMAIN m.calls : m.calls[j].id = m.calls[k].id => j = k
    /\ m.role # "assistant" => m.calls = <<>>
    /\ m.role = "tool" => m.text

Blocks == [kind : {"text", "image", "call", "result"}, msg : Nat, id : Nat, named : BOOLEAN, sig : BOOLEAN]
Texty(b) == b.kind \in {"text", "result"}

Signs(p, c, b) ==
    /\ p = "gemini" => b.sig = (c.sig = "extra")
    /\ p = "antigravity" => b.sig = (c.sig = "function")

(* The call blocks of message m are cb, what comes before them is h.          *)
CallsOf(p, m, i, cb) ==
    /\ cb \in Seq(Blocks) /\ Len(cb) = Len(m.calls)
    /\ \A k \in 1..Len(m.calls) : /\ cb[k].kind = "call" /\ cb[k].msg = i /\ cb[k].id = m.calls[k].id
                                  /\ Signs(p, m.calls[k], cb[k])
HeadOf(m, i, h) ==
    /\ h \in Seq(Blocks)
    /\ \A b \in 1..Len(h) : h[b].kind \in {"text", "image"} /\ h[b].msg = i
    /\ \A b, c \in 1..Len(h) : h[b].kind = "text" /\ h[c].kind = "text" => b = c
    /\ m.text <=> \E b \in 1..Len(h) : h[b].kind = "text"

(* What provider p is sent for message m, the i-th: its text once, and, as    *)
(* data, its calls at the end, or the result it is.                           *)
TellsText(m, i, w) ==
    /\ w \in Seq(Blocks)
    /\ \A b \in DOMAIN w : w[b].msg = i
    /\ \A b, c \in DOMAIN w : Texty(w[b]) /\ Texty(w[c]) => b = c
    /\ m.text <=> \E b \in DOMAIN w : Texty(w[b])
TellsCalls(p, m, w) ==
    IF m.role = "tool" THEN Len(w) = 1 /\ w[1].kind = "result" /\ w[1].id = m.id
    ELSE \E h \in Nat : /\ Len(w) = h + Len(m.calls)
                        /\ \A b \in 1..h : w[b].kind \in {"text", "image"}
                        /\ \A k \in 1..Len(m.calls) : /\ w[h + k].kind = "call" /\ w[h + k].id = m.calls[k].id
                                                      /\ Signs(p, m.calls[k], w[h + k])

LEMMA PartsTell ==
    ASSUME NEW p, NEW m, PwMsgOK(m), NEW i \in Nat, m.role # "tool",
           NEW h \in Seq(Blocks), HeadOf(m, i, h), NEW cb \in Seq(Blocks), CallsOf(p, m, i, cb)
    PROVE  TellsText(m, i, h \o cb) /\ TellsCalls(p, m, h \o cb)
<1> DEFINE w == h \o cb
           n == Len(h)
           l == Len(cb)
<1>1. n \in Nat /\ l \in Nat /\ l = Len(m.calls)
  BY DEF CallsOf
<1>2. /\ w \in Seq(Blocks) /\ Len(w) = n + l
      /\ \A b \in 1..n : w[b] = h[b]
      /\ \A k \in 1..l : w[n + k] = cb[k]
  BY Joined
<1> HIDE DEF w, n, l
<1>3. DOMAIN w = 1..(n + l)
  BY <1>1, <1>2
<1>4. ASSUME NEW b \in 1..(n + l)
      PROVE  b \in 1..n \/ \E k \in 1..l : b = n + k
  <2>1. CASE b <= n
    BY <1>1, <2>1
  <2>2. CASE ~(b <= n)
    <3>1. b - n \in 1..l /\ b = n + (b - n)
      BY <1>1, <2>2
    <3>2. QED
      BY <3>1
  <2>3. QED
    BY <2>1, <2>2
<1>5. \A b \in 1..n : w[b].kind \in {"text", "image"} /\ w[b].msg = i /\ b \in 1..(n + l)
  BY <1>1, <1>2 DEF HeadOf, n
<1>6. \A k \in 1..l : /\ w[n + k].kind = "call" /\ w[n + k].id = m.calls[k].id /\ w[n + k].msg = i
                      /\ Signs(p, m.calls[k], w[n + k])
  BY <1>1, <1>2 DEF CallsOf
<1>7. \A b \in DOMAIN w : w[b].msg = i /\ (Texty(w[b]) => b \in 1..n /\ w[b].kind = "text")
  BY <1>3, <1>4, <1>5, <1>6 DEF Texty
<1>8. \A b, c \in DOMAIN w : Texty(w[b]) /\ Texty(w[c]) => b = c
  BY <1>2, <1>7 DEF HeadOf, n
<1>9. m.text <=> \E b \in DOMAIN w : Texty(w[b])
  <2>1. m.text <=> \E b \in 1..n : w[b].kind = "text"
    BY <1>2 DEF HeadOf, n
  <2>2. \A b \in 1..n : w[b].kind = "text" => b \in DOMAIN w /\ Texty(w[b])
    BY <1>3, <1>5 DEF Texty
  <2>3. QED
    BY <1>7, <2>1, <2>2
<1>10. TellsText(m, i, w)
  BY <1>2, <1>7, <1>8, <1>9 DEF TellsText
<1>11. TellsCalls(p, m, w)
  BY <1>1, <1>2, <1>5, <1>6 DEF TellsCalls
<1>12. QED
  BY <1>10, <1>11 DEF w

LEMMA TextIsHead ==
    ASSUME NEW m, PwMsgOK(m), NEW i \in Nat
    PROVE  HeadOf(m, i, TextBlock(m, i)) /\ TextBlock(m, i) \in Seq(Blocks)
<1>1. Block("text", i) \in Blocks /\ Block("text", i).kind = "text" /\ Block("text", i).msg = i
  BY DEF Block, Blocks
<1>2. CASE m.text
  <2>1. TextBlock(m, i) = <<Block("text", i)>>
    BY <1>2 DEF TextBlock
  <2>2. QED
    BY <1>1, <1>2, <2>1 DEF HeadOf
<1>3. CASE ~m.text
  <2>1. TextBlock(m, i) = <<>>
    BY <1>3 DEF TextBlock
  <2>2. QED
    BY <1>3, <2>1 DEF HeadOf
<1>4. QED
  BY <1>2, <1>3

(* OpenAI's API is sent images too.                                           *)
LEMMA ImageIsHead ==
    ASSUME NEW m, PwMsgOK(m), NEW i \in Nat
    PROVE  LET h == TextBlock(m, i) \o (IF m.image THEN <<Block("image", i)>> ELSE <<>>)
           IN  HeadOf(m, i, h) /\ h \in Seq(Blocks)
<1> DEFINE t == TextBlock(m, i)
           im == IF m.image THEN <<Block("image", i)>> ELSE <<>>
           h == t \o im
<1>1. Block("image", i) \in Blocks /\ Block("image", i).kind = "image" /\ Block("image", i).msg = i
  BY DEF Block, Blocks
<1>2. im \in Seq(Blocks) /\ \A b \in 1..Len(im) : im[b].kind = "image" /\ im[b].msg = i
  BY <1>1
<1>3. HeadOf(m, i, t) /\ t \in Seq(Blocks)
  BY TextIsHead
<1> HIDE DEF t, im
<1>4. /\ h \in Seq(Blocks) /\ Len(h) = Len(t) + Len(im)
      /\ \A b \in 1..Len(t) : h[b] = t[b]
      /\ \A b \in 1..Len(im) : h[Len(t) + b] = im[b]
  <2>1. t \in Seq(Blocks) /\ im \in Seq(Blocks)
    BY <1>2, <1>3
  <2>2. QED
    BY <2>1, Joined
<1> DEFINE n == Len(t)
           l == Len(im)
<1>5. n \in Nat /\ l \in Nat
  BY <1>2, <1>3
<1> HIDE DEF h
<1>6. ASSUME NEW b \in 1..Len(h)
      PROVE  \/ b \in 1..n /\ h[b] = t[b]
             \/ ~(b <= n) /\ h[b].kind = "image" /\ h[b].msg = i
  <2>1. CASE b <= n
    BY <1>4, <1>5, <2>1
  <2>2. CASE ~(b <= n)
    <3> HIDE DEF n, l
    <3>1. b - n \in 1..l /\ n + (b - n) = b
      BY <1>4, <1>5, <2>2 DEF n, l
    <3>2. h[n + (b - n)] = im[b - n]
      BY <1>4, <3>1 DEF n, l
    <3>3. QED
      BY <1>2, <2>2, <3>1, <3>2 DEF l
  <2>3. QED
    BY <2>1, <2>2
<1>7. \A b \in 1..n : b \in 1..Len(h)
  BY <1>4, <1>5
<1>8. HeadOf(m, i, h)
  BY <1>3, <1>4, <1>6, <1>7 DEF HeadOf
<1>9. QED
  BY <1>4, <1>8 DEF h, t, im

(* What is known of the calls of a message.                                   *)
LEMMA CallsAre ==
    ASSUME NEW m, PwMsgOK(m)
    PROVE  /\ Len(m.calls) \in Nat /\ DOMAIN m.calls = 1..Len(m.calls)
           /\ \A k \in 1..Len(m.calls) :
                /\ m.calls[k].id \in Nat /\ m.calls[k].name \in BOOLEAN /\ m.calls[k].func = TRUE
                /\ (m.calls[k].sig = "extra") \in BOOLEAN /\ (m.calls[k].sig = "function") \in BOOLEAN
<1>1. m.calls \in Seq(PwCalls)
  BY DEF PwMsgOK
<1>2. Len(m.calls) \in Nat /\ DOMAIN m.calls = 1..Len(m.calls) /\ \A k \in 1..Len(m.calls) : m.calls[k] \in PwCalls
  BY <1>1
<1>3. \A k \in DOMAIN m.calls : m.calls[k].func
  BY DEF PwMsgOK
<1>4. \A k \in 1..Len(m.calls) :
         m.calls[k].id \in Nat /\ m.calls[k].name \in BOOLEAN /\ m.calls[k].func \in BOOLEAN
  BY <1>2 DEF PwCalls
<1>5. QED
  BY <1>2, <1>3, <1>4

(* The calls, by where an adapter looks for their names and signatures.       *)
LEMMA OpenAICalls ==
    ASSUME NEW p, NEW m, PwMsgOK(m), NEW i \in Nat, p # "antigravity",
           NEW cb, cb = CallBlocks(m, i, InFunction, SignedInExtra)
    PROVE  cb \in Seq(Blocks) /\ CallsOf(p, m, i, cb)
<1> DEFINE n == Len(m.calls)
<1>1. /\ n \in Nat /\ DOMAIN m.calls = 1..n
      /\ \A k \in 1..n : /\ m.calls[k].id \in Nat /\ m.calls[k].func \in BOOLEAN
                         /\ (m.calls[k].sig = "extra") \in BOOLEAN
  BY CallsAre
<1>2. cb = [k \in 1..n |-> [Block("call", i) EXCEPT !.id = m.calls[k].id, !.named = m.calls[k].func,
                                                     !.sig = (m.calls[k].sig = "extra")]]
  BY <1>1 DEF CallBlocks, InFunction, SignedInExtra
<1> HIDE DEF n
<1>3. ASSUME NEW k \in 1..n
      PROVE  /\ cb[k] \in Blocks /\ cb[k].kind = "call" /\ cb[k].msg = i /\ cb[k].id = m.calls[k].id
             /\ cb[k].named = m.calls[k].func /\ cb[k].sig = (m.calls[k].sig = "extra")
  <2> DEFINE id == m.calls[k].id
             nm == m.calls[k].func
             sg == (m.calls[k].sig = "extra")
             b == cb[k]
  <2>1. b = [Block("call", i) EXCEPT !.id = id, !.named = nm, !.sig = sg]
    BY <1>2
  <2>2. id \in Nat /\ nm \in BOOLEAN /\ sg \in BOOLEAN
    BY <1>1
  <2> HIDE DEF id, nm, sg, b
  <2>3. /\ b \in Blocks /\ b.kind = "call" /\ b.msg = i /\ b.id = id /\ b.named = nm /\ b.sig = sg
    BY <2>1, <2>2 DEF Block, Blocks
  <2>4. QED
    BY <2>3 DEF id, nm, sg, b
<1>4. cb \in Seq(Blocks) /\ Len(cb) = n
  <2>1. cb = [k \in 1..n |-> cb[k]] /\ \A k \in 1..n : cb[k] \in Blocks
    BY <1>2, <1>3
  <2>2. QED
    BY <1>1, <2>1
<1>5. QED
  BY <1>3, <1>4 DEF CallsOf, Signs, n

LEMMA AnthropicCalls ==
    ASSUME NEW p, NEW m, PwMsgOK(m), NEW i \in Nat, p \notin {"gemini", "antigravity"},
           NEW cb, cb = CallBlocks(m, i, InName, Unsigned)
    PROVE  cb \in Seq(Blocks) /\ CallsOf(p, m, i, cb)
<1> DEFINE n == Len(m.calls)
<1>1. /\ n \in Nat /\ DOMAIN m.calls = 1..n
      /\ \A k \in 1..n : /\ m.calls[k].id \in Nat /\ m.calls[k].name \in BOOLEAN
  BY CallsAre
<1>2. cb = [k \in 1..n |-> [Block("call", i) EXCEPT !.id = m.calls[k].id, !.named = m.calls[k].name,
                                                     !.sig = FALSE]]
  BY <1>1 DEF CallBlocks, InName, Unsigned
<1> HIDE DEF n
<1>3. ASSUME NEW k \in 1..n
      PROVE  /\ cb[k] \in Blocks /\ cb[k].kind = "call" /\ cb[k].msg = i /\ cb[k].id = m.calls[k].id
             /\ cb[k].named = m.calls[k].name /\ cb[k].sig = FALSE
  <2> DEFINE id == m.calls[k].id
             nm == m.calls[k].name
             sg == FALSE
             b == cb[k]
  <2>1. b = [Block("call", i) EXCEPT !.id = id, !.named = nm, !.sig = sg]
    BY <1>2
  <2>2. id \in Nat /\ nm \in BOOLEAN /\ sg \in BOOLEAN
    BY <1>1
  <2> HIDE DEF id, nm, sg, b
  <2>3. /\ b \in Blocks /\ b.kind = "call" /\ b.msg = i /\ b.id = id /\ b.named = nm /\ b.sig = sg
    BY <2>1, <2>2 DEF Block, Blocks
  <2>4. QED
    BY <2>3 DEF id, nm, sg, b
<1>4. cb \in Seq(Blocks) /\ Len(cb) = n
  <2>1. cb = [k \in 1..n |-> cb[k]] /\ \A k \in 1..n : cb[k] \in Blocks
    BY <1>2, <1>3
  <2>2. QED
    BY <1>1, <2>1
<1>5. QED
  BY <1>3, <1>4 DEF CallsOf, Signs, n

LEMMA EitherCalls ==
    ASSUME NEW p, NEW m, PwMsgOK(m), NEW i \in Nat, p \notin {"gemini", "antigravity"},
           NEW cb, cb = CallBlocks(m, i, InEither, Unsigned)
    PROVE  cb \in Seq(Blocks) /\ CallsOf(p, m, i, cb) /\ \A k \in DOMAIN cb : cb[k].named
<1> DEFINE n == Len(m.calls)
<1>1. /\ n \in Nat /\ DOMAIN m.calls = 1..n
      /\ \A k \in 1..n : /\ m.calls[k].id \in Nat /\ (m.calls[k].name \/ m.calls[k].func) \in BOOLEAN
  BY CallsAre
<1>2. cb = [k \in 1..n |-> [Block("call", i) EXCEPT !.id = m.calls[k].id, !.named = (m.calls[k].name \/ m.calls[k].func),
                                                     !.sig = FALSE]]
  BY <1>1 DEF CallBlocks, InEither, Unsigned
<1> HIDE DEF n
<1>3. ASSUME NEW k \in 1..n
      PROVE  /\ cb[k] \in Blocks /\ cb[k].kind = "call" /\ cb[k].msg = i /\ cb[k].id = m.calls[k].id
             /\ cb[k].named = (m.calls[k].name \/ m.calls[k].func) /\ cb[k].sig = FALSE
  <2> DEFINE id == m.calls[k].id
             nm == (m.calls[k].name \/ m.calls[k].func)
             sg == FALSE
             b == cb[k]
  <2>1. b = [Block("call", i) EXCEPT !.id = id, !.named = nm, !.sig = sg]
    BY <1>2
  <2>2. id \in Nat /\ nm \in BOOLEAN /\ sg \in BOOLEAN
    BY <1>1
  <2> HIDE DEF id, nm, sg, b
  <2>3. /\ b \in Blocks /\ b.kind = "call" /\ b.msg = i /\ b.id = id /\ b.named = nm /\ b.sig = sg
    BY <2>1, <2>2 DEF Block, Blocks
  <2>4. QED
    BY <2>3 DEF id, nm, sg, b
<1>4. cb \in Seq(Blocks) /\ Len(cb) = n
  <2>1. cb = [k \in 1..n |-> cb[k]] /\ \A k \in 1..n : cb[k] \in Blocks
    BY <1>2, <1>3
  <2>2. QED
    BY <1>1, <2>1
<1>5. CallsOf(p, m, i, cb)
  BY <1>3, <1>4 DEF CallsOf, Signs, n
<1>6. \A k \in DOMAIN cb : cb[k].named
  <2>1. \A k \in 1..n : m.calls[k].func = TRUE
    BY CallsAre DEF n
  <2>2. QED
    BY <1>2, <1>3, <2>1
<1>7. QED
  BY <1>4, <1>5, <1>6

LEMMA AntigravityCalls ==
    ASSUME NEW p, NEW m, PwMsgOK(m), NEW i \in Nat, p # "gemini",
           NEW cb, cb = CallBlocks(m, i, InEither, SignedInFunction)
    PROVE  cb \in Seq(Blocks) /\ CallsOf(p, m, i, cb) /\ \A k \in DOMAIN cb : cb[k].named
<1> DEFINE n == Len(m.calls)
<1>1. /\ n \in Nat /\ DOMAIN m.calls = 1..n
      /\ \A k \in 1..n : /\ m.calls[k].id \in Nat /\ (m.calls[k].name \/ m.calls[k].func) \in BOOLEAN
                         /\ (m.calls[k].sig = "function") \in BOOLEAN
  BY CallsAre
<1>2. cb = [k \in 1..n |-> [Block("call", i) EXCEPT !.id = m.calls[k].id, !.named = (m.calls[k].name \/ m.calls[k].func),
                                                     !.sig = (m.calls[k].sig = "function")]]
  BY <1>1 DEF CallBlocks, InEither, SignedInFunction
<1> HIDE DEF n
<1>3. ASSUME NEW k \in 1..n
      PROVE  /\ cb[k] \in Blocks /\ cb[k].kind = "call" /\ cb[k].msg = i /\ cb[k].id = m.calls[k].id
             /\ cb[k].named = (m.calls[k].name \/ m.calls[k].func) /\ cb[k].sig = (m.calls[k].sig = "function")
  <2> DEFINE id == m.calls[k].id
             nm == (m.calls[k].name \/ m.calls[k].func)
             sg == (m.calls[k].sig = "function")
             b == cb[k]
  <2>1. b = [Block("call", i) EXCEPT !.id = id, !.named = nm, !.sig = sg]
    BY <1>2
  <2>2. id \in Nat /\ nm \in BOOLEAN /\ sg \in BOOLEAN
    BY <1>1
  <2> HIDE DEF id, nm, sg, b
  <2>3. /\ b \in Blocks /\ b.kind = "call" /\ b.msg = i /\ b.id = id /\ b.named = nm /\ b.sig = sg
    BY <2>1, <2>2 DEF Block, Blocks
  <2>4. QED
    BY <2>3 DEF id, nm, sg, b
<1>4. cb \in Seq(Blocks) /\ Len(cb) = n
  <2>1. cb = [k \in 1..n |-> cb[k]] /\ \A k \in 1..n : cb[k] \in Blocks
    BY <1>2, <1>3
  <2>2. QED
    BY <1>1, <2>1
<1>5. CallsOf(p, m, i, cb)
  BY <1>3, <1>4 DEF CallsOf, Signs, n
<1>6. \A k \in DOMAIN cb : cb[k].named
  <2>1. \A k \in 1..n : m.calls[k].func = TRUE
    BY CallsAre DEF n
  <2>2. QED
    BY <1>2, <1>3, <2>1
<1>7. QED
  BY <1>4, <1>5, <1>6

(* A result is told by one block, a text by the block it has if any.          *)
LEMMA AnswerTells ==
    ASSUME NEW p, NEW m, PwMsgOK(m), NEW i \in Nat, m.role = "tool"
    PROVE  TellsText(m, i, AnswerBlock(m, i)) /\ TellsCalls(p, m, AnswerBlock(m, i))
<1> DEFINE b == [Block("result", i) EXCEPT !.id = m.id]
<1>1. b \in Blocks /\ b.kind = "result" /\ b.id = m.id /\ b.msg = i
  <2>1. m.id \in Nat
    BY DEF PwMsgOK
  <2>2. QED
    BY <2>1 DEF Block, Blocks
<1>2. AnswerBlock(m, i) = <<b>>
  BY DEF AnswerBlock
<1> HIDE DEF b
<1>3. m.text
  BY DEF PwMsgOK
<1>4. QED
  BY <1>1, <1>2, <1>3 DEF TellsText, TellsCalls, Texty

LEMMA HeadTells ==
    ASSUME NEW m, PwMsgOK(m), NEW i \in Nat
    PROVE  TellsText(m, i, TextBlock(m, i))
<1> DEFINE h == TextBlock(m, i)
<1>1. HeadOf(m, i, h) /\ h \in Seq(Blocks)
  BY TextIsHead
<1> HIDE DEF h
<1>2. DOMAIN h = 1..Len(h)
  BY <1>1
<1>3. \A b \in DOMAIN h : h[b].msg = i /\ (Texty(h[b]) <=> h[b].kind = "text")
  BY <1>1, <1>2 DEF HeadOf, Texty
<1>4. TellsText(m, i, h)
  BY <1>1, <1>2, <1>3 DEF HeadOf, TellsText
<1>5. QED
  BY <1>4 DEF h

(* What any provider is sent for a message tells its text, and, where calls   *)
(* are data, its calls or its result.                                         *)
LEMMA WireTells ==
    ASSUME NEW p \in PwProviders, NEW m, PwMsgOK(m), NEW i \in Nat
    PROVE  TellsText(m, i, WireOf(p, m, i)) /\ (p \in Structured => TellsCalls(p, m, WireOf(p, m, i)))
<1> DEFINE t == TextBlock(m, i)
           h == t \o (IF m.image THEN <<Block("image", i)>> ELSE <<>>)
           fn == CallBlocks(m, i, InFunction, SignedInExtra)
           nm == CallBlocks(m, i, InName, Unsigned)
           ei == CallBlocks(m, i, InEither, Unsigned)
           ag == CallBlocks(m, i, InEither, SignedInFunction)
<1>0. p \in PwProviders /\ PwMsgOK(m)
  OBVIOUS
<1>1. CASE m.role = "tool"
  <2>1. TellsText(m, i, AnswerBlock(m, i)) /\ TellsCalls(p, m, AnswerBlock(m, i)) /\ TellsText(m, i, t)
    BY <1>0, <1>1, AnswerTells, HeadTells
  <2>2. WireOf(p, m, i) = AnswerBlock(m, i) \/ (p = "copilot" /\ WireOf(p, m, i) = t)
    BY <1>0, <1>1 DEF WireOf, PwProviders, OpenAIWire, AnthropicWire, AnthropicMessagesWire, AntigravityWire,
                 CodexWire, ClaudeCliWire, CodexCliWire, CopilotWire
  <2>3. QED
    BY <2>1, <2>2 DEF Structured
<1>2. CASE m.role # "tool"
  <2>0. HeadOf(m, i, t) /\ t \in Seq(Blocks) /\ TellsText(m, i, t)
    BY <1>0, TextIsHead, HeadTells
  <2>1. CASE p \in {"openai", "gemini"}
    <3>1. WireOf(p, m, i) = h \o fn
      BY <1>2, <2>1 DEF WireOf, OpenAIWire
    <3>2. HeadOf(m, i, h) /\ h \in Seq(Blocks)
      BY <1>0, ImageIsHead
    <3>3. fn \in Seq(Blocks) /\ CallsOf(p, m, i, fn)
      BY <1>0, <2>1, OpenAICalls
    <3> HIDE DEF h, fn
    <3>4. QED
      BY <1>2, <3>1, <3>2, <3>3, PartsTell
  <2>2. CASE p = "anthropic"
    <3>1. WireOf(p, m, i) = t \o nm
      BY <1>2, <2>2 DEF WireOf, AnthropicWire
    <3>3. nm \in Seq(Blocks) /\ CallsOf(p, m, i, nm)
      BY <1>0, <2>2, AnthropicCalls
    <3> HIDE DEF t, nm
    <3>4. QED
      BY <1>2, <2>0, <3>1, <3>3, PartsTell
  <2>3. CASE p \in {"anthropic_messages", "codex"}
    <3>3. ei \in Seq(Blocks) /\ CallsOf(p, m, i, ei) /\ \A k \in DOMAIN ei : ei[k].named
      BY <1>0, <2>3, EitherCalls
    <3>1. WireOf(p, m, i) = t \o ei
      <4> HIDE DEF ei
      <4>1. Named(ei) = ei
        BY <3>3, AllNamed
      <4>2. QED
        BY <1>2, <2>3, <4>1 DEF WireOf, AnthropicMessagesWire, CodexWire, ei
    <3> HIDE DEF t, ei
    <3>4. QED
      BY <1>2, <2>0, <3>1, <3>3, PartsTell
  <2>4. CASE p = "antigravity"
    <3>3. ag \in Seq(Blocks) /\ CallsOf(p, m, i, ag) /\ \A k \in DOMAIN ag : ag[k].named
      BY <1>0, <2>4, AntigravityCalls
    <3>1. WireOf(p, m, i) = t \o ag
      <4> HIDE DEF ag
      <4>1. Named(ag) = ag
        BY <3>3, AllNamed
      <4>2. QED
        BY <1>2, <2>4, <4>1 DEF WireOf, AntigravityWire, ag
    <3> HIDE DEF t, ag
    <3>4. QED
      BY <1>2, <2>0, <3>1, <3>3, PartsTell
  <2>5. CASE p \in {"claude_cli", "codex_cli", "copilot"}
    <3>1. WireOf(p, m, i) = t /\ p \notin Structured
      BY <1>2, <2>5 DEF WireOf, ClaudeCliWire, CodexCliWire, CopilotWire, Structured
    <3>2. QED
      BY <2>0, <3>1
  <2>6. QED
    BY <1>0, <2>1, <2>2, <2>3, <2>4, <2>5 DEF PwProviders
<1>3. QED
  BY <1>1, <1>2

PwMessages == [role : {"user", "assistant", "tool"}, text : BOOLEAN, image : BOOLEAN,
               calls : Seq(PwCalls), id : Nat]

(* Every call is followed by its result, at the place of the call among the   *)
(* calls, and every result is such a one.                                     *)
Follow(ms) ==
    \A i \in DOMAIN ms : \A k \in DOMAIN ms[i].calls :
      i + k \in DOMAIN ms /\ ms[i + k].role = "tool" /\ ms[i + k].id = ms[i].calls[k].id
AnswersCalls(ms) ==
    \A j \in DOMAIN ms : ms[j].role = "tool" =>
      \E i \in DOMAIN ms : \E k \in DOMAIN ms[i].calls : j = i + k

PwIInv ==
    /\ pwDue \in BOOLEAN /\ pwFailed \in BOOLEAN
    /\ pwMsgs \in Seq(PwMessages) /\ Len(pwMsgs) <= PwMaxMsgs
    /\ \A i \in DOMAIN pwMsgs : PwMsgOK(pwMsgs[i])
    /\ Follow(pwMsgs) /\ AnswersCalls(pwMsgs)

(* Part i of what is sent, which tells message i, is the blocks of w after    *)
(* the first off[i - 1].                                                      *)
Laid(p, w, seqs, off) ==
    /\ Len(seqs) = Len(pwMsgs) /\ Len(pwMsgs) \in Nat /\ DOMAIN pwMsgs = 1..Len(pwMsgs)
    /\ w \in Seq(Blocks) /\ off[0] = 0
    /\ \A i \in 0..Len(pwMsgs) : off[i] \in Nat
    /\ \A i \in 1..Len(pwMsgs) :
         /\ TellsText(pwMsgs[i], i, seqs[i])
         /\ p \in Structured => TellsCalls(p, pwMsgs[i], seqs[i])
         /\ Len(seqs[i]) \in Nat /\ DOMAIN seqs[i] = 1..Len(seqs[i])
         /\ off[i] = off[i - 1] + Len(seqs[i]) /\ off[i - 1] \in Nat
         /\ \A c \in 1..Len(seqs[i]) : off[i - 1] + c \in DOMAIN w /\ w[off[i - 1] + c] = seqs[i][c]
    /\ \A i, j \in 1..Len(pwMsgs) : i < j => off[i] <= off[j - 1]
    /\ \A b \in DOMAIN w : \E i \in 1..Len(pwMsgs) : \E c \in 1..Len(seqs[i]) :
         b = off[i - 1] + c /\ w[b] = seqs[i][c]

LEMMA WireLaid ==
    ASSUME PwIInv, NEW p \in PwProviders
    PROVE  \E seqs, off : Laid(p, PwWire(p), seqs, off)
<1> DEFINE n == Len(pwMsgs)
           seqs == [i \in DOMAIN pwMsgs |-> WireOf(p, pwMsgs[i], i)]
           w == FlattenSeq(seqs)
<1>1. n \in Nat /\ DOMAIN pwMsgs = 1..n /\ \A i \in 1..n : PwMsgOK(pwMsgs[i]) /\ i \in Nat
  BY DEF PwIInv
<1>2. \A i \in 1..n : seqs[i] = WireOf(p, pwMsgs[i], i)
  BY <1>1
<1>3. \A i \in 1..n : /\ TellsText(pwMsgs[i], i, seqs[i])
                      /\ p \in Structured => TellsCalls(p, pwMsgs[i], seqs[i])
  <2> SUFFICES ASSUME NEW i \in 1..n
               PROVE  /\ TellsText(pwMsgs[i], i, seqs[i])
                      /\ p \in Structured => TellsCalls(p, pwMsgs[i], seqs[i])
    OBVIOUS
  <2> HIDE DEF seqs, n
  <2>1. PwMsgOK(pwMsgs[i]) /\ i \in Nat /\ seqs[i] = WireOf(p, pwMsgs[i], i)
    BY <1>1, <1>2
  <2>2. QED
    BY <2>1, WireTells
<1>4. \A i \in 1..n : seqs[i] \in Seq(Blocks)
  BY <1>3 DEF TellsText
<1>5. seqs \in Seq(Seq(Blocks)) /\ Len(seqs) = n
  <2>1. seqs = [i \in 1..n |-> seqs[i]]
    BY <1>1
  <2> HIDE DEF seqs, n
  <2>2. QED
    BY <1>1, <1>4, <2>1
<1> HIDE DEF n, seqs
<1>6. PICK off : w \in Seq(Blocks) /\ Flat(w, seqs, off)
  BY <1>5, Flattened
<1> HIDE DEF w
<1>7. /\ \A i, j \in 0..n : i <= j => off[i] <= off[j]
      /\ \A b \in DOMAIN w : \E i \in 1..n : \E c \in 1..Len(seqs[i]) :
           b = off[i - 1] + c /\ w[b] = seqs[i][c]
  <2>1. seqs \in Seq(Seq(Blocks)) /\ w \in Seq(Blocks) /\ Flat(w, seqs, off)
    BY <1>5, <1>6
  <2>2. InOrder(w, seqs, off)
    BY Zenon, <2>1, Offsets
  <2>3. QED
    BY <1>5, <2>2 DEF InOrder
<1>8. /\ off[0] = 0 /\ DOMAIN w = 1..off[n] /\ \A i \in 0..n : off[i] \in Nat
      /\ \A i \in 1..n : /\ off[i] = off[i - 1] + Len(seqs[i])
                         /\ \A c \in 1..Len(seqs[i]) : w[off[i - 1] + c] = seqs[i][c]
  BY <1>5, <1>6 DEF Flat
<1>9. \A i \in 1..n : Len(seqs[i]) \in Nat /\ DOMAIN seqs[i] = 1..Len(seqs[i])
  BY <1>4
<1>10. \A i \in 1..n : i - 1 \in 0..n /\ i \in 0..n /\ n \in 0..n /\ i <= n
  BY <1>1
<1>11. \A i \in 1..n : \A c \in 1..Len(seqs[i]) : off[i - 1] + c \in DOMAIN w
  <2> SUFFICES ASSUME NEW i \in 1..n, NEW c \in 1..Len(seqs[i])
               PROVE  off[i - 1] + c \in 1..off[n]
    BY <1>8
  <2>1. off[i - 1] \in Nat /\ off[i] \in Nat /\ off[n] \in Nat /\ off[i] <= off[n] /\ off[i] = off[i - 1] + Len(seqs[i])
    BY <1>7, <1>8, <1>10
  <2>2. QED
    BY <1>9, <2>1
<1>12. \A i, j \in 1..n : i < j => off[i] <= off[j - 1]
  <2> SUFFICES ASSUME NEW i \in 1..n, NEW j \in 1..n, i < j
               PROVE  off[i] <= off[j - 1]
    OBVIOUS
  <2>1. i \in 0..n /\ j - 1 \in 0..n /\ i <= j - 1
    BY <1>1
  <2>2. QED
    BY <1>7, <2>1
<1>13. Laid(p, w, seqs, off)
  BY <1>1, <1>3, <1>5, <1>6, <1>7, <1>8, <1>9, <1>10, <1>11, <1>12 DEF Laid, n
<1>14. w = PwWire(p)
  BY DEF w, seqs, PwWire
<1>15. QED
  BY <1>13, <1>14

LEMMA TextsArrive == PwIInv => TextArrives
<1> SUFFICES ASSUME PwIInv, NEW p \in PwProviders
             PROVE  LET w == PwWire(p)
                        texts == {b \in DOMAIN w : w[b].kind \in {"text", "result"}}
                    IN  /\ {w[b].msg : b \in texts} = {i \in DOMAIN pwMsgs : pwMsgs[i].text}
                        /\ \A b, c \in texts : b < c => w[b].msg < w[c].msg
  BY DEF TextArrives
<1> DEFINE w == PwWire(p)
           n == Len(pwMsgs)
           texts == {b \in DOMAIN w : w[b].kind \in {"text", "result"}}
<1>1. PICK seqs, off : Laid(p, w, seqs, off)
  BY WireLaid
<1> HIDE DEF w
<1>2. ASSUME NEW b \in texts
      PROVE  \E i \in 1..n : \E c \in 1..Len(seqs[i]) :
               b = off[i - 1] + c /\ w[b].msg = i /\ Texty(seqs[i][c]) /\ pwMsgs[i].text
  <2>1. PICK i \in 1..n : \E c \in 1..Len(seqs[i]) : b = off[i - 1] + c /\ w[b] = seqs[i][c]
    BY <1>1 DEF Laid
  <2>2. PICK c \in 1..Len(seqs[i]) : b = off[i - 1] + c /\ w[b] = seqs[i][c]
    BY <2>1
  <2>3. c \in DOMAIN seqs[i] /\ Texty(seqs[i][c])
    BY <1>1, <2>2 DEF Laid, Texty
  <2>4. seqs[i][c].msg = i /\ pwMsgs[i].text
    BY <1>1, <2>3 DEF Laid, TellsText
  <2>5. QED
    BY <2>2, <2>3, <2>4
<1>3. ASSUME NEW i \in DOMAIN pwMsgs, pwMsgs[i].text
      PROVE  \E b \in texts : w[b].msg = i
  <2>0. i \in 1..n
    BY <1>1 DEF Laid
  <2>1. PICK c \in DOMAIN seqs[i] : Texty(seqs[i][c])
    BY <1>1, <1>3, <2>0 DEF Laid, TellsText
  <2>2. seqs[i][c].msg = i /\ c \in 1..Len(seqs[i])
    BY <1>1, <2>0, <2>1 DEF Laid, TellsText
  <2>4. off[i - 1] + c \in DOMAIN w /\ w[off[i - 1] + c] = seqs[i][c]
    BY <1>1, <2>0, <2>2 DEF Laid
  <2>3. QED
    BY <2>1, <2>2, <2>4 DEF Texty
<1>4. ASSUME NEW b \in texts, NEW d \in texts, b < d
      PROVE  w[b].msg < w[d].msg
  <2>0a. PICK i \in 1..n : \E c \in 1..Len(seqs[i]) :
          b = off[i - 1] + c /\ w[b].msg = i /\ Texty(seqs[i][c])
    BY <1>2
  <2>0b. PICK j \in 1..n : \E e \in 1..Len(seqs[j]) :
          d = off[j - 1] + e /\ w[d].msg = j /\ Texty(seqs[j][e])
    BY <1>2
  <2>1. PICK c \in 1..Len(seqs[i]) : b = off[i - 1] + c /\ w[b].msg = i /\ Texty(seqs[i][c])
    BY <2>0a
  <2>2. PICK e \in 1..Len(seqs[j]) : d = off[j - 1] + e /\ w[d].msg = j /\ Texty(seqs[j][e])
    BY <2>0b
  <2>3. i \in Nat /\ j \in Nat /\ i - 1 \in Nat
    BY <1>1 DEF Laid
  <2>4. /\ off[i - 1] \in Nat /\ off[j - 1] \in Nat /\ off[j] = off[j - 1] + Len(seqs[j])
        /\ Len(seqs[i]) \in Nat /\ Len(seqs[j]) \in Nat
    BY <1>1 DEF Laid
  <2>5. i # j
    <3> SUFFICES ASSUME i = j PROVE FALSE
      OBVIOUS
    <3>1. c \in DOMAIN seqs[i] /\ e \in DOMAIN seqs[i]
      BY <1>1 DEF Laid
    <3>2. c = e
      BY <1>1, <2>1, <2>2, <3>1 DEF Laid, TellsText
    <3>3. QED
      BY <1>4, <2>1, <2>2, <2>4, <3>2
  <2>6. ~(j < i)
    <3> SUFFICES ASSUME j < i PROVE FALSE
      OBVIOUS
    <3>1. off[j] <= off[i - 1]
      BY <1>1 DEF Laid
    <3>2. QED
      BY <1>4, <2>1, <2>2, <2>4, <3>1
  <2>7. i < j
    BY <2>3, <2>5, <2>6
  <2>8. QED
    BY <2>1, <2>2, <2>7
<1>5. {w[b].msg : b \in texts} = {i \in DOMAIN pwMsgs : pwMsgs[i].text}
  <2>1. \A b \in texts : w[b].msg \in DOMAIN pwMsgs /\ pwMsgs[w[b].msg].text
    BY <1>1, <1>2 DEF Laid
  <2> HIDE DEF texts
  <2>2. QED
    BY <1>3, <2>1
<1>6. QED
  BY <1>4, <1>5 DEF w

(* A call that is sent is the k-th of some message i, and what is sent for    *)
(* message i after it is calls.                                               *)
CallIs(p, w, off, b, i, k) ==
    /\ i \in DOMAIN pwMsgs /\ k \in DOMAIN pwMsgs[i].calls /\ w[b].msg = i
    /\ w[b].id = pwMsgs[i].calls[k].id /\ Signs(p, pwMsgs[i].calls[k], w[b])
    /\ b \in Nat /\ off[i - 1] < b /\ b <= off[i]
    /\ \A x \in b..off[i] : w[x].kind = "call"

CallsAt(p, w, off, i, h) ==
    /\ off[i - 1] \in Nat /\ off[i] = off[i - 1] + h + Len(pwMsgs[i].calls)
    /\ \A c \in 1..h : w[off[i - 1] + c].kind \in {"text", "image"}
    /\ \A k \in 1..Len(pwMsgs[i].calls) :
         LET b == off[i - 1] + (h + k) IN
         /\ b \in DOMAIN w /\ w[b].kind = "call" /\ w[b].id = pwMsgs[i].calls[k].id /\ w[b].msg = i
         /\ Signs(p, pwMsgs[i].calls[k], w[b])

LEMMA CallPart ==
    ASSUME PwIInv, NEW p \in Structured, NEW w, NEW seqs, NEW off, Laid(p, w, seqs, off),
           NEW i \in DOMAIN pwMsgs, pwMsgs[i].role # "tool"
    PROVE  \E h \in Nat : CallsAt(p, w, off, i, h)
<1> DEFINE m == pwMsgs[i]
           s == seqs[i]
           l == Len(m.calls)
           o == off[i - 1]
<1>1. /\ i \in 1..Len(pwMsgs) /\ TellsText(m, i, s) /\ TellsCalls(p, m, s)
      /\ Len(s) \in Nat /\ DOMAIN s = 1..Len(s) /\ off[i] = o + Len(s) /\ o \in Nat
      /\ \A c \in 1..Len(s) : o + c \in DOMAIN w /\ w[o + c] = s[c]
  BY DEF Laid
<1>2. m.role # "tool" /\ l \in Nat
  BY DEF PwIInv, PwMsgOK
<1> HIDE DEF s, m, l, o
<1>3. PICK h \in Nat : /\ Len(s) = h + l
                       /\ \A b \in 1..h : s[b].kind \in {"text", "image"}
                       /\ \A k \in 1..l : /\ s[h + k].kind = "call" /\ s[h + k].id = m.calls[k].id
                                          /\ Signs(p, m.calls[k], s[h + k])
  BY <1>1, <1>2 DEF TellsCalls, l
<1>4. \A c \in 1..Len(s) : s[c].msg = i
  BY <1>1 DEF TellsText
<1>5. \A c \in 1..h : w[o + c].kind \in {"text", "image"}
  <2>1. \A c \in 1..h : c \in 1..Len(s)
    BY <1>2, <1>3
  <2>2. QED
    BY <1>1, <1>3, <2>1
<1>6. ASSUME NEW k \in 1..l
      PROVE  /\ o + (h + k) \in DOMAIN w /\ w[o + (h + k)].kind = "call"
             /\ w[o + (h + k)].id = m.calls[k].id /\ w[o + (h + k)].msg = i
             /\ Signs(p, m.calls[k], w[o + (h + k)])
  <2>1. h + k \in 1..Len(s)
    BY <1>2, <1>3
  <2>2. o + (h + k) \in DOMAIN w /\ w[o + (h + k)] = s[h + k]
    BY <1>1, <2>1
  <2>3. QED
    BY <1>3, <1>4, <2>1, <2>2
<1>7. off[i] = o + h + l
  BY <1>1, <1>2, <1>3
<1>8. QED
  BY <1>1, <1>5, <1>6, <1>7 DEF CallsAt, m, l, o

LEMMA CallIsSent ==
    ASSUME PwIInv, NEW p \in Structured, NEW w, NEW seqs, NEW off, Laid(p, w, seqs, off),
           NEW i \in DOMAIN pwMsgs, NEW k \in DOMAIN pwMsgs[i].calls
    PROVE  \E b \in DOMAIN w : w[b].kind = "call" /\ w[b].id = pwMsgs[i].calls[k].id /\ b <= off[i]
<1>1. PwMsgOK(pwMsgs[i])
  BY DEF PwIInv
<1>2. /\ pwMsgs[i].role # "tool" /\ DOMAIN pwMsgs[i].calls = 1..Len(pwMsgs[i].calls)
      /\ Len(pwMsgs[i].calls) \in Nat
  BY <1>1 DEF PwMsgOK
<1> DEFINE l == Len(pwMsgs[i].calls)
           o == off[i - 1]
<1>3. PICK h \in Nat : CallsAt(p, w, off, i, h)
  BY <1>2, CallPart
<1>4. /\ o \in Nat /\ off[i] = o + h + l
      /\ o + (h + k) \in DOMAIN w /\ w[o + (h + k)].kind = "call"
      /\ w[o + (h + k)].id = pwMsgs[i].calls[k].id
  BY <1>2, <1>3 DEF CallsAt
<1>5. o + (h + k) <= off[i]
  BY <1>2, <1>4
<1>6. QED
  BY <1>4, <1>5

LEMMA CallIsOne ==
    ASSUME PwIInv, NEW p \in Structured, NEW w, NEW seqs, NEW off, Laid(p, w, seqs, off),
           NEW b \in DOMAIN w, w[b].kind = "call"
    PROVE  \E i, k : CallIs(p, w, off, b, i, k)
<1>1. PICK i \in 1..Len(pwMsgs) : \E c \in 1..Len(seqs[i]) : b = off[i - 1] + c /\ w[b] = seqs[i][c]
  BY DEF Laid
<1>2. PICK c \in 1..Len(seqs[i]) : b = off[i - 1] + c /\ w[b] = seqs[i][c]
  BY <1>1
<1> DEFINE l == Len(pwMsgs[i].calls)
           o == off[i - 1]
<1>3. /\ i \in DOMAIN pwMsgs /\ Len(seqs[i]) \in Nat /\ off[i] = o + Len(seqs[i]) /\ o \in Nat
      /\ TellsCalls(p, pwMsgs[i], seqs[i])
  BY DEF Laid
<1>4. PwMsgOK(pwMsgs[i])
  BY <1>3 DEF PwIInv
<1>5. l \in Nat /\ DOMAIN pwMsgs[i].calls = 1..l
  BY <1>4 DEF PwMsgOK
<1>6. pwMsgs[i].role # "tool"
  <2> SUFFICES ASSUME pwMsgs[i].role = "tool" PROVE FALSE
    OBVIOUS
  <2>1. Len(seqs[i]) = 1 /\ seqs[i][1].kind = "result"
    BY <1>3 DEF TellsCalls
  <2>2. QED
    BY <1>2, <2>1
<1>6a. PICK h \in Nat : CallsAt(p, w, off, i, h)
  BY <1>3, <1>6, CallPart
<1>7. /\ off[i] = o + h + l
      /\ \A j \in 1..h : w[o + j].kind \in {"text", "image"}
      /\ \A j \in 1..l : LET d == o + (h + j) IN
           /\ d \in DOMAIN w /\ w[d].kind = "call" /\ w[d].id = pwMsgs[i].calls[j].id /\ w[d].msg = i
           /\ Signs(p, pwMsgs[i].calls[j], w[d])
  BY <1>6a DEF CallsAt
<1>8. ~(c <= h)
  <2> SUFFICES ASSUME c <= h PROVE FALSE
    OBVIOUS
  <2>1. c \in 1..h
    BY <1>3
  <2>2. QED
    BY <1>2, <1>7, <2>1
<1> HIDE DEF l, o
<1>9. c \in Nat /\ c <= h + l /\ b = o + c
  BY <1>2, <1>3, <1>5, <1>7 DEF o
<1>10. c - h \in 1..l /\ b = o + (h + (c - h)) /\ b \in Nat /\ o < b /\ b <= off[i]
  BY <1>3, <1>5, <1>7, <1>8, <1>9
<1>11. ASSUME NEW x \in b..off[i] PROVE w[x].kind = "call"
  <2>1. x - o - h \in 1..l /\ x = o + (h + (x - o - h))
    BY <1>3, <1>5, <1>7, <1>8, <1>9
  <2>2. QED
    BY <1>7, <2>1
<1>12. /\ w[b].id = pwMsgs[i].calls[c - h].id /\ w[b].msg = i /\ Signs(p, pwMsgs[i].calls[c - h], w[b])
  BY <1>7, <1>10
<1>13. CallIs(p, w, off, b, i, c - h)
  BY <1>3, <1>5, <1>10, <1>11, <1>12 DEF CallIs, o
<1>14. QED
  BY <1>13

(* The result that message j is, is sent by itself.                           *)
LEMMA ResultPart ==
    ASSUME PwIInv, NEW p \in Structured, NEW w, NEW seqs, NEW off, Laid(p, w, seqs, off),
           NEW j \in DOMAIN pwMsgs, pwMsgs[j].role = "tool"
    PROVE  /\ off[j - 1] \in Nat /\ off[j] = off[j - 1] + 1 /\ off[j] \in DOMAIN w
           /\ w[off[j]].kind = "result" /\ w[off[j]].id = pwMsgs[j].id
<1>1. /\ TellsCalls(p, pwMsgs[j], seqs[j]) /\ off[j] = off[j - 1] + Len(seqs[j]) /\ off[j - 1] \in Nat
      /\ \A c \in 1..Len(seqs[j]) : off[j - 1] + c \in DOMAIN w /\ w[off[j - 1] + c] = seqs[j][c]
  BY DEF Laid
<1>2. Len(seqs[j]) = 1 /\ seqs[j][1].kind = "result" /\ seqs[j][1].id = pwMsgs[j].id
  BY <1>1 DEF TellsCalls
<1>3. off[j - 1] + 1 \in DOMAIN w /\ w[off[j - 1] + 1] = seqs[j][1]
  BY <1>1, <1>2
<1>4. QED
  BY <1>1, <1>2, <1>3

LEMMA ResultIsOne ==
    ASSUME PwIInv, NEW p \in Structured, NEW w, NEW seqs, NEW off, Laid(p, w, seqs, off),
           NEW b \in DOMAIN w, w[b].kind = "result"
    PROVE  \E j \in DOMAIN pwMsgs : pwMsgs[j].role = "tool" /\ b = off[j]
<1>1. PICK j \in 1..Len(pwMsgs) : \E c \in 1..Len(seqs[j]) : b = off[j - 1] + c /\ w[b] = seqs[j][c]
  BY DEF Laid
<1>2. PICK c \in 1..Len(seqs[j]) : b = off[j - 1] + c /\ w[b] = seqs[j][c]
  BY <1>1
<1>3. j \in DOMAIN pwMsgs /\ TellsCalls(p, pwMsgs[j], seqs[j])
  BY DEF Laid
<1>4. pwMsgs[j].role = "tool"
  <2> SUFFICES ASSUME pwMsgs[j].role # "tool" PROVE FALSE
    OBVIOUS
  <2>1. PICK h \in Nat : /\ Len(seqs[j]) = h + Len(pwMsgs[j].calls)
                         /\ \A x \in 1..h : seqs[j][x].kind \in {"text", "image"}
                         /\ \A k \in 1..Len(pwMsgs[j].calls) : seqs[j][h + k].kind = "call"
    BY <1>3 DEF TellsCalls
  <2>2. Len(pwMsgs[j].calls) \in Nat /\ Len(seqs[j]) \in Nat
    BY <1>3 DEF PwIInv, PwMsgOK, Laid
  <2>3. CASE c <= h
    <3>1. c \in 1..h
      BY <2>1, <2>2, <2>3
    <3>2. QED
      BY <1>2, <2>1, <3>1
  <2>4. CASE ~(c <= h)
    <3>1. c - h \in 1..Len(pwMsgs[j].calls) /\ h + (c - h) = c
      BY <2>1, <2>2, <2>4
    <3>2. QED
      BY <1>2, <2>1, <3>1
  <2>5. QED
    BY <2>3, <2>4
<1>5. Len(seqs[j]) = 1 /\ off[j] = off[j - 1] + Len(seqs[j]) /\ off[j - 1] \in Nat
  BY <1>3, <1>4 DEF TellsCalls, Laid
<1>6. QED
  BY <1>2, <1>3, <1>4, <1>5

LEMMA Paired == PwIInv => CallsArePaired
<1> SUFFICES ASSUME PwIInv, NEW p \in Structured
             PROVE  LET w == PwWire(p) IN
               /\ \A i \in DOMAIN pwMsgs : \A k \in DOMAIN pwMsgs[i].calls :
                    \E b \in DOMAIN w : w[b].kind = "call" /\ w[b].id = pwMsgs[i].calls[k].id
               /\ \A b \in DOMAIN w : w[b].kind = "call" =>
                    \E r \in b..Len(w) : /\ w[r].kind = "result" /\ w[r].id = w[b].id
                                         /\ \A x \in b..r : w[x].kind \in {"call", "result"}
               /\ \A r \in DOMAIN w : w[r].kind = "result" =>
                    \E b \in 1..r : w[b].kind = "call" /\ w[b].id = w[r].id
  BY DEF CallsArePaired
<1> DEFINE w == PwWire(p)
           n == Len(pwMsgs)
<1>0. p \in PwProviders
  BY DEF Structured, PwProviders
<1>1. PICK seqs, off : Laid(p, w, seqs, off)
  BY <1>0, WireLaid
<1> HIDE DEF w
<1>2. /\ n \in Nat /\ DOMAIN pwMsgs = 1..n /\ w \in Seq(Blocks) /\ Len(w) \in Nat /\ DOMAIN w = 1..Len(w)
      /\ \A i \in 0..n : off[i] \in Nat
  BY <1>1 DEF Laid
<1>2a. \A i, j \in 1..n : i < j => off[i] <= off[j - 1]
  BY <1>1 DEF Laid
<1>3. \A i \in DOMAIN pwMsgs : \A k \in DOMAIN pwMsgs[i].calls :
        \E b \in DOMAIN w : w[b].kind = "call" /\ w[b].id = pwMsgs[i].calls[k].id
  BY <1>1, CallIsSent
<1>4. ASSUME NEW b \in DOMAIN w, w[b].kind = "call"
      PROVE  \E r \in b..Len(w) : /\ w[r].kind = "result" /\ w[r].id = w[b].id
                                  /\ \A x \in b..r : w[x].kind \in {"call", "result"}
  <2>1. PICK i, k : CallIs(p, w, off, b, i, k)
    BY <1>1, <1>4, CallIsOne
  <2>2. /\ i \in 1..n /\ k \in DOMAIN pwMsgs[i].calls /\ w[b].id = pwMsgs[i].calls[k].id
        /\ b \in Nat /\ off[i - 1] < b /\ b <= off[i] /\ \A x \in b..off[i] : w[x].kind = "call"
    BY <1>2, <2>1 DEF CallIs
  <2> DEFINE l == Len(pwMsgs[i].calls)
  <2>3. l \in Nat /\ DOMAIN pwMsgs[i].calls = 1..l
    BY <1>2, <2>2 DEF PwIInv, PwMsgOK
  <2>4. \A c \in 1..l : i + c \in 1..n /\ pwMsgs[i + c].role = "tool" /\ pwMsgs[i + c].id = pwMsgs[i].calls[c].id
    BY <1>2, <2>2, <2>3 DEF PwIInv, Follow
  <2> HIDE DEF l, n
  <2> DEFINE j == i + k
             r == off[j]
  <2>5. k \in 1..l /\ j \in 1..n /\ i < j /\ j \in Nat /\ i \in Nat /\ k \in Nat
    BY <1>2, <2>2, <2>3, <2>4
  <2>6. /\ off[j - 1] \in Nat /\ r = off[j - 1] + 1 /\ r \in DOMAIN w /\ w[r].kind = "result" /\ w[r].id = w[b].id
    <3>1. j \in DOMAIN pwMsgs /\ pwMsgs[j].role = "tool" /\ pwMsgs[j].id = pwMsgs[i].calls[k].id
      BY <1>2, <2>4, <2>5
    <3> HIDE DEF j
    <3>2. QED
      BY <1>1, <2>2, <3>1, ResultPart
  <2>7. off[i] <= off[j - 1] /\ off[i] \in Nat
    <3> HIDE DEF j
    <3>1. i \in 0..n
      BY <1>2, <2>2
    <3>2. QED
      BY <1>2, <1>2a, <2>2, <2>5, <3>1
  <2> HIDE DEF r
  <2>8. r \in b..Len(w)
    BY <1>2, <2>2, <2>6, <2>7
  <2>9. ASSUME NEW x \in b..r PROVE w[x].kind \in {"call", "result"}
    <3>0. x \in DOMAIN w /\ x \in Nat /\ b <= x /\ x <= r
      BY <1>2, <2>2, <2>8
    <3>1. PICK y \in 1..n : \E c \in 1..Len(seqs[y]) : x = off[y - 1] + c /\ w[x] = seqs[y][c]
      BY <1>1, <3>0 DEF Laid, n
    <3>2. PICK c \in 1..Len(seqs[y]) : x = off[y - 1] + c /\ w[x] = seqs[y][c]
      BY <3>1
    <3>3. off[y] = off[y - 1] + Len(seqs[y]) /\ off[y - 1] \in Nat /\ Len(seqs[y]) \in Nat /\ off[y] \in Nat
      BY <1>1, <1>2 DEF Laid, n
    <3>4. off[y - 1] < x /\ x <= off[y]
      BY <3>2, <3>3
    <3>5. ~(y < i)
      <4> SUFFICES ASSUME y < i PROVE FALSE
        OBVIOUS
      <4>1. off[y] <= off[i - 1]
        BY <1>2a, <2>2
      <4>2. off[i - 1] \in Nat
        <5>1. i - 1 \in 0..n
          BY <1>2, <2>2
        <5>2. QED
          BY <1>2, <5>1
      <4>3. QED
        BY <2>2, <3>0, <3>3, <3>4, <4>1, <4>2
    <3>6. ~(j < y)
      <4> SUFFICES ASSUME j < y PROVE FALSE
        OBVIOUS
      <4>1. off[j] <= off[y - 1]
        BY <1>2a, <2>5
      <4>2. off[j] \in Nat /\ x <= off[j]
        BY <2>6, <3>0 DEF r
      <4>3. QED
        BY <3>3, <3>4, <4>1, <4>2
    <3>7. CASE y = i
      <4>1. x \in b..off[i]
        BY <2>2, <2>7, <3>0, <3>4, <3>7
      <4>2. QED
        BY <2>2, <4>1
    <3>8. CASE y # i
      <4>1. y - i \in 1..l /\ y = i + (y - i)
        BY <1>2, <2>3, <2>5, <3>5, <3>6, <3>8
      <4>2. y \in DOMAIN pwMsgs /\ pwMsgs[y].role = "tool"
        BY <1>2, <2>4, <4>1
      <4>3. off[y] = off[y - 1] + 1 /\ w[off[y]].kind = "result"
        BY <1>1, <4>2, ResultPart
      <4>4. x = off[y]
        BY <3>0, <3>3, <3>4, <4>3
      <4>5. QED
        BY <4>3, <4>4
    <3>9. QED
      BY <3>7, <3>8
  <2>10. QED
    BY <2>6, <2>8, <2>9
<1>5. ASSUME NEW r \in DOMAIN w, w[r].kind = "result"
      PROVE  \E b \in 1..r : w[b].kind = "call" /\ w[b].id = w[r].id
  <2>1. PICK j \in DOMAIN pwMsgs : pwMsgs[j].role = "tool" /\ r = off[j]
    BY <1>1, <1>5, ResultIsOne
  <2>2. off[j - 1] \in Nat /\ r = off[j - 1] + 1 /\ w[r].id = pwMsgs[j].id
    BY <1>1, <2>1, ResultPart
  <2>3. PICK i \in DOMAIN pwMsgs : \E k \in DOMAIN pwMsgs[i].calls : j = i + k
    BY <2>1 DEF PwIInv, AnswersCalls
  <2>4. PICK k \in DOMAIN pwMsgs[i].calls : j = i + k
    BY <2>3
  <2>5. pwMsgs[j].id = pwMsgs[i].calls[k].id /\ k \in Nat \ {0}
    <3>1. pwMsgs[i].calls \in Seq(PwCalls)
      BY DEF PwIInv, PwMsgOK
    <3>2. k \in Nat \ {0}
      BY <3>1
    <3>3. QED
      BY <2>4, <3>2 DEF PwIInv, Follow
  <2>6. PICK b \in DOMAIN w : w[b].kind = "call" /\ w[b].id = pwMsgs[i].calls[k].id /\ b <= off[i]
    BY <1>1, CallIsSent
  <2>7. off[i] <= off[j - 1] /\ off[i] \in Nat
    <3>1. i < j /\ i \in 1..n /\ j \in 1..n /\ i \in 0..n
      BY <1>2, <2>4, <2>5
    <3>2. QED
      BY <1>2, <1>2a, <3>1
  <2>8. b \in 1..r
    BY <1>2, <2>2, <2>6, <2>7
  <2>9. QED
    BY <2>2, <2>5, <2>6, <2>8
<1>6. QED
  BY <1>3, <1>4, <1>5 DEF w

LEMMA Signed == PwIInv => SignaturesReturn
<1> SUFFICES ASSUME PwIInv, NEW p \in {"gemini", "antigravity"}, NEW b \in DOMAIN PwWire(p),
                    PwWire(p)[b].kind = "call"
             PROVE  LET w == PwWire(p)
                        m == pwMsgs[w[b].msg] c == CHOOSE x \in Range(m.calls) : x.id = w[b].id
                    IN  c.by = p => w[b].sig
  BY DEF SignaturesReturn
<1> DEFINE w == PwWire(p)
<1>0. p \in PwProviders /\ p \in Structured
  BY DEF Structured, PwProviders
<1>1. PICK seqs, off : Laid(p, w, seqs, off)
  BY <1>0, WireLaid
<1>1a. w[b].kind = "call" /\ b \in DOMAIN w
  OBVIOUS
<1> HIDE DEF w
<1>2. PICK i, k : CallIs(p, w, off, b, i, k)
  BY <1>0, <1>1, <1>1a, CallIsOne
<1>3. /\ i \in DOMAIN pwMsgs /\ k \in DOMAIN pwMsgs[i].calls /\ w[b].msg = i
      /\ w[b].id = pwMsgs[i].calls[k].id /\ Signs(p, pwMsgs[i].calls[k], w[b])
  BY <1>2 DEF CallIs
<1> DEFINE calls == pwMsgs[i].calls
           c == CHOOSE x \in Range(calls) : x.id = w[b].id
<1>4. /\ calls \in Seq(PwCalls)
      /\ \A j \in DOMAIN calls : calls[j].id = calls[k].id => j = k
      /\ calls[k].by = "gemini" => calls[k].sig = "extra"
      /\ calls[k].by = "antigravity" => calls[k].sig = "function"
  <2>1. PwMsgOK(pwMsgs[i])
    BY <1>3 DEF PwIInv
  <2>2. QED
    BY <1>3, <2>1 DEF PwMsgOK
<1>5. Range(calls) = {calls[j] : j \in DOMAIN calls}
  BY DEF Range
<1> HIDE DEF calls
<1>6. c = calls[k]
  <2>1. calls[k] \in Range(calls) /\ calls[k].id = w[b].id
    BY <1>3, <1>5 DEF calls
  <2>2. c \in Range(calls) /\ c.id = w[b].id
    BY <2>1
  <2>3. PICK j \in DOMAIN calls : c = calls[j]
    BY <1>5, <2>2
  <2>4. QED
    BY <1>4, <2>1, <2>2, <2>3
<1>7. c.by = p => w[b].sig
  BY <1>3, <1>4, <1>6 DEF Signs, calls
<1>8. QED
  BY <1>3, <1>7 DEF w, calls

LEMMA PwTyped == PwIInv => PwTypeOK
<1> SUFFICES ASSUME PwIInv PROVE PwTypeOK
  OBVIOUS
<1>1. \A i \in DOMAIN pwMsgs : PwMsgOK(pwMsgs[i])
  BY DEF PwIInv
<1>2. \A i \in DOMAIN pwMsgs : LET m == pwMsgs[i] IN
        /\ m.role \in {"user", "assistant", "tool"} /\ {m.text, m.image} \subseteq BOOLEAN
        /\ \A k \in DOMAIN m.calls : m.calls[k] \in PwCalls
        /\ m.id \in Nat
  BY <1>1 DEF PwMsgOK
<1>3. Len(pwMsgs) <= PwMaxMsgs /\ {pwDue, pwFailed} \subseteq BOOLEAN
  BY DEF PwIInv
<1>4. QED
  BY <1>2, <1>3 DEF PwTypeOK

LEMMA PwImplies == PwIInv => PwInv
  BY Paired, TextsArrive, Signed, PwTyped DEF PwInv

(* The conversation: the part of PwIInv that is about the messages.           *)
Conversing(ms) ==
    /\ ms \in Seq(PwMessages) /\ \A i \in DOMAIN ms : PwMsgOK(ms[i])
    /\ Follow(ms) /\ AnswersCalls(ms)

(* The session keeps of a message all but its image and the names in Name.    *)
StoredAs(m, s) ==
    /\ s \in PwMessages /\ PwMsgOK(s) /\ s.role = m.role /\ s.id = m.id
    /\ DOMAIN s.calls = DOMAIN m.calls /\ \A k \in DOMAIN m.calls : s.calls[k].id = m.calls[k].id

LEMMA StoredKeeps ==
    ASSUME NEW m \in PwMessages, PwMsgOK(m)
    PROVE  StoredAs(m, Stored(m))
<1> DEFINE s == Stored(m)
           calls == [k \in DOMAIN m.calls |-> [m.calls[k] EXCEPT !.name = FALSE]]
           n == Len(m.calls)
<1>1. s = [m EXCEPT !.image = FALSE, !.calls = calls]
  BY DEF Stored
<1>2. n \in Nat /\ DOMAIN m.calls = 1..n /\ \A k \in 1..n : m.calls[k] \in PwCalls
  BY DEF PwMessages
<1>3. \A k \in 1..n : /\ calls[k] \in PwCalls /\ calls[k].id = m.calls[k].id /\ calls[k].func = m.calls[k].func
                      /\ calls[k].by = m.calls[k].by /\ calls[k].sig = m.calls[k].sig
  BY <1>2 DEF PwCalls
<1>4. calls \in Seq(PwCalls) /\ Len(calls) = n /\ DOMAIN calls = 1..n
  <2>1. calls = [k \in 1..n |-> calls[k]]
    BY <1>2
  <2> HIDE DEF calls, n
  <2>2. QED
    BY <1>2, <1>3, <2>1
<1>5. m.calls = <<>> => calls = <<>>
  BY <1>2, <1>4
<1> HIDE DEF calls
<1>6. /\ s \in PwMessages /\ s.role = m.role /\ s.id = m.id /\ s.text = m.text /\ s.image = FALSE /\ s.calls = calls
  BY <1>1, <1>4 DEF PwMessages
<1> HIDE DEF s
<1>7. PwMsgOK(s)
  <2>1. /\ m.role \in {"user", "assistant", "tool"} /\ m.text \in BOOLEAN /\ m.id \in Nat /\ n <= PwMaxCalls
        /\ m.role # "assistant" => m.calls = <<>>
        /\ m.role = "tool" => m.text
        /\ \A k \in 1..n :
             /\ m.calls[k].func
             /\ m.calls[k].by = "gemini" => m.calls[k].sig = "extra"
             /\ m.calls[k].by = "antigravity" => m.calls[k].sig = "function"
             /\ \A j \in 1..n : m.calls[j].id = m.calls[k].id => j = k
    BY <1>2 DEF PwMsgOK
  <2>2. \A k \in 1..n :
             /\ calls[k].func
             /\ calls[k].by = "gemini" => calls[k].sig = "extra"
             /\ calls[k].by = "antigravity" => calls[k].sig = "function"
             /\ \A j \in 1..n : calls[j].id = calls[k].id => j = k
    BY <1>3, <2>1
  <2>3. QED
    BY <1>4, <1>5, <1>6, <2>1, <2>2 DEF PwMsgOK
<1>8. QED
  BY <1>2, <1>3, <1>4, <1>6, <1>7 DEF StoredAs, s

LEMMA RereadKeeps ==
    ASSUME NEW ms, Conversing(ms)
    PROVE  /\ Conversing([i \in DOMAIN ms |-> Stored(ms[i])])
           /\ Len([i \in DOMAIN ms |-> Stored(ms[i])]) = Len(ms)
<1> DEFINE n == Len(ms)
           st == [i \in DOMAIN ms |-> Stored(ms[i])]
<1>1. n \in Nat /\ DOMAIN ms = 1..n /\ \A i \in 1..n : ms[i] \in PwMessages /\ PwMsgOK(ms[i])
  BY DEF Conversing
<1>2. \A i \in 1..n : StoredAs(ms[i], st[i])
  BY <1>1, StoredKeeps
<1>3. st = [i \in 1..n |-> st[i]] /\ \A i \in 1..n : st[i] \in PwMessages /\ PwMsgOK(st[i])
  BY <1>1, <1>2 DEF StoredAs
<1> HIDE DEF st
<1>4. st \in Seq(PwMessages) /\ Len(st) = n /\ DOMAIN st = 1..n
  <2> HIDE DEF n
  <2>1. QED
    BY <1>1, <1>3
<1> HIDE DEF n
<1>5. Follow(st)
  <2> SUFFICES ASSUME NEW i \in 1..n, NEW k \in DOMAIN st[i].calls
               PROVE  i + k \in 1..n /\ st[i + k].role = "tool" /\ st[i + k].id = st[i].calls[k].id
    BY <1>4 DEF Follow
  <2>1. k \in DOMAIN ms[i].calls /\ st[i].calls[k].id = ms[i].calls[k].id
    BY <1>2 DEF StoredAs
  <2>2. i + k \in 1..n /\ ms[i + k].role = "tool" /\ ms[i + k].id = ms[i].calls[k].id
    BY <1>1, <2>1 DEF Conversing, Follow
  <2>3. st[i + k].role = ms[i + k].role /\ st[i + k].id = ms[i + k].id
    BY <1>2, <2>2 DEF StoredAs
  <2>4. QED
    BY <2>1, <2>2, <2>3
<1>6. AnswersCalls(st)
  <2> SUFFICES ASSUME NEW j \in 1..n, st[j].role = "tool"
               PROVE  \E i \in 1..n : \E k \in DOMAIN st[i].calls : j = i + k
    BY <1>4 DEF AnswersCalls
  <2>1. ms[j].role = "tool"
    BY <1>2 DEF StoredAs
  <2>2. PICK i \in 1..n : \E k \in DOMAIN ms[i].calls : j = i + k
    BY <1>1, <2>1 DEF Conversing, AnswersCalls
  <2>3. DOMAIN st[i].calls = DOMAIN ms[i].calls
    BY <1>2 DEF StoredAs
  <2>4. QED
    BY <2>2, <2>3
<1>7. QED
  BY <1>3, <1>4, <1>5, <1>6 DEF Conversing, st, n

(* A message and the results of its calls are added.                          *)
LEMMA AnswerConverses ==
    ASSUME NEW ms, Conversing(ms), NEW m \in PwMessages, PwMsgOK(m), m.role # "tool",
           NEW rs \in Seq(PwMessages), Len(rs) = Len(m.calls),
           \A k \in 1..Len(rs) : PwMsgOK(rs[k]) /\ rs[k].role = "tool" /\ rs[k].id = m.calls[k].id
    PROVE  Conversing(Append(ms, m) \o rs) /\ Len(Append(ms, m) \o rs) = Len(ms) + 1 + Len(rs)
<1> DEFINE n == Len(ms)
           a == Append(ms, m)
           l == Len(rs)
           g == a \o rs
<1>1. /\ n \in Nat /\ DOMAIN ms = 1..n /\ ms \in Seq(PwMessages) /\ \A i \in 1..n : PwMsgOK(ms[i])
      /\ Follow(ms) /\ AnswersCalls(ms)
  BY DEF Conversing
<1>2. l \in Nat /\ DOMAIN m.calls = 1..l
  BY DEF PwMessages
<1>3. CallAdded(PwMessages, ms, m, rs, a, g)
  BY Zenon, <1>1, CallAndDue
<1> HIDE DEF a, g
<1>4. g \in Seq(PwMessages) /\ Len(g) = n + 1 + l
  BY <1>3 DEF CallAdded
<1>5. /\ Len(g) = n + 1 + l /\ DOMAIN g = 1..(n + 1 + l)
      /\ \A i \in 1..n : g[i] = ms[i]
      /\ g[n + 1] = m
      /\ \A k \in 1..l : g[n + 1 + k] = rs[k]
  <2>1. DOMAIN g = 1..(n + 1 + l)
    <3> HIDE DEF n, l
    <3>1. QED
      BY <1>4
  <2>2. QED
    BY <1>3, <1>4, <2>1 DEF CallAdded
<1> HIDE DEF n, l
<1>6. \A k \in 1..l : PwMsgOK(rs[k]) /\ rs[k].role = "tool" /\ rs[k].id = m.calls[k].id /\ rs[k].calls = <<>>
  BY DEF l, PwMsgOK
<1>7. ASSUME NEW i \in 1..(n + 1 + l)
      PROVE  \/ i \in 1..n
             \/ i = n + 1
             \/ \E k \in 1..l : i = n + 1 + k
  <2>1. CASE i <= n + 1
    BY <1>1, <2>1
  <2>2. CASE ~(i <= n + 1)
    <3>1. i - (n + 1) \in 1..l /\ i = n + 1 + (i - (n + 1))
      BY <1>1, <1>2, <2>2
    <3>2. QED
      BY <3>1
  <2>3. QED
    BY <2>1, <2>2
<1>8. \A i \in 1..(n + 1 + l) : PwMsgOK(g[i])
  BY <1>1, <1>5, <1>6, <1>7
<1>9. Follow(g)
  <2> SUFFICES ASSUME NEW i \in 1..(n + 1 + l), NEW k \in DOMAIN g[i].calls
               PROVE  i + k \in 1..(n + 1 + l) /\ g[i + k].role = "tool" /\ g[i + k].id = g[i].calls[k].id
    BY <1>5 DEF Follow
  <2>1. CASE i \in 1..n
    <3>1. g[i] = ms[i] /\ k \in DOMAIN ms[i].calls
      BY <1>5, <2>1
    <3>2. i + k \in 1..n /\ ms[i + k].role = "tool" /\ ms[i + k].id = ms[i].calls[k].id
      BY <1>1, <2>1, <3>1 DEF Follow
    <3>3. g[i + k] = ms[i + k] /\ i + k \in 1..(n + 1 + l)
      BY <1>1, <1>2, <1>5, <3>2
    <3>4. QED
      BY <3>1, <3>2, <3>3
  <2>2. CASE i = n + 1
    <3>1. g[i] = m /\ k \in 1..l
      BY <1>2, <1>5, <2>2
    <3>2. g[i + k] = rs[k]
      BY <1>5, <2>2, <3>1
    <3>3. i + k \in 1..(n + 1 + l)
      BY <1>1, <1>2, <2>2, <3>1
    <3>4. QED
      BY <1>6, <3>1, <3>2, <3>3
  <2>3. CASE \E c \in 1..l : i = n + 1 + c
    <3>1. g[i].calls = <<>>
      BY <1>5, <1>6, <2>3
    <3>2. QED
      BY <3>1
  <2>4. QED
    BY <1>7, <2>1, <2>2, <2>3
<1>10. AnswersCalls(g)
  <2> SUFFICES ASSUME NEW j \in 1..(n + 1 + l), g[j].role = "tool"
               PROVE  \E i \in 1..(n + 1 + l) : \E k \in DOMAIN g[i].calls : j = i + k
    BY <1>5 DEF AnswersCalls
  <2>1. CASE j \in 1..n
    <3>1. PICK i \in 1..n : \E k \in DOMAIN ms[i].calls : j = i + k
      BY <1>1, <1>5, <2>1 DEF AnswersCalls
    <3>2. g[i] = ms[i] /\ i \in 1..(n + 1 + l)
      BY <1>1, <1>2, <1>5
    <3>3. QED
      BY <3>1, <3>2
  <2>2. CASE j = n + 1
    BY <1>5, <2>2
  <2>3. CASE \E c \in 1..l : j = n + 1 + c
    <3>1. n + 1 \in 1..(n + 1 + l) /\ DOMAIN g[n + 1].calls = 1..l
      BY <1>1, <1>2, <1>5
    <3>2. QED
      BY <2>3, <3>1
  <2>4. QED
    BY <1>7, <2>1, <2>2, <2>3
<1>11. Conversing(g) /\ Len(g) = n + 1 + l
  BY <1>4, <1>5, <1>8, <1>9, <1>10 DEF Conversing
<1>12. QED
  BY <1>11 DEF g, a, n, l

LEMMA NextIdTyped == PwIInv => NextId \in Nat
<1> SUFFICES ASSUME PwIInv PROVE NextId \in Nat
  OBVIOUS
<1> DEFINE S == UNION {{<<i, k>> : k \in DOMAIN pwMsgs[i].calls} : i \in DOMAIN pwMsgs}
           L == Len(pwMsgs)
<1>1. L \in Nat /\ DOMAIN pwMsgs = 1..L /\ \A i \in 1..L : PwMsgOK(pwMsgs[i])
  BY DEF PwIInv
<1>2. \A i \in 1..L : DOMAIN pwMsgs[i].calls \subseteq 1..PwMaxCalls
  BY <1>1, PwAssumption DEF PwMsgOK
<1>3. S \subseteq (1..L) \X (1..PwMaxCalls)
  BY <1>1, <1>2
<1>4. IsFiniteSet(1..L) /\ IsFiniteSet(1..PwMaxCalls)
  BY <1>1, PwAssumption, FS_Interval
<1>5. IsFiniteSet((1..L) \X (1..PwMaxCalls))
  BY <1>4, FS_Product
<1>6. IsFiniteSet(S)
  BY <1>3, <1>5, FS_Subset
<1> HIDE DEF S
<1>7. Cardinality(S) \in Nat
  BY <1>6, FS_CardinalityType
<1>8. NextId = 1 + Cardinality(S)
  BY DEF NextId, S
<1>9. QED
  BY <1>7, <1>8

LEMMA PwStarts == PwInit => PwIInv
<1> SUFFICES ASSUME PwInit PROVE PwIInv
  OBVIOUS
<1>1. pwMsgs = <<>> /\ pwDue = FALSE /\ pwFailed = FALSE /\ Len(pwMsgs) = 0 /\ DOMAIN pwMsgs = {}
  BY DEF PwInit
<1>2. pwMsgs \in Seq(PwMessages) /\ Len(pwMsgs) <= PwMaxMsgs
  BY <1>1, PwAssumption
<1>3. QED
  BY <1>1, <1>2 DEF PwIInv, Follow, AnswersCalls

LEMMA ConversingIs == PwIInv <=> /\ pwDue \in BOOLEAN /\ pwFailed \in BOOLEAN /\ Len(pwMsgs) <= PwMaxMsgs
                                 /\ Conversing(pwMsgs)
  BY DEF PwIInv, Conversing

LEMMA MessageTyped ==
    ASSUME NEW role \in {"user", "assistant", "tool"}, NEW text \in BOOLEAN
    PROVE  LET b == PwMessage(role, text) IN
           /\ b \in PwMessages /\ b.role = role /\ b.text = text /\ b.image = FALSE
           /\ b.calls = <<>> /\ b.id = 0
<1>1. <<>> \in Seq(PwCalls)
  OBVIOUS
<1> DEFINE none == <<>>
<1>2. PwMessage(role, text) = [role |-> role, text |-> text, image |-> FALSE, calls |-> none, id |-> 0]
  BY DEF PwMessage
<1>3. none \in Seq(PwCalls)
  BY <1>1
<1> HIDE DEF none
<1>4. QED
  BY <1>2, <1>3 DEF PwMessages, none

LEMMA AskKeeps ==
    ASSUME PwIInv, NEW text \in BOOLEAN, NEW image \in BOOLEAN, PwAsk(text, image)
    PROVE  PwIInv'
<1> DEFINE st == [i \in DOMAIN pwMsgs |-> Stored(pwMsgs[i])]
           m == [PwMessage("user", text) EXCEPT !.image = image]
<1>1. /\ pwMsgs' = Append(st, m) /\ pwDue' = TRUE /\ pwFailed' = pwFailed /\ Len(pwMsgs) < PwMaxMsgs
  BY DEF PwAsk
<1>2. Conversing(st) /\ Len(st) = Len(pwMsgs)
  BY ConversingIs, RereadKeeps
<1>3. /\ m.role = "user" /\ m.text = text /\ m.image = image /\ m.calls = <<>> /\ m.id = 0 /\ m \in PwMessages
  <2> DEFINE b == PwMessage("user", text)
  <2>1. b \in PwMessages /\ b.role = "user" /\ b.text = text /\ b.calls = <<>> /\ b.id = 0
    BY MessageTyped
  <2>2. m = [b EXCEPT !.image = image]
    OBVIOUS
  <2> HIDE DEF b, m
  <2>3. QED
    BY <2>1, <2>2 DEF PwMessages
<1> HIDE DEF st, m
<1>4. Len(m.calls) = 0 /\ DOMAIN m.calls = {} /\ m.calls \in Seq(PwCalls)
  BY <1>3
<1>5. PwMsgOK(m)
  BY <1>3, <1>4, PwAssumption DEF PwMsgOK
<1> DEFINE none == <<>>
<1>6. none \in Seq(PwMessages) /\ Len(none) = 0
  OBVIOUS
<1>7. Append(st, m) \o none = Append(st, m)
  <2>1. Append(st, m) \in Seq(PwMessages)
    BY <1>2, <1>3 DEF Conversing
  <2>2. QED
    BY <2>1, ConcatEmptySeq
<1>8. Conversing(Append(st, m) \o none) /\ Len(Append(st, m) \o none) = Len(st) + 1 + Len(none)
  <2> HIDE DEF none
  <2>1. m.role # "tool" /\ Len(none) = Len(m.calls) /\ none \in Seq(PwMessages)
        /\ \A k \in 1..Len(none) : PwMsgOK(none[k]) /\ none[k].role = "tool" /\ none[k].id = m.calls[k].id
    BY <1>3, <1>4, <1>6
  <2>2. QED
    BY <1>2, <1>3, <1>5, <2>1, AnswerConverses
<1>9. Conversing(pwMsgs') /\ Len(pwMsgs') = Len(pwMsgs) + 1
  BY <1>1, <1>2, <1>6, <1>7, <1>8
<1>10. Len(pwMsgs') <= PwMaxMsgs
  <2>1. Len(pwMsgs) \in Nat
    BY DEF PwIInv
  <2>2. QED
    BY <1>1, <1>9, <2>1, PwAssumption
<1>11. pwDue' \in BOOLEAN /\ pwFailed' \in BOOLEAN
  BY <1>1 DEF PwIInv
<1>12. QED
  BY <1>9, <1>10, <1>11 DEF PwIInv, Conversing

LEMMA PwRereadKeeps == ASSUME PwIInv, PwReread PROVE PwIInv'
<1> DEFINE st == [i \in DOMAIN pwMsgs |-> Stored(pwMsgs[i])]
<1>1. pwMsgs' = st /\ pwDue' = pwDue /\ pwFailed' = pwFailed
  BY DEF PwReread
<1>2. Conversing(st) /\ Len(st) = Len(pwMsgs)
  BY ConversingIs, RereadKeeps
<1> HIDE DEF st
<1>3. QED
  BY <1>1, <1>2 DEF PwIInv, Conversing

(* The calls an adapter finds in an answer, with both names.                  *)
LEMMA CallsParsed ==
    ASSUME NEW p \in PwProviders, NEW id \in Nat,
           NEW c, c = NormalizeToolCall(ParsedCall(p, id))
    PROVE  /\ c \in PwCalls /\ c.id = id /\ c.func
           /\ c.by = "gemini" => c.sig = "extra"
           /\ c.by = "antigravity" => c.sig = "function"
<1> DEFINE d == ParsedCall(p, id)
           sg == CASE p = "gemini" -> "extra" [] p = "antigravity" -> "function" [] OTHER -> "none"
           fn == p \in {"anthropic_messages", "antigravity", "claude_cli", "codex_cli"}
<1>1. sg \in {"none", "function", "extra"} /\ (p = "gemini" => sg = "extra") /\ (p = "antigravity" => sg = "function")
  OBVIOUS
<1>2. fn \in BOOLEAN
  OBVIOUS
<1>3. d = [id |-> id, name |-> TRUE, by |-> p, func |-> fn, sig |-> sg]
  BY DEF ParsedCall
<1> HIDE DEF d, sg, fn
<1>4. c = [d EXCEPT !.name = d.name \/ d.func, !.func = d.name \/ d.func]
  BY DEF NormalizeToolCall, d
<1>5. d \in PwCalls /\ d.name = TRUE /\ d.id = id /\ d.by = p /\ d.sig = sg
  BY <1>1, <1>2, <1>3 DEF PwCalls
<1>6. (d.name \/ d.func) = TRUE
  BY <1>5
<1>7. c = [d EXCEPT !.name = TRUE, !.func = TRUE]
  BY <1>4, <1>6
<1>8. c \in PwCalls /\ c.id = id /\ c.func = TRUE /\ c.by = p /\ c.sig = sg
  BY <1>5, <1>7 DEF PwCalls
<1>9. QED
  BY <1>1, <1>8

LEMMA AnswerKeeps ==
    ASSUME PwIInv, NEW p \in PwProviders, NEW chat, NEW e, NEW n \in 0..PwMaxCalls, NEW text \in BOOLEAN,
           PwAnswer(p, chat, e, n, text)
    PROVE  PwIInv'
<1> DEFINE calls == [k \in 1..n |-> NormalizeToolCall(ParsedCall(p, NextId + k - 1))]
           rs == [k \in 1..n |-> [PwMessage("tool", TRUE) EXCEPT !.id = calls[k].id]]
           m == [PwMessage("assistant", text \/ n = 0) EXCEPT !.calls = calls]
<1>1. /\ Len(pwMsgs) + n < PwMaxMsgs /\ pwFailed' \in BOOLEAN /\ pwDue' \in BOOLEAN
      /\ pwMsgs' = pwMsgs \/ pwMsgs' = Append(pwMsgs, m) \o rs
  <2> DEFINE error == chat[e] = "error"
  <2>1. /\ Len(pwMsgs) + n < PwMaxMsgs /\ pwFailed' = error
        /\ IF error THEN pwDue' = FALSE /\ UNCHANGED pwMsgs
           ELSE pwDue' = (n > 0) /\ pwMsgs' = Append(pwMsgs, m) \o rs
    BY Zenon DEF PwAnswer
  <2>2. error \in BOOLEAN /\ (n > 0) \in BOOLEAN
    OBVIOUS
  <2> HIDE DEF error, m, rs
  <2>3. pwFailed' \in BOOLEAN
    BY <2>1, <2>2
  <2>4. pwDue' \in BOOLEAN
    BY <2>1, <2>2
  <2>5. QED
    BY <2>1, <2>3, <2>4
<1>2. NextId \in Nat /\ n \in Nat /\ n <= PwMaxCalls
  BY NextIdTyped, PwAssumption
<1>3. \A k \in 1..n : /\ calls[k] \in PwCalls /\ calls[k].id = NextId + k - 1 /\ calls[k].func
                      /\ calls[k].by = "gemini" => calls[k].sig = "extra"
                      /\ calls[k].by = "antigravity" => calls[k].sig = "function"
  <2> SUFFICES ASSUME NEW k \in 1..n
               PROVE  /\ calls[k] \in PwCalls /\ calls[k].id = NextId + k - 1 /\ calls[k].func
                      /\ calls[k].by = "gemini" => calls[k].sig = "extra"
                      /\ calls[k].by = "antigravity" => calls[k].sig = "function"
    OBVIOUS
  <2>1. NextId + k - 1 \in Nat
    BY <1>2
  <2>2. calls[k] = NormalizeToolCall(ParsedCall(p, NextId + k - 1))
    OBVIOUS
  <2> HIDE DEF calls
  <2>3. QED
    BY <2>1, <2>2, CallsParsed
<1>4. calls = [k \in 1..n |-> calls[k]] /\ rs = [k \in 1..n |-> [PwMessage("tool", TRUE) EXCEPT !.id = calls[k].id]]
  OBVIOUS
<1> HIDE DEF calls
<1>5. calls \in Seq(PwCalls) /\ Len(calls) = n /\ DOMAIN calls = 1..n
  BY <1>2, <1>3, <1>4
<1>6. ASSUME NEW k \in 1..n
      PROVE  rs[k] \in PwMessages /\ PwMsgOK(rs[k]) /\ rs[k].role = "tool" /\ rs[k].id = calls[k].id
  <2> DEFINE r == rs[k]
  <2>1. r = [PwMessage("tool", TRUE) EXCEPT !.id = calls[k].id] /\ calls[k].id \in Nat
    BY <1>3, <1>4 DEF PwCalls
  <2> HIDE DEF r
  <2>2. /\ r.role = "tool" /\ r.text = TRUE /\ r.image = FALSE /\ r.calls = <<>> /\ r.id = calls[k].id
        /\ r \in PwMessages
    <3> DEFINE b == PwMessage("tool", TRUE)
    <3>1. b \in PwMessages /\ b.role = "tool" /\ b.text = TRUE /\ b.image = FALSE /\ b.calls = <<>>
      BY MessageTyped
    <3>2. r = [b EXCEPT !.id = calls[k].id]
      BY <2>1
    <3> HIDE DEF b
    <3>3. QED
      BY <2>1, <3>1, <3>2 DEF PwMessages
  <2>3. Len(r.calls) = 0 /\ DOMAIN r.calls = {} /\ r.calls \in Seq(PwCalls)
    BY <2>2
  <2>4. PwMsgOK(r)
    <3>1. /\ r.role \in {"user", "assistant", "tool"} /\ r.text \in BOOLEAN /\ r.text /\ r.image \in BOOLEAN
          /\ r.id \in Nat
      BY <2>1, <2>2
    <3>2. QED
      BY <2>2, <2>3, <3>1, PwAssumption DEF PwMsgOK
  <2>5. QED
    BY <2>2, <2>4 DEF r
<1>7. /\ m.role = "assistant" /\ m.text \in BOOLEAN /\ m.image = FALSE /\ m.calls = calls /\ m.id = 0
      /\ m \in PwMessages
  BY <1>5 DEF PwMessage, PwMessages
<1>8. rs = [k \in 1..n |-> rs[k]]
  OBVIOUS
<1> HIDE DEF rs, m
<1>9. rs \in Seq(PwMessages) /\ Len(rs) = n
  BY <1>2, <1>6, <1>8
<1>10. PwMsgOK(m)
  <2>1. \A j, k \in 1..n : calls[j].id = calls[k].id => j = k
    BY <1>2, <1>3
  <2>2. /\ m.role \in {"user", "assistant", "tool"} /\ m.text \in BOOLEAN /\ m.image \in BOOLEAN
        /\ m.id \in Nat /\ m.role = "assistant" /\ m.role # "tool"
    <3>1. m.role = "assistant" /\ m.role \in {"user", "assistant", "tool"} /\ m.role # "tool"
      BY <1>7
    <3>2. m.id = 0 /\ m.id \in Nat
      BY <1>7
    <3>3. m.text \in BOOLEAN /\ m.image = FALSE
      BY <1>7
    <3>4. m.image \in BOOLEAN
      BY <3>3
    <3>5. QED
      BY <3>1, <3>2, <3>3, <3>4
  <2>3. m.calls \in Seq(PwCalls) /\ Len(m.calls) <= PwMaxCalls /\ DOMAIN m.calls = 1..n
    BY <1>2, <1>5, <1>7
  <2>4. \A k \in DOMAIN m.calls :
          /\ m.calls[k].func
          /\ m.calls[k].by = "gemini" => m.calls[k].sig = "extra"
          /\ m.calls[k].by = "antigravity" => m.calls[k].sig = "function"
          /\ \A j \in DOMAIN m.calls : m.calls[j].id = m.calls[k].id => j = k
    BY <1>3, <1>7, <2>1, <2>3
  <2>5. QED
    BY <2>2, <2>3, <2>4 DEF PwMsgOK
<1>11. Conversing(Append(pwMsgs, m) \o rs) /\ Len(Append(pwMsgs, m) \o rs) = Len(pwMsgs) + 1 + Len(rs)
  <2>1. m.role # "tool" /\ Len(rs) = Len(m.calls)
        /\ \A k \in 1..Len(rs) : PwMsgOK(rs[k]) /\ rs[k].role = "tool" /\ rs[k].id = m.calls[k].id
    BY <1>5, <1>6, <1>7, <1>9
  <2>2. QED
    BY <1>7, <1>9, <1>10, <2>1, ConversingIs, AnswerConverses
<1>12. Len(pwMsgs) \in Nat
  BY DEF PwIInv
<1>13. CASE pwMsgs' = pwMsgs
  BY <1>1, <1>13 DEF PwIInv
<1>14. CASE pwMsgs' = Append(pwMsgs, m) \o rs
  <2>1. Conversing(pwMsgs') /\ Len(pwMsgs') <= PwMaxMsgs
    BY <1>1, <1>2, <1>9, <1>11, <1>12, <1>14, PwAssumption
  <2>2. QED
    BY <1>1, <2>1 DEF PwIInv, Conversing
<1>15. QED
  BY <1>1, <1>13, <1>14

LEMMA PwStepKeeps == PwIInv /\ [PwNext]_pwVars => PwIInv'
<1> SUFFICES ASSUME PwIInv, [PwNext]_pwVars PROVE PwIInv'
  OBVIOUS
<1>1. ASSUME NEW text \in BOOLEAN, NEW image \in BOOLEAN, PwAsk(text, image) PROVE PwIInv'
  BY <1>1, AskKeeps
<1>2. CASE PwReread
  BY <1>2, PwRereadKeeps
<1>3. ASSUME NEW p \in PwProviders, NEW chat \in ChatsOf(p), NEW e \in Endings, NEW n \in 0..PwMaxCalls,
             NEW text \in BOOLEAN, PwAnswer(p, chat, e, n, text)
      PROVE  PwIInv'
  BY <1>3, AnswerKeeps
<1>4. CASE UNCHANGED pwVars
  BY <1>4 DEF PwIInv, pwVars
<1>5. QED
  BY <1>1, <1>2, <1>3, <1>4 DEF PwNext

(* In every behaviour of the conversation each provider is sent every call    *)
(* with its result after it, every text, and its own signatures back.         *)
THEOREM WireCorrect == PwSpec => []PwInv
<1>1. PwInit => PwIInv
  BY PwStarts
<1>2. PwIInv /\ [PwNext]_pwVars => PwIInv'
  BY PwStepKeeps
<1>3. PwIInv => PwInv
  BY PwImplies
<1>4. QED
  BY <1>1, <1>2, <1>3, PTL DEF PwSpec
=============================================================================
