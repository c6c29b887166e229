-------------------------- MODULE Messages_proofs --------------------------
(***************************************************************************)
(* What holds of the message bus for any number of messages and any size   *)
(* of its channels, and of the inbound path before it for any number of    *)
(* messages, chats and any size of its cache.                              *)
(***************************************************************************)
EXTENDS MessageBus, InboundPath, FiniteSetTheorems, TLAPS

(***************************************************************************)
(* The type invariant, on its own: the actions only move messages between  *)
(* queues, sets and the sequences the consumers have been handed.          *)
(***************************************************************************)
LEMMA TypeInit == Init => TypeOK
<1> SUFFICES ASSUME Init PROVE TypeOK
  OBVIOUS
<1>1. <<>> \in Seq(Msgs)
  OBVIOUS
<1>2. queue \in [Chans -> Seq(Msgs)] /\ received \in [Chans -> Seq(Msgs)]
  BY <1>1 DEF Init
<1>3. QED
  BY <1>2 DEF Init, TypeOK, Refused

(* Every step preserves the types.                                            *)
LEMMA TypeStep == TypeOK /\ [Next]_vars => TypeOK'
<1> SUFFICES ASSUME TypeOK, [Next]_vars PROVE TypeOK'
  OBVIOUS
<1> USE DEF TypeOK, Chans, Refused
<1>1. ASSUME NEW m \in Msgs, PublishCheck(m) PROVE TypeOK'
  BY <1>1 DEF PublishCheck, Returns
<1>2. ASSUME NEW m \in Msgs, PublishSend(m) PROVE TypeOK'
  <2>1. Append(queue[chan[m]], m) \in Seq(Msgs)
    OBVIOUS
  <2>2. QED
    BY <1>2, <2>1 DEF PublishSend, Returns
<1>3. ASSUME NEW m \in Msgs, PublishDone(m) PROVE TypeOK'
  BY <1>3 DEF PublishDone, Returns
<1>4. ASSUME NEW m \in Msgs, PublishCtx(m) PROVE TypeOK'
  BY <1>4 DEF PublishCtx, Returns
<1>5. ASSUME NEW c \in Chans, Consume(c) PROVE TypeOK'
  <2>1. queue[c] \in Seq(Msgs) /\ queue[c] # <<>> /\ received[c] \in Seq(Msgs)
    BY <1>5 DEF Consume
  <2>2. Tail(queue[c]) \in Seq(Msgs) /\ Append(received[c], Head(queue[c])) \in Seq(Msgs)
    BY <2>1
  <2>3. QED
    BY <1>5, <2>2 DEF Consume
<1>6. ASSUME NEW c \in Chans, ConsumerLeaves(c) PROVE TypeOK'
  BY <1>6 DEF ConsumerLeaves
<1>7. CASE CloseFlag
  BY <1>7 DEF CloseFlag
<1>8. CASE CloseDone
  BY <1>8 DEF CloseDone
<1>9. CASE CloseDrain
  <2>1. CASE queue[closer] # <<>>
    <3>1. queue[closer] \in Seq(Msgs) /\ queue[closer] # <<>>
      BY <1>9, <2>1 DEF CloseDrain
    <3>2. Tail(queue[closer]) \in Seq(Msgs) /\ Head(queue[closer]) \in Msgs
      BY <3>1
    <3>3. queue' = [queue EXCEPT ![closer] = Tail(queue[closer])] /\ closer \in Chans
      BY <1>9, <2>1 DEF CloseDrain
    <3>4. queue' \in [Chans -> Seq(Msgs)]
      BY <3>2, <3>3
    <3>5. drained' \subseteq Msgs
      BY <1>9, <2>1, <3>2 DEF CloseDrain
    <3>6. UNCHANGED <<chan, closed, done, pub, received, listening, closer>>
      BY <1>9, <2>1 DEF CloseDrain
    <3>7. QED
      BY <3>4, <3>5, <3>6
  <2>2. CASE queue[closer] = <<>>
    BY <1>9, <2>2 DEF CloseDrain, AfterDrain
  <2>3. QED
    BY <2>1, <2>2
<1>10. CASE UNCHANGED vars
  BY <1>10 DEF vars
<1>11. QED
  BY <1>1, <1>2, <1>3, <1>4, <1>5, <1>6, <1>7, <1>8, <1>9, <1>10
     DEF Next, PublishSelect, CloseNext, BusStop

\* No step of Publish, Consume or Close leaves the types of the bus's fields.
THEOREM TypeCorrect == Spec => []TypeOK
<1>1. QED
  BY TypeInit, TypeStep, PTL DEF Spec

(***************************************************************************)
(* Refusals.  A message is in a queue, handed over or drained only after   *)
(* its own send, and that send makes its Publish return nil.               *)
(***************************************************************************)
LEMMA RefusedStep ==
    TypeOK /\ RefusedIsNeverDelivered /\ [Next]_vars => RefusedIsNeverDelivered'
<1> SUFFICES ASSUME TypeOK, RefusedIsNeverDelivered, [Next]_vars
             PROVE  RefusedIsNeverDelivered'
  OBVIOUS
<1> USE DEF RefusedIsNeverDelivered, Queued, Handed
<1>0. /\ chan \in [Msgs -> Chans] /\ queue \in [Chans -> Seq(Msgs)]
      /\ received \in [Chans -> Seq(Msgs)] /\ pub \in [Msgs -> {"idle", "select", "ok"} \cup Refused]
  BY DEF TypeOK
<1>1. ASSUME NEW m \in Msgs, PublishCheck(m) PROVE RefusedIsNeverDelivered'
  BY <1>0, <1>1 DEF PublishCheck, Returns
<1>2. ASSUME NEW m \in Msgs, PublishSend(m) PROVE RefusedIsNeverDelivered'
  <2>1. pub'[m] = "ok" /\ \A n \in Msgs \ {m} : pub'[n] = pub[n]
    BY <1>0, <1>2 DEF PublishSend, Returns
  <2>2. ASSUME NEW c \in Chans, NEW i \in 1..Len(queue'[c]), queue'[c][i] # m
        PROVE  i \in 1..Len(queue[c]) /\ queue'[c][i] = queue[c][i]
    BY <1>0, <1>2, <2>2 DEF PublishSend
  <2>3. received' = received /\ drained' = drained
    BY <1>2 DEF PublishSend
  <2>4. QED
    BY <2>1, <2>2, <2>3
<1>3. ASSUME NEW m \in Msgs, PublishDone(m) PROVE RefusedIsNeverDelivered'
  BY <1>0, <1>3 DEF PublishDone, Returns
<1>4. ASSUME NEW m \in Msgs, PublishCtx(m) PROVE RefusedIsNeverDelivered'
  BY <1>0, <1>4 DEF PublishCtx, Returns
<1>5. ASSUME NEW c \in Chans, Consume(c) PROVE RefusedIsNeverDelivered'
  <2>1. Len(queue[c]) \in Nat \ {0} /\ Head(queue[c]) = queue[c][1]
    BY <1>0, <1>5 DEF Consume
  <2>2. ASSUME NEW d \in Chans, NEW i \in 1..Len(queue'[d])
        PROVE  \E j \in 1..Len(queue[d]) : queue'[d][i] = queue[d][j]
    <3>1. CASE d = c
      <4>1. queue'[c] = Tail(queue[c])
        BY <1>0, <1>5 DEF Consume
      <4>2. i + 1 \in 1..Len(queue[c]) /\ queue'[c][i] = queue[c][i + 1]
        BY <1>0, <2>1, <3>1, <4>1
      <4>3. QED
        BY <3>1, <4>2
    <3>2. CASE d # c
      BY <1>0, <1>5, <3>2 DEF Consume
    <3>3. QED
      BY <3>1, <3>2
  <2>3. ASSUME NEW d \in Chans, NEW i \in 1..Len(received'[d])
        PROVE  \/ i \in 1..Len(received[d]) /\ received'[d][i] = received[d][i]
               \/ received'[d][i] = queue[c][1]
    BY <1>0, <1>5, <2>1, <2>3 DEF Consume
  <2>4. pub' = pub /\ drained' = drained
    BY <1>5 DEF Consume
  <2>5. 1 \in 1..Len(queue[c])
    BY <2>1
  <2>6. QED
    BY <2>2, <2>3, <2>4, <2>5
<1>6. ASSUME NEW c \in Chans, ConsumerLeaves(c) PROVE RefusedIsNeverDelivered'
  BY <1>6 DEF ConsumerLeaves
<1>7. CASE CloseFlag
  BY <1>7 DEF CloseFlag
<1>8. CASE CloseDone
  BY <1>8 DEF CloseDone
<1>9. CASE CloseDrain
  <2>1. CASE queue[closer] # <<>>
    <3>1. closer \in Chans /\ queue' = [queue EXCEPT ![closer] = Tail(@)]
          /\ drained' = drained \cup {Head(queue[closer])} /\ pub' = pub /\ received' = received
      BY <1>9, <2>1 DEF CloseDrain
    <3>2. Len(queue[closer]) \in Nat \ {0} /\ Head(queue[closer]) = queue[closer][1]
      BY <1>0, <2>1, <3>1
    <3>3. ASSUME NEW d \in Chans, NEW i \in 1..Len(queue'[d])
          PROVE  \E j \in 1..Len(queue[d]) : queue'[d][i] = queue[d][j]
      <4>1. CASE d = closer
        <5>1. queue'[d] = Tail(queue[d])
          BY <1>0, <3>1, <4>1
        <5>2. i + 1 \in 1..Len(queue[d]) /\ queue'[d][i] = queue[d][i + 1]
          BY <1>0, <3>2, <4>1, <5>1
        <5>3. QED
          BY <5>2
      <4>2. CASE d # closer
        BY <1>0, <3>1, <4>2
      <4>3. QED
        BY <4>1, <4>2
    <3>4. 1 \in 1..Len(queue[closer])
      BY <3>2
    <3>5. QED
      BY <3>1, <3>2, <3>3, <3>4
  <2>2. CASE queue[closer] = <<>>
    BY <1>9, <2>2 DEF CloseDrain
  <2>3. QED
    BY <2>1, <2>2
<1>10. CASE UNCHANGED vars
  BY <1>10 DEF vars
<1>11. QED
  BY <1>1, <1>2, <1>3, <1>4, <1>5, <1>6, <1>7, <1>8, <1>9, <1>10
     DEF Next, PublishSelect, CloseNext, BusStop

\* A Publish that returned an error has not sent its message and never will:
\* nobody is handed it and Close does not count it among the drained.
THEOREM RefusedStaysRefused == Spec => []RefusedIsNeverDelivered
<1>1. Init => RefusedIsNeverDelivered
  BY DEF Init, RefusedIsNeverDelivered, Queued, Handed
<1>2. QED
  BY <1>1, TypeInit, TypeStep, RefusedStep, PTL DEF Spec

(***************************************************************************)
(* Deliveries.  DeliveredAtMostOnce is not inductive: a message in two     *)
(* queues would be handed over from the one and still be in the other.     *)
(* What excludes it is that a message only ever is in its own channel.     *)
(***************************************************************************)
InItsChannel ==
    \A c \in Chans :
        /\ \A i \in 1..Len(queue[c]) : chan[queue[c][i]] = c
        /\ \A i \in 1..Len(received[c]) : chan[received[c][i]] = c

BusIInv == TypeOK /\ RefusedIsNeverDelivered /\ DeliveredAtMostOnce /\ InItsChannel

\* The head of a queue leaves it: it is in no queue any more, and nothing else
\* has moved.
LEMMA HeadLeaves ==
    ASSUME BusIInv, NEW c \in Chans, queue[c] # <<>>,
           queue' = [queue EXCEPT ![c] = Tail(@)], chan' = chan
    PROVE  /\ Head(queue[c]) \in Msgs /\ Queued(Head(queue[c])) /\ chan[Head(queue[c])] = c
           /\ \A m : Queued(m)' => Queued(m) /\ m # Head(queue[c])
           /\ \A d \in Chans : IsInjective(queue'[d])
           /\ \A d \in Chans : \A i \in 1..Len(queue'[d]) : chan[queue'[d][i]] = d
<1> PICK q, h : q = queue[c] /\ h = Head(queue[c])
    OBVIOUS
<1>1. queue \in [Chans -> Seq(Msgs)] /\ q \in Seq(Msgs) /\ q # <<>>
    BY DEF BusIInv, TypeOK
<1>2. /\ \A i, j \in 1..Len(q) : q[i] = q[j] => i = j
      /\ \A i \in 1..Len(q) : chan[q[i]] = c
    BY <1>1 DEF BusIInv, DeliveredAtMostOnce, IsInjective, InItsChannel
<1>3. h = q[1] /\ h \in Msgs /\ Len(q) \in Nat /\ 1 \in 1..Len(q) /\ chan[h] = c
    BY <1>1, <1>2
<1>4. /\ queue'[c] = Tail(q) /\ Len(queue'[c]) = Len(q) - 1 /\ DOMAIN queue'[c] = 1..Len(queue'[c])
      /\ \A i \in 1..Len(queue'[c]) : i + 1 \in 1..Len(q) /\ queue'[c][i] = q[i + 1]
    BY <1>1, <1>3
<1>5. \A d \in Chans \ {c} : queue'[d] = queue[d]
    BY <1>1
<1>6. ASSUME NEW i \in 1..Len(queue'[c]) PROVE queue'[c][i] # h
    <2>1. i + 1 \in 1..Len(q) /\ i + 1 # 1 /\ queue'[c][i] = q[i + 1]
        BY <1>3, <1>4
    <2> QED
        BY <1>2, <1>3, <2>1
<1>7. \A d \in Chans \ {c} : \A i \in 1..Len(queue[d]) : queue[d][i] # h
    BY <1>3 DEF BusIInv, InItsChannel
<1>8. ASSUME NEW m, Queued(m)' PROVE Queued(m) /\ m # h
    <2>1. PICK d, i : d \in Chans /\ i \in 1..Len(queue'[d]) /\ queue'[d][i] = m
        BY <1>8 DEF Queued
    <2>2. CASE d = c
        BY <1>1, <1>4, <1>6, <2>1, <2>2 DEF Queued
    <2>3. CASE d # c
        BY <1>5, <1>7, <2>1, <2>3 DEF Queued
    <2> QED
        BY <2>2, <2>3
<1>9. IsInjective(queue'[c])
    BY <1>2, <1>3, <1>4 DEF IsInjective
<1>10. \A d \in Chans : IsInjective(queue'[d])
    BY <1>5, <1>9 DEF BusIInv, DeliveredAtMostOnce
<1>11. \A d \in Chans : \A i \in 1..Len(queue'[d]) : chan[queue'[d][i]] = d
    BY <1>2, <1>4, <1>5 DEF BusIInv, InItsChannel
<1>12. Queued(h)
    BY <1>3 DEF Queued
<1> QED
    BY <1>3, <1>8, <1>10, <1>11, <1>12

LEMMA DeliveredStep == BusIInv /\ [Next]_vars => DeliveredAtMostOnce' /\ InItsChannel'
<1> SUFFICES ASSUME BusIInv, [Next]_vars PROVE DeliveredAtMostOnce' /\ InItsChannel'
    OBVIOUS
<1>0. /\ chan \in [Msgs -> Chans] /\ queue \in [Chans -> Seq(Msgs)]
      /\ received \in [Chans -> Seq(Msgs)] /\ pub \in [Msgs -> {"idle", "select", "ok"} \cup Refused]
      /\ DeliveredAtMostOnce /\ InItsChannel
    BY DEF BusIInv, TypeOK
<1>1. ASSUME UNCHANGED <<chan, queue, received, drained>>
      PROVE  DeliveredAtMostOnce' /\ InItsChannel'
    BY <1>0, <1>1 DEF DeliveredAtMostOnce, InItsChannel, Queued, Handed
<1>2. ASSUME NEW m \in Msgs, PublishSend(m) PROVE DeliveredAtMostOnce' /\ InItsChannel'
    <2> PICK c \in Chans, q \in Seq(Msgs) : c = chan[m] /\ q = queue[c]
        BY <1>0
    <2>1. ~Queued(m) /\ ~Handed(m) /\ m \notin drained
        BY <1>2 DEF PublishSend, BusIInv, RefusedIsNeverDelivered
    <2>2. /\ queue' = [queue EXCEPT ![c] = Append(q, m)]
          /\ UNCHANGED <<chan, received, drained>>
        BY <1>2 DEF PublishSend
    <2>3. /\ queue'[c] = Append(q, m) /\ Len(queue'[c]) = Len(q) + 1 /\ Len(q) \in Nat
          /\ DOMAIN queue'[c] = 1..Len(queue'[c]) /\ queue'[c][Len(q) + 1] = m
          /\ \A i \in 1..Len(q) : queue'[c][i] = q[i]
          /\ \A d \in Chans \ {c} : queue'[d] = queue[d]
        BY <1>0, <2>2
    <2>4. \A i \in 1..Len(q) : q[i] # m
        BY <2>1 DEF Queued
    <2>5. \A i, j \in 1..Len(q) : q[i] = q[j] => i = j
        BY <1>0 DEF DeliveredAtMostOnce, IsInjective
    <2>6. IsInjective(queue'[c])
        BY <2>3, <2>4, <2>5 DEF IsInjective
    <2>7. \A n : Queued(n)' => Queued(n) \/ n = m
        BY <2>3 DEF Queued
    <2>8. DeliveredAtMostOnce'
        BY <1>0, <2>1, <2>2, <2>3, <2>6, <2>7 DEF DeliveredAtMostOnce, Handed
    <2>9. InItsChannel'
        BY <1>0, <2>2, <2>3 DEF InItsChannel
    <2> QED
        BY <2>8, <2>9
<1>3. ASSUME NEW c \in Chans, Consume(c) PROVE DeliveredAtMostOnce' /\ InItsChannel'
    <2> PICK r, h : r \in Seq(Msgs) /\ r = received[c] /\ h = Head(queue[c])
        BY <1>0
    <2>1. /\ queue[c] # <<>> /\ queue' = [queue EXCEPT ![c] = Tail(@)]
          /\ received' = [received EXCEPT ![c] = Append(r, h)]
          /\ UNCHANGED <<chan, drained>>
        BY <1>3 DEF Consume
    <2>2. /\ h \in Msgs /\ Queued(h) /\ chan[h] = c
          /\ \A m : Queued(m)' => Queued(m) /\ m # h
          /\ \A d \in Chans : IsInjective(queue'[d])
          /\ \A d \in Chans : \A i \in 1..Len(queue'[d]) : chan[queue'[d][i]] = d
        BY <2>1, HeadLeaves
    <2>3. /\ received'[c] = Append(r, h) /\ Len(received'[c]) = Len(r) + 1 /\ Len(r) \in Nat
          /\ DOMAIN received'[c] = 1..Len(received'[c]) /\ received'[c][Len(r) + 1] = h
          /\ \A i \in 1..Len(r) : received'[c][i] = r[i]
          /\ \A d \in Chans \ {c} : received'[d] = received[d]
        BY <1>0, <2>1, <2>2
    <2>4. ~Handed(h) /\ h \notin drained
        BY <1>0, <2>2 DEF DeliveredAtMostOnce
    <2>5. \A i \in 1..Len(r) : r[i] # h
        BY <2>4 DEF Handed
    <2>6. \A i, j \in 1..Len(r) : r[i] = r[j] => i = j
        BY <1>0 DEF DeliveredAtMostOnce, IsInjective
    <2>7. IsInjective(received'[c])
        BY <2>3, <2>5, <2>6 DEF IsInjective
    <2>8. \A m : Handed(m)' => Handed(m) \/ m = h
        BY <2>3 DEF Handed
    <2>9. DeliveredAtMostOnce'
        BY <1>0, <2>1, <2>2, <2>3, <2>4, <2>7, <2>8 DEF DeliveredAtMostOnce
    <2>10. InItsChannel'
        BY <1>0, <2>1, <2>2, <2>3 DEF InItsChannel
    <2> QED
        BY <2>9, <2>10
<1>4. CASE CloseDrain
    <2>1. CASE queue[closer] = <<>>
        BY <1>1, <1>4, <2>1 DEF CloseDrain
    <2>2. CASE queue[closer] # <<>>
        <3> PICK c, h : c = closer /\ h = Head(queue[c])
            OBVIOUS
        <3>1. /\ c \in Chans /\ queue[c] # <<>> /\ queue' = [queue EXCEPT ![c] = Tail(@)]
              /\ drained' = drained \cup {h} /\ UNCHANGED <<chan, received>>
            BY <1>4, <2>2 DEF CloseDrain
        <3>2. /\ h \in Msgs /\ Queued(h) /\ chan[h] = c
              /\ \A m : Queued(m)' => Queued(m) /\ m # h
              /\ \A d \in Chans : IsInjective(queue'[d])
              /\ \A d \in Chans : \A i \in 1..Len(queue'[d]) : chan[queue'[d][i]] = d
            BY <3>1, HeadLeaves
        <3>3. \A m : Handed(m)' <=> Handed(m)
            BY <3>1 DEF Handed
        <3>4. DeliveredAtMostOnce'
            BY <1>0, <3>1, <3>2, <3>3 DEF DeliveredAtMostOnce
        <3>5. InItsChannel'
            BY <1>0, <3>1, <3>2 DEF InItsChannel
        <3> QED
            BY <3>4, <3>5
    <2> QED
        BY <2>1, <2>2
<1>5. CASE \/ \E m \in Msgs : PublishCheck(m) \/ PublishDone(m) \/ PublishCtx(m)
           \/ \E c \in Chans : ConsumerLeaves(c)
           \/ CloseFlag \/ CloseDone \/ UNCHANGED vars
    BY <1>1, <1>5 DEF PublishCheck, PublishDone, PublishCtx, ConsumerLeaves, CloseFlag,
                      CloseDone, vars
<1> QED
    BY <1>2, <1>3, <1>4, <1>5 DEF Next, PublishSelect, CloseNext, BusStop

\* TLC: BusInv.  For every set of messages and every size of the channels: what
\* Publish refused is never delivered, and what it accepted is in one place, so
\* that no consumer is handed a message twice or one that Close has drained.
THEOREM BusCorrect == Spec => []BusInv
<1>1. Init => BusIInv
    <2>1. Init => RefusedIsNeverDelivered /\ DeliveredAtMostOnce /\ InItsChannel
        BY DEF Init, RefusedIsNeverDelivered, DeliveredAtMostOnce, InItsChannel, Queued, Handed,
               IsInjective
    <2> QED
        BY <2>1, TypeInit DEF BusIInv
<1>2. BusIInv /\ [Next]_vars => BusIInv'
    BY TypeStep, RefusedStep, DeliveredStep DEF BusIInv
<1>3. BusIInv => BusInv
    BY DEF BusIInv, BusInv
<1> QED
    BY <1>1, <1>2, <1>3, PTL DEF Spec
-----------------------------------------------------------------------------
(***************************************************************************)
(* The inbound path.  Each message Run submits arms at most one timer, and *)
(* the entry of a chat is the one the last timer was armed for.  A pass    *)
(* the cache may have forgotten is old, or crowded out: passes of MaxSize  *)
(* other messages came after it.                                           *)
(***************************************************************************)
Others(p, t, ps) ==
    {x \in InMsgs \ (Results \cup {p[1]}) : \E r \in ps : r[1] = x /\ p[2] <= r[2] /\ r[2] <= t}
Crowded(p, t, ps) == Cardinality(Others(p, t, ps)) >= MaxSize

CacheOK ==
    /\ clock \in Times /\ seen \subseteq passes /\ passes \subseteq InMsgs \X Times
    /\ IsFiniteSet(passes)
    /\ \A e, f \in seen : e[1] = f[1] => e = f
    /\ \A e \in seen : e[1] \notin Results
    /\ \A p \in passes : p[2] <= clock
    /\ \A p, q \in passes : p[1] \in Results /\ q[1] = p[1] => p = q
    /\ \A p \in passes : p[1] \in Results \/ p \in seen \/ clock - p[2] >= TTL \/ Crowded(p, clock, passes)
    /\ ForgottenOnlyWhenFull

Timers(c) == flushing[c] + (IF armed[c] = 0 THEN 0 ELSE 1) + (IF hand = NoMsg THEN 0 ELSE 1)

WaitOK ==
    /\ clock \in Times /\ chat \in [InMsgs -> Chats]
    /\ hand \in InMsgs \cup {NoMsg} /\ handled \in 0..MaxHandled
    /\ entries \in [Chats -> Entry \cup {NoEntry}]
    /\ last \in [Chats -> 0..MaxHandled] /\ armed \in [Chats -> Times]
    /\ flushing \in [Chats -> 0..MaxHandled]
    /\ replaced \subseteq InMsgs
    /\ starting \subseteq Turn /\ running \subseteq Turn
    /\ \A c \in Chats : Timers(c) <= handled
    /\ WaitingIsArmed /\ LatestWaits

InIInv == CacheOK /\ WaitOK

(* Passes are finitely many, and so are the messages that passed.             *)
LEMMA OthersAreFinite ==
    ASSUME NEW p, NEW t, NEW ps, IsFiniteSet(ps)
    PROVE  IsFiniteSet(Others(p, t, ps))
<1> DEFINE firsts == {r[1] : r \in ps}
<1>1. IsFiniteSet(firsts)
  <2> DEFINE f == [r \in ps |-> r[1]]
  <2>1. f \in Surjection(ps, firsts)
    BY DEF Surjection
  <2>2. QED
    BY <2>1, FS_Surjection, Zenon
<1>2. Others(p, t, ps) \in SUBSET firsts
  BY DEF Others
<1>3. QED
  BY <1>1, <1>2, FS_Subset, Zenon

(* More passes and more time do not make a crowd smaller.                     *)
LEMMA CrowdsStay ==
    ASSUME NEW p \in InMsgs \X Times, NEW t \in Times, NEW u \in Times, t <= u,
           NEW ps \in SUBSET (InMsgs \X Times), NEW qs \in SUBSET (InMsgs \X Times), ps \subseteq qs,
           IsFiniteSet(qs), Crowded(p, t, ps)
    PROVE  Crowded(p, u, qs)
<1>1. Others(p, t, ps) \in SUBSET Others(p, u, qs)
  <2>1. \A r \in ps : r[2] \in Nat
    BY InboundAssumption DEF Times
  <2>2. t \in Nat /\ u \in Nat
    BY InboundAssumption DEF Times
  <2>3. QED
    BY <2>1, <2>2 DEF Others
<1>2. IsFiniteSet(Others(p, u, qs))
  BY OthersAreFinite
<1>3. /\ Cardinality(Others(p, t, ps)) <= Cardinality(Others(p, u, qs))
      /\ IsFiniteSet(Others(p, t, ps))
  BY <1>1, <1>2, FS_Subset
<1>4. Cardinality(Others(p, t, ps)) \in Nat /\ Cardinality(Others(p, u, qs)) \in Nat
  BY <1>2, <1>3, FS_CardinalityType
<1>5. QED
  BY <1>3, <1>4, InboundAssumption DEF Crowded

(* MaxSize passes of as many messages after p, none of them p's, are a crowd. *)
LEMMA ManyAreACrowd ==
    ASSUME NEW p \in InMsgs \X Times, NEW t \in Times, NEW ps \in SUBSET (InMsgs \X Times),
           IsFiniteSet(ps), NEW R \in SUBSET ps, Cardinality(R) = MaxSize,
           \A e, f \in R : e[1] = f[1] => e = f,
           \A e \in R : e[1] \notin Results \cup {p[1]} /\ p[2] <= e[2] /\ e[2] <= t
    PROVE  Crowded(p, t, ps)
<1> DEFINE f == [e \in R |-> e[1]]
<1>1. \A e \in R : e[1] \in Others(p, t, ps)
  BY DEF Others
<1>2. f \in Injection(R, Others(p, t, ps))
  BY <1>1 DEF Injection, IsInjective
<1>3. IsFiniteSet(Others(p, t, ps))
  BY OthersAreFinite
<1>4. Cardinality(R) <= Cardinality(Others(p, t, ps))
  BY <1>2, <1>3, FS_Injection, Zenon
<1>5. Cardinality(Others(p, t, ps)) \in Nat
  BY <1>3, FS_CardinalityType
<1>6. QED
  BY <1>4, <1>5, InboundAssumption DEF Crowded

(* Time passes: what has passed gets older, and a crowd does not shrink.      *)
LEMMA TickCache == ASSUME CacheOK, Tick PROVE CacheOK'
<1>1. /\ clock \in Nat /\ clock' = clock + 1 /\ clock' \in Times /\ clock \in Times
      /\ seen' = seen /\ passes' = passes /\ passes \subseteq InMsgs \X Times
  BY InboundAssumption DEF Tick, CacheOK, Times, runVars
<1>2. \A p \in passes : p[2] <= clock /\ p[2] \in Nat
  BY <1>1, InboundAssumption DEF CacheOK, Times
<1>3. \A p \in passes : p[2] <= clock'
  BY <1>1, <1>2
<1>4. ASSUME NEW p \in passes
      PROVE  p[1] \in Results \/ p \in seen \/ clock' - p[2] >= TTL \/ Crowded(p, clock', passes)
  <2>1. clock - p[2] >= TTL => clock' - p[2] >= TTL
    BY <1>1, <1>2, InboundAssumption
  <2>2. Crowded(p, clock, passes) => Crowded(p, clock', passes)
    BY <1>1, CrowdsStay DEF CacheOK
  <2>3. QED
    BY <2>1, <2>2 DEF CacheOK
<1>5. ForgottenOnlyWhenFull'
  BY <1>1 DEF CacheOK, ForgottenOnlyWhenFull
<1>6. QED
  BY <1>1, <1>3, <1>4, <1>5 DEF CacheOK

(* A pass of m, now: what it needs to preserve the invariant of the cache.    *)
LEMMA PassCache ==
    ASSUME CacheOK, NEW m \in InMsgs, UNCHANGED clock, passes' = passes \cup {<<m, clock>>},
           seen' \subseteq passes', \A e, f \in seen' : e[1] = f[1] => e = f,
           \A e \in seen' : e[1] \notin Results,
           m \in Results => \A p \in passes : p[1] # m,
           m \notin Results => ~Duplicate(m),
           \A p \in passes' : p[1] \in Results \/ p \in seen' \/ clock - p[2] >= TTL
                                \/ Crowded(p, clock, passes') \/ (p \in passes /\ p \notin seen)
    PROVE  CacheOK'
<1> DEFINE new == <<m, clock>>
<1>1. /\ clock \in Nat /\ clock' = clock /\ clock \in Times /\ passes \subseteq InMsgs \X Times
      /\ new \in InMsgs \X Times /\ new[1] = m /\ new[2] = clock /\ passes' = passes \cup {new}
  BY InboundAssumption DEF CacheOK, Times
<1> HIDE DEF new
<1>2. passes' \in SUBSET (InMsgs \X Times) /\ passes \subseteq passes' /\ IsFiniteSet(passes')
  BY <1>1, FS_AddElement DEF CacheOK
<1>3. \A p \in passes : p[2] <= clock /\ p[2] \in Nat /\ p \in InMsgs \X Times
  BY <1>1, InboundAssumption DEF CacheOK, Times
<1>4. \A p \in passes' : p[2] <= clock'
  BY <1>1, <1>3
<1>5. \A p, q \in passes' : p[1] \in Results /\ q[1] = p[1] => p = q
  BY <1>1 DEF CacheOK
<1>6. \A p \in passes : Crowded(p, clock, passes) => Crowded(p, clock, passes')
  BY <1>1, <1>2, <1>3, CrowdsStay
<1>7. ASSUME NEW p \in passes'
      PROVE  p[1] \in Results \/ p \in seen' \/ clock' - p[2] >= TTL \/ Crowded(p, clock', passes')
  BY <1>1, <1>6 DEF CacheOK
<1>8. ForgottenOnlyWhenFull'
  <2> SUFFICES ASSUME NEW p \in passes', NEW q \in passes', p[1] = q[1], p[2] < q[2], q[2] - p[2] < TTL
               PROVE  Crowded(p, q[2], passes')
    BY DEF ForgottenOnlyWhenFull, Crowded, Others
  <2>1. p \in passes
    BY <1>1, <1>3
  <2>2. CASE q \in passes
    <3>1. Crowded(p, q[2], passes)
      BY <2>1, <2>2 DEF CacheOK, ForgottenOnlyWhenFull, Crowded, Others
    <3>2. q[2] \in Times /\ q[2] <= q[2]
      BY <1>1, <1>3, <2>2
    <3>3. QED
      BY <1>1, <1>2, <1>3, <2>1, <3>1, <3>2, CrowdsStay
  <2>3. CASE q = new
    <3>1. q[2] = clock /\ p[1] = m /\ m \notin Results
      BY <1>1, <2>1, <2>3
    <3>2. p \notin seen
      BY <1>1, <3>1 DEF Duplicate, Fresh
    <3>3. ~(clock - p[2] >= TTL)
      BY <1>1, <1>3, <2>1, <3>1, InboundAssumption
    <3>4. Crowded(p, clock, passes)
      BY <2>1, <3>1, <3>2, <3>3 DEF CacheOK
    <3>5. QED
      BY <1>6, <2>1, <3>1, <3>4
  <2>4. QED
    BY <1>1, <2>2, <2>3
<1>9. QED
  BY <1>1, <1>2, <1>4, <1>5, <1>7, <1>8 DEF CacheOK

(* Check records the message and prunes: an entry that was fresh is gone only *)
(* if MaxSize entries that are not older are left.                            *)
LEMMA ReceiveCache == ASSUME CacheOK, NEW m \in InMsgs, Receive(m) PROVE CacheOK'
<1>1. CASE Duplicate(m)
  BY <1>1 DEF Receive, CacheOK, ForgottenOnlyWhenFull
<1>2. CASE ~Duplicate(m)
  <2> DEFINE new == <<m, clock>>
             S == {e \in seen : e[1] # m} \cup {new}
             live == {e \in S : Fresh(e)}
  <2>1. /\ clock \in Nat /\ clock' = clock /\ clock \in Times /\ passes \subseteq InMsgs \X Times
        /\ new \in InMsgs \X Times /\ new[1] = m /\ new[2] = clock /\ passes' = passes \cup {new}
        /\ m \notin Results
    BY <1>2, InboundAssumption DEF CacheOK, Times, Receive
  <2>2. /\ seen' \in SUBSET live
        /\ Cardinality(seen') = IF Cardinality(live) > MaxSize THEN MaxSize ELSE Cardinality(live)
        /\ \A e \in seen', x \in live \ seen' : x[2] <= e[2]
    BY <1>2 DEF Receive, Pruned
  <2> HIDE DEF new
  <2>3. /\ live \in SUBSET passes' /\ passes' \in SUBSET (InMsgs \X Times) /\ IsFiniteSet(passes')
        /\ seen' \in SUBSET passes'
    BY <2>1, <2>2, FS_AddElement DEF CacheOK
  <2>4. /\ \A e, f \in live : e[1] = f[1] => e = f
        /\ \A e \in live : e[1] \notin Results
    BY <2>1 DEF CacheOK
  <2>5. \A p \in passes' : p[2] <= clock /\ p[2] \in Nat /\ p \in InMsgs \X Times
    BY <2>1, InboundAssumption DEF CacheOK, Times
  <2>6. ASSUME NEW x \in live, x \notin seen' PROVE Crowded(x, clock, passes')
    <3>1. IsFiniteSet(live) /\ Cardinality(live) \in Nat
      BY <2>3, FS_Subset, FS_CardinalityType
    <3>2. Cardinality(live) # Cardinality(seen')
      BY <2>2, <2>6, <3>1, FS_Subset
    <3>3. Cardinality(seen') = MaxSize
      BY <2>2, <3>2
    <3>4. \A e, f \in seen' : e[1] = f[1] => e = f
      BY <2>2, <2>4
    <3>5. \A e \in seen' : e[1] \notin Results \cup {x[1]} /\ x[2] <= e[2] /\ e[2] <= clock
      BY <2>2, <2>3, <2>4, <2>5, <2>6
    <3>6. x \in InMsgs \X Times
      BY <2>3, <2>6
    <3>7. QED
      BY <2>1, <2>3, <3>3, <3>4, <3>5, <3>6, ManyAreACrowd
  <2>7. ASSUME NEW p \in passes'
        PROVE  p[1] \in Results \/ p \in seen' \/ clock - p[2] >= TTL
                 \/ Crowded(p, clock, passes') \/ (p \in passes /\ p \notin seen)
    <3>1. CASE p \in live
      BY <2>6, <3>1
    <3>2. CASE p \in S /\ p \notin live
      <4>1. ~(clock - p[2] < TTL)
        BY <3>2 DEF Fresh
      <4>2. QED
        BY <2>1, <2>5, <4>1, InboundAssumption
    <3>3. CASE p \in seen /\ p[1] = m
      <4>1. ~(clock - p[2] < TTL)
        BY <1>2, <3>3 DEF Duplicate, Fresh
      <4>2. QED
        BY <2>1, <2>5, <4>1, InboundAssumption
    <3>4. QED
      BY <2>1, <3>1, <3>2, <3>3
  <2>8. /\ \A e, f \in seen' : e[1] = f[1] => e = f
        /\ \A e \in seen' : e[1] \notin Results
    BY <2>2, <2>4
  <2>9. passes' = passes \cup {<<m, clock>>}
    BY <2>1 DEF new
  <2>10. QED
    BY <1>2, <2>1, <2>3, <2>7, <2>8, <2>9, PassCache
<1>3. QED
  BY <1>1, <1>2

(* A result passes without the cache, once.                                   *)
LEMMA ReceiveResultCache == ASSUME CacheOK, NEW m \in InMsgs, ReceiveResult(m) PROVE CacheOK'
<1> DEFINE new == <<m, clock>>
<1>1. /\ clock' = clock /\ seen' = seen /\ passes' = passes \cup {new} /\ m \in Results
      /\ \A p \in passes : p[1] # m /\ new[1] = m
  BY DEF ReceiveResult
<1>2. seen' \subseteq passes'
  BY <1>1 DEF CacheOK
<1>3. \A p \in passes' : p[1] \in Results \/ p \in seen' \/ (p \in passes /\ p \notin seen)
  BY <1>1
<1>4. QED
  BY <1>1, <1>2, <1>3, PassCache DEF CacheOK

(* Steps that leave the cache alone.                                          *)
LEMMA CacheStays == ASSUME CacheOK, UNCHANGED <<clock, seen, passes>> PROVE CacheOK'
  BY DEF CacheOK, ForgottenOnlyWhenFull

(* Run takes a message: one more is handled, and it is in Run's hand or was   *)
(* seen before.                                                               *)
LEMMA TakenWait ==
    ASSUME WaitOK, hand = NoMsg, handled < MaxHandled, handled' = handled + 1, hand' \in InMsgs \cup {NoMsg},
           UNCHANGED <<chat, clock, entries, last, armed, flushing, stopped, replaced, starting, running>>
    PROVE  WaitOK'
<1>1. handled \in Nat /\ MaxHandled \in Nat
  BY InboundAssumption DEF WaitOK
<1>2. handled' \in 0..MaxHandled
  BY <1>1
<1>3. ASSUME NEW c \in Chats PROVE Timers(c)' <= handled'
  <2>1. flushing[c] + (IF armed[c] = 0 THEN 0 ELSE 1) \in Nat
    BY DEF WaitOK
  <2>2. Timers(c) <= handled
    BY DEF WaitOK
  <2>3. QED
    BY <1>1, <2>1, <2>2 DEF Timers
<1>4. QED
  BY <1>2, <1>3 DEF WaitOK, WaitingIsArmed, LatestWaits

(* Submit: the entry of the chat is the new message's, and so is the timer.   *)
LEMMA SubmitWait == ASSUME WaitOK, Submit PROVE WaitOK'
<1> DEFINE c == chat[hand]
           new == [msg |-> hand, pos |-> handled, since |-> clock]
<1>1. /\ c \in Chats /\ hand \in InMsgs /\ hand # NoMsg /\ hand' = NoMsg /\ NoMsg \notin InMsgs
      /\ UNCHANGED <<chat, clock, handled, flushing, starting, running>>
  BY InboundAssumption DEF WaitOK, Submit
<1>2. /\ handled \in Nat /\ clock \in Nat /\ MaxClock \in Nat /\ Delay \in Nat \ {0} /\ handled <= MaxHandled
      /\ clock + Delay <= MaxClock
  BY InboundAssumption DEF WaitOK, Submit, Times
<1>3. \A d \in Chats : flushing[d] \in Nat /\ armed[d] \in Nat /\ Timers(d) <= handled
  BY InboundAssumption DEF WaitOK, Times
<1>4. CASE stopped
  <2>1. UNCHANGED <<entries, last, armed, replaced>>
    BY <1>4 DEF Submit
  <2>2. \A d \in Chats : Timers(d)' <= handled'
    BY <1>1, <1>2, <1>3, <2>1 DEF Timers
  <2>3. QED
    BY <1>1, <2>1, <2>2 DEF WaitOK, WaitingIsArmed, LatestWaits
<1>5. CASE ~stopped
  <2>1. /\ entries' = [entries EXCEPT ![c] = new] /\ armed' = [armed EXCEPT ![c] = clock + Delay]
        /\ last' = [last EXCEPT ![c] = handled] /\ replaced' = replaced \cup ({entries[c].msg} \ {NoMsg})
    BY <1>5 DEF Submit, Keep, Arm
  <2>2. flushing[c] + 1 <= handled /\ handled \in 1..MaxHandled
    BY <1>1, <1>2, <1>3, InboundAssumption DEF Timers
  <2>3. new \in Entry /\ new.pos = handled
    BY <1>1, <2>2 DEF Entry, WaitOK
  <2> HIDE DEF new
  <2>4. clock + Delay \in Times /\ clock + Delay # 0
    BY <1>2 DEF Times
  <2>5. /\ entries' \in [Chats -> Entry \cup {NoEntry}] /\ armed' \in [Chats -> Times]
        /\ last' \in [Chats -> 0..MaxHandled]
        /\ entries'[c] = new /\ armed'[c] = clock + Delay /\ last'[c] = handled
        /\ \A d \in Chats : d # c => entries'[d] = entries[d] /\ armed'[d] = armed[d] /\ last'[d] = last[d]
    BY <1>1, <1>2, <2>1, <2>3, <2>4 DEF WaitOK
  <2>6. entries[c].msg \in InMsgs \cup {NoMsg}
    BY <1>1 DEF WaitOK, Entry, NoEntry
  <2>7. \A d \in Chats : Timers(d)' <= handled'
    <3> SUFFICES ASSUME NEW d \in Chats PROVE Timers(d)' <= handled'
      OBVIOUS
    <3>1. CASE d = c
      BY <1>1, <1>2, <1>3, <2>2, <2>4, <2>5, <3>1 DEF Timers
    <3>2. CASE d # c
      BY <1>1, <1>2, <1>3, <2>5, <3>2 DEF Timers
    <3>3. QED
      BY <3>1, <3>2
  <2>8. (WaitingIsArmed /\ LatestWaits)'
    BY <2>3, <2>4, <2>5, <1>1 DEF WaitOK, WaitingIsArmed, LatestWaits
  <2>9. QED
    BY <1>1, <2>1, <2>5, <2>6, <2>7, <2>8 DEF WaitOK
<1>6. QED
  BY <1>4, <1>5

(* An expired timer becomes a goroutine.                                      *)
LEMMA FireWait == ASSUME WaitOK, NEW c \in Chats, Fire(c) PROVE WaitOK'
<1>1. \A d \in Chats : flushing[d] \in Nat /\ armed[d] \in Nat /\ Timers(d) <= handled
  BY InboundAssumption DEF WaitOK, Times
<1>2. /\ armed[c] # 0 /\ armed' = [armed EXCEPT ![c] = 0] /\ flushing' = [flushing EXCEPT ![c] = flushing[c] + 1]
      /\ handled \in Nat /\ handled <= MaxHandled /\ MaxHandled \in Nat /\ 0 \in Times
      /\ UNCHANGED <<chat, clock, hand, handled, entries, last, replaced, starting, running>>
  BY InboundAssumption DEF WaitOK, Fire, runVars, Times
<1>3. flushing[c] + 1 <= handled
  BY <1>1, <1>2 DEF Timers
<1>4. /\ armed' \in [Chats -> Times] /\ flushing' \in [Chats -> 0..MaxHandled]
      /\ armed'[c] = 0 /\ flushing'[c] = flushing[c] + 1
      /\ \A d \in Chats : d # c => armed'[d] = armed[d] /\ flushing'[d] = flushing[d]
  <2>1. flushing[c] + 1 \in 0..MaxHandled
    BY <1>1, <1>2, <1>3
  <2>2. QED
    BY <1>2, <2>1 DEF WaitOK
<1>5. ASSUME NEW d \in Chats PROVE Timers(d)' <= handled'
  BY <1>1, <1>2, <1>4 DEF Timers
<1>6. (WaitingIsArmed /\ LatestWaits)'
  BY <1>1, <1>2, <1>4 DEF WaitOK, WaitingIsArmed, LatestWaits
<1>7. QED
  BY <1>2, <1>4, <1>5, <1>6 DEF WaitOK

(* Its flush takes the entry out, or finds none.                              *)
LEMMA FlushWait == ASSUME WaitOK, NEW c \in Chats, Flush(c) PROVE WaitOK'
<1> DEFINE t == [msg |-> entries[c].msg, pos |-> entries[c].pos, since |-> entries[c].since, at |-> clock]
<1>1. \A d \in Chats : flushing[d] \in Nat /\ armed[d] \in Nat /\ Timers(d) <= handled
  BY InboundAssumption DEF WaitOK, Times
<1>2. /\ flushing[c] > 0 /\ flushing' = [flushing EXCEPT ![c] = flushing[c] - 1]
      /\ handled \in Nat /\ handled <= MaxHandled /\ MaxHandled \in Nat
      /\ UNCHANGED <<chat, clock, hand, handled, armed, last, replaced, running>>
  BY InboundAssumption DEF WaitOK, Flush, runVars
<1>3. flushing[c] - 1 \in 0..MaxHandled
  BY <1>1, <1>2 DEF WaitOK
<1>4. /\ flushing' \in [Chats -> 0..MaxHandled] /\ flushing'[c] = flushing[c] - 1
      /\ \A d \in Chats : d # c => flushing'[d] = flushing[d]
  BY <1>2, <1>3 DEF WaitOK
<1>5. ASSUME NEW d \in Chats PROVE Timers(d)' <= handled'
  BY <1>1, <1>2, <1>4 DEF Timers
<1>6. /\ starting' \subseteq Turn /\ entries' \in [Chats -> Entry \cup {NoEntry}] /\ entries'[c] = NoEntry
      /\ \A d \in Chats : d # c => entries'[d] = entries[d]
  <2>1. CASE entries[c] = NoEntry
    BY <2>1 DEF Flush, WaitOK
  <2>2. CASE entries[c] # NoEntry
    <3>1. entries[c] \in Entry
      BY <2>2 DEF WaitOK
    <3>2. t \in Turn
      BY <3>1 DEF Turn, Entry, WaitOK
    <3>3. starting' = starting \cup {t} /\ entries' = [entries EXCEPT ![c] = NoEntry]
      BY <2>2 DEF Flush
    <3> HIDE DEF t
    <3>4. QED
      BY <3>2, <3>3 DEF WaitOK
  <2>3. QED
    BY <2>1, <2>2
<1>7. (WaitingIsArmed /\ LatestWaits)'
  BY <1>1, <1>2, <1>4, <1>6 DEF WaitOK, WaitingIsArmed, LatestWaits
<1>8. QED
  BY <1>2, <1>4, <1>5, <1>6, <1>7 DEF WaitOK

(* Close drops entries and timers.                                            *)
LEMMA StopWait == ASSUME WaitOK, InStop PROVE WaitOK'
<1>1. \A d \in Chats : flushing[d] \in Nat /\ armed[d] \in Nat /\ Timers(d) <= handled
  BY InboundAssumption DEF WaitOK, Times
<1>2. /\ entries' = [c \in Chats |-> NoEntry] /\ armed' = [c \in Chats |-> 0] /\ 0 \in Times /\ handled \in Nat
      /\ UNCHANGED <<chat, clock, hand, handled, last, flushing, replaced, starting, running>>
  BY InboundAssumption DEF WaitOK, InStop, runVars, Times
<1>3. ASSUME NEW d \in Chats PROVE Timers(d)' <= handled'
  BY <1>1, <1>2 DEF Timers
<1>4. QED
  BY <1>2, <1>3 DEF WaitOK, WaitingIsArmed, LatestWaits

(* Every step preserves it.                                                   *)
LEMMA InStepIInv == InIInv /\ [InNext]_inVars => InIInv'
<1> SUFFICES ASSUME InIInv, [InNext]_inVars PROVE InIInv'
  OBVIOUS
<1> USE DEF InIInv
<1>1. CASE Tick
  <2>1. WaitOK'
    <3>1. /\ UNCHANGED <<chat, hand, handled, entries, last, armed, flushing, replaced, starting, running>>
          /\ clock' \in Times
      BY <1>1, InboundAssumption DEF Tick, runVars, WaitOK, Times
    <3>2. QED
      BY <3>1 DEF WaitOK, Timers, WaitingIsArmed, LatestWaits
  <2>2. QED
    BY <1>1, <2>1, TickCache
<1>2. ASSUME NEW m \in InMsgs, Receive(m) PROVE InIInv'
  <2>1. hand = NoMsg /\ hand' \in InMsgs \cup {NoMsg}
    BY <1>2 DEF Receive
  <2>2. WaitOK'
    BY <1>2, <2>1, TakenWait DEF Receive
  <2>3. QED
    BY <1>2, <2>2, ReceiveCache
<1>3. ASSUME NEW m \in InMsgs, ReceiveResult(m) PROVE InIInv'
  <2>1. WaitOK'
    BY <1>3, TakenWait DEF ReceiveResult
  <2>2. QED
    BY <1>3, <2>1, ReceiveResultCache
<1>4. CASE Submit
  BY <1>4, SubmitWait, CacheStays DEF Submit
<1>5. ASSUME NEW c \in Chats, Fire(c) PROVE InIInv'
  BY <1>5, FireWait, CacheStays DEF Fire, runVars
<1>6. ASSUME NEW c \in Chats, Flush(c) PROVE InIInv'
  BY <1>6, FlushWait, CacheStays DEF Flush, runVars
<1>7. CASE InStop
  BY <1>7, StopWait, CacheStays DEF InStop, runVars
<1>8. ASSUME NEW t \in starting, Begin(t) PROVE InIInv'
  BY <1>8, CacheStays DEF Begin, runVars, WaitOK, Timers, WaitingIsArmed, LatestWaits
<1>9. ASSUME NEW t \in running, End(t) PROVE InIInv'
  BY <1>9, CacheStays DEF End, runVars, WaitOK, Timers, WaitingIsArmed, LatestWaits
<1>10. CASE UNCHANGED inVars
  BY <1>10, CacheStays DEF inVars, runVars, WaitOK, Timers, WaitingIsArmed, LatestWaits
<1>11. QED
  BY <1>1, <1>2, <1>3, <1>4, <1>5, <1>6, <1>7, <1>8, <1>9, <1>10 DEF InNext, AtBound

\* However receipts, timers, flushes and the stop interleave, what waits in the
\* debouncer is the latest message of its chat and has a timer, and a message
\* passes the dedupe cache again within the TTL only when the cache was full.
THEOREM InboundCorrect == InSpec => []InInv
<1>1. InInit => InIInv
  <2> SUFFICES ASSUME InInit PROVE InIInv
    OBVIOUS
  <2>1. CacheOK
    <3>1. IsFiniteSet(passes) /\ passes = {} /\ seen = {} /\ clock \in Times
      BY FS_EmptySet, InboundAssumption DEF InInit, Times
    <3>2. QED
      BY <3>1 DEF CacheOK, ForgottenOnlyWhenFull
  <2>2. WaitOK
    BY InboundAssumption DEF InInit, WaitOK, Times, Timers, WaitingIsArmed, LatestWaits
  <2>3. QED
    BY <2>1, <2>2 DEF InIInv
<1>2. InIInv => InInv
  BY DEF InIInv, CacheOK, WaitOK, InInv, InTypeOK
<1>3. QED
  BY <1>1, <1>2, InStepIInv, PTL DEF InSpec
=============================================================================
