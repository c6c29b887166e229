------------------------ MODULE ActionLedger_proofs ------------------------
(***************************************************************************)
(* Proofs about ActionLedger, for any sets of calls, intents and Closes,   *)
(* any queue depth and any number of restarts.                             *)
(***************************************************************************)
EXTENDS ActionLedger, SequenceTheorems, TLAPS

(***************************************************************************)
(* The strengthening.  A call is at one place at a time: on its way in, in *)
(* the channel or with the writer, or answered; and the rows it owns are   *)
(* decided by its answer alone.                                            *)
(***************************************************************************)
NotYetQueued ==
    \A k \in Calls : pc[k] \in {"idle", "sending"} => ~Queued(k) /\ reply[k] = "none"

QueuedOnce ==
    /\ \A m, n \in 1..Len(writeCh) : writeCh[m] = writeCh[n] => m = n
    /\ \A n \in 1..Len(writeCh) : writeCh[n] # cur

QueuedIsUnanswered == \A k \in Calls : Queued(k) => reply[k] = "none"

WaitsForAnswer ==
    \A k \in Calls : pc[k] = "waiting" /\ reply[k] = "none" => Queued(k)

ReplyMatchesRows == \A k \in Calls : reply[k] = "ok" <=> RowsBy(k) # {}

ResultMatchesReply ==
    \A k \in Calls :
        /\ pc[k] = "returned" <=> result[k] # "none"
        /\ result[k] \in Replies => reply[k] = result[k]
        /\ result[k] = "ErrClosed" => ~Queued(k) /\ reply[k] = "none"

Fenced ==
    /\ closedFlag => \A k \in Calls : pc[k] # "sending"
    /\ writer = "exited" => closedFlag /\ cur = NoCall /\ writeCh = <<>>
    /\ ~dbOpen => writer = "exited"

Calling == NotYetQueued /\ QueuedOnce /\ QueuedIsUnanswered /\ WaitsForAnswer
Answering == ReplyMatchesRows /\ ResultMatchesReply
IInv == TypeOK /\ Calling /\ Answering /\ Fenced

-----------------------------------------------------------------------------
(* Type correctness. *)

\* Every step keeps every variable of the ledger in its type.
LEMMA TypeStep == TypeOK /\ [Next]_vars => TypeOK'
<1> SUFFICES ASSUME TypeOK, [Next]_vars PROVE TypeOK'
    OBVIOUS
<1> USE DEF TypeOK, tables, control, callers, Ops, Kinds, Replies, Results
<1>1. ASSUME NEW k \in Calls, EnqueueClosed(k) PROVE TypeOK'
    BY <1>1 DEF EnqueueClosed, Return
<1>2. ASSUME NEW k \in Calls, EnqueueBegin(k) PROVE TypeOK'
    BY <1>2 DEF EnqueueBegin
<1>3. ASSUME NEW k \in Calls, Send(k) PROVE TypeOK'
    BY <1>3 DEF Send
<1>4. ASSUME NEW k \in Calls, Handoff(k) PROVE TypeOK'
    BY <1>4 DEF Handoff
<1>5. ASSUME NEW k \in Calls, GiveUp(k) PROVE TypeOK'
    BY <1>5 DEF GiveUp, Return
<1>6. ASSUME NEW k \in Calls, Receive(k) PROVE TypeOK'
    BY <1>6 DEF Receive, Return
<1>7. CASE WriterTake
    BY <1>7 DEF WriterTake
<1>8. CASE DoFail
    BY <1>8 DEF DoFail, Answer
<1>9. CASE DoPrepare
    <2>1. op[cur] \in Ops
        BY <1>9, LedgerAssumption DEF DoPrepare, NoOp
    <2> QED
        BY <1>9, <2>1 DEF DoPrepare, Answer
<1>10. CASE DoFinalize
    <2>1. op[cur] \in Ops
        BY <1>10, LedgerAssumption DEF DoFinalize, NoOp
    <2> QED
        BY <1>10, <2>1 DEF DoFinalize, Answer, StatusOf
<1>11. CASE DoRefuse
    BY <1>11 DEF DoRefuse, Answer
<1>12. CASE WriterExit
    BY <1>12 DEF WriterExit
<1>13. ASSUME NEW c \in Closers, CloseBegin(c) PROVE TypeOK'
    BY <1>13 DEF CloseBegin
<1>14. ASSUME NEW c \in Closers, CloseFence(c) PROVE TypeOK'
    BY <1>14 DEF CloseFence
<1>15. ASSUME NEW c \in Closers, CloseFinish(c) PROVE TypeOK'
    BY <1>15 DEF CloseFinish
<1>16. CASE Restart
    <2>1. writeCh' \in Seq(Calls)
        BY <1>16, EmptySeq DEF Restart
    <2>2. /\ closer' \in [Closers -> {"idle", "fencing", "draining", "closed"}]
          /\ pc' \in [Calls -> {"idle", "sending", "waiting", "returned", "lost"}]
        BY <1>16 DEF Restart
    <2>3. UNCHANGED <<intents, commits, op, reply, result>> /\ restarts' \in Nat
        BY <1>16 DEF Restart
    <2>4. /\ cur' = NoCall /\ writer' = "running"
          /\ closedFlag' \in BOOLEAN /\ dbOpen' \in BOOLEAN
        BY <1>16 DEF Restart
    <2> QED
        BY <2>1, <2>2, <2>3, <2>4
<1>17. CASE UNCHANGED vars
    BY <1>17 DEF vars
<1> QED
    BY <1>1, <1>2, <1>3, <1>4, <1>5, <1>6, <1>7, <1>8, <1>9, <1>10, <1>11,
       <1>12, <1>13, <1>14, <1>15, <1>16, <1>17
       DEF Next, CallStep, WriterStep, CloseStep

\* A ledger just opened on a new database is well typed.
LEMMA InitTyped == Init => TypeOK
<1> SUFFICES ASSUME Init PROVE TypeOK
    OBVIOUS
<1>1. writeCh \in Seq(Calls)
    BY EmptySeq DEF Init
<1>2. /\ closer \in [Closers -> {"idle", "fencing", "draining", "closed"}]
      /\ pc \in [Calls -> {"idle", "sending", "waiting", "returned", "lost"}]
    BY DEF Init
<1>3. /\ reply \in [Calls -> Replies \cup {"none"}]
      /\ result \in [Calls -> Results \cup {"none"}]
    BY DEF Init
<1> QED
    BY <1>1, <1>2, <1>3 DEF Init, TypeOK

\* Every reachable state of the ledger is well typed.
THEOREM TypeCorrect == Spec => []TypeOK
    BY InitTyped, TypeStep, PTL DEF Spec

-----------------------------------------------------------------------------
(* How the two steps that move an operation change where the calls are. *)

\* A send puts its operation at the end of the channel and moves no other.
LEMMA QueuedAfterSend ==
    ASSUME TypeOK, NEW k \in Calls, Send(k)
    PROVE  /\ Len(writeCh') = Len(writeCh) + 1
           /\ \A n \in 1..Len(writeCh) : writeCh'[n] = writeCh[n]
           /\ writeCh'[Len(writeCh) + 1] = k
           /\ \A j \in Calls : Queued(j)' <=> Queued(j) \/ j = k
<1>1. writeCh \in Seq(Calls) /\ writeCh' = Append(writeCh, k) /\ cur' = cur
    BY DEF TypeOK, Send, Queued
<1>2. /\ Len(writeCh') = Len(writeCh) + 1
      /\ \A n \in 1..Len(writeCh) : writeCh'[n] = writeCh[n]
      /\ writeCh'[Len(writeCh) + 1] = k
    BY <1>1, AppendProperties
<1>3. Len(writeCh) \in Nat
    BY <1>1, LenProperties
<1>4. 1..Len(writeCh') = 1..Len(writeCh) \cup {Len(writeCh) + 1}
    BY <1>2, <1>3
<1> QED
    BY <1>1, <1>2, <1>4 DEF Queued

\* Taking the head of the channel leaves every operation with the ledger.
LEMMA QueuedAfterTake ==
    ASSUME TypeOK, QueuedOnce, WriterTake
    PROVE  QueuedOnce' /\ \A j \in Calls : Queued(j)' <=> Queued(j)
<1>1. writeCh \in Seq(Calls) /\ writeCh # <<>> /\ writeCh' = Tail(writeCh)
      /\ cur' = writeCh[1] /\ cur = NoCall
    BY DEF TypeOK, WriterTake
<1>2. /\ Len(writeCh) \in Nat \ {0}
      /\ Len(writeCh') = Len(writeCh) - 1
      /\ \A n \in 1..Len(writeCh') : writeCh'[n] = writeCh[n + 1]
    BY <1>1, EmptySeq, HeadTailProperties
<1>3. \A n \in 1..Len(writeCh') : n + 1 \in 2..Len(writeCh)
    BY <1>2
<1>4. \A n \in 2..Len(writeCh) : n - 1 \in 1..Len(writeCh') /\ writeCh'[n - 1] = writeCh[n]
    BY <1>2
<1>5. QueuedOnce'
    BY <1>1, <1>2, <1>3 DEF QueuedOnce
<1>6. ASSUME NEW j \in Calls, Queued(j) PROVE Queued(j)'
    BY <1>1, <1>2, <1>4, <1>6, LedgerAssumption DEF Queued
<1>7. ASSUME NEW j \in Calls, Queued(j)' PROVE Queued(j)
    BY <1>1, <1>2, <1>3, <1>7 DEF Queued
<1> QED
    BY <1>5, <1>6, <1>7

-----------------------------------------------------------------------------
(* The inductive invariant. *)

\* No step lets a producer past the fence, or the writer leave with work in hand.
LEMMA FencedStep == IInv /\ [Next]_vars => Fenced'
<1> SUFFICES ASSUME IInv, [Next]_vars PROVE Fenced'
    OBVIOUS
<1> USE LedgerAssumption DEF IInv, TypeOK, Fenced, tables, control, callers
<1>1. ASSUME NEW k \in Calls, EnqueueClosed(k) PROVE Fenced'
    BY <1>1 DEF EnqueueClosed, Return, CanRLock
<1>2. ASSUME NEW k \in Calls, EnqueueBegin(k) PROVE Fenced'
    BY <1>2 DEF EnqueueBegin, CanRLock
<1>3. ASSUME NEW k \in Calls, Send(k) PROVE Fenced'
    BY <1>3 DEF Send
<1>4. ASSUME NEW k \in Calls, Handoff(k) PROVE Fenced'
    BY <1>4 DEF Handoff
<1>5. ASSUME NEW k \in Calls, GiveUp(k) PROVE Fenced'
    BY <1>5 DEF GiveUp, Return
<1>6. ASSUME NEW k \in Calls, Receive(k) PROVE Fenced'
    BY <1>6 DEF Receive, Return
<1>7. CASE WriterTake
    BY <1>7 DEF WriterTake
<1>8. CASE DoFail
    BY <1>8 DEF DoFail, Answer
<1>9. CASE DoPrepare
    BY <1>9 DEF DoPrepare, Answer, IntentIDs
<1>10. CASE DoFinalize
    BY <1>10 DEF DoFinalize, Answer, Finalizable, IntentIDs, FinalizedIDs, StatusOf
<1>11. CASE DoRefuse
    BY <1>11 DEF DoRefuse, Answer
<1>12. CASE WriterExit
    BY <1>12 DEF WriterExit
<1>13. ASSUME NEW c \in Closers, CloseBegin(c) PROVE Fenced'
    BY <1>13 DEF CloseBegin
<1>14. ASSUME NEW c \in Closers, CloseFence(c) PROVE Fenced'
    BY <1>14 DEF CloseFence, CanLock
<1>15. ASSUME NEW c \in Closers, CloseFinish(c) PROVE Fenced'
    BY <1>15 DEF CloseFinish
<1>16. CASE Restart
    BY <1>16 DEF Restart
<1>17. CASE UNCHANGED vars
    BY <1>17 DEF vars
<1> QED
    BY <1>1, <1>2, <1>3, <1>4, <1>5, <1>6, <1>7, <1>8, <1>9, <1>10,
       <1>11, <1>12, <1>13, <1>14, <1>15, <1>16, <1>17
       DEF Next, CallStep, WriterStep, CloseStep

\* No step puts a call in two places, or lets it wait for an answer nobody owes.
LEMMA CallingStep == IInv /\ [Next]_vars => Calling'
<1> SUFFICES ASSUME IInv, [Next]_vars PROVE Calling'
    OBVIOUS
<1>3. ASSUME NEW k \in Calls, Send(k) PROVE Calling'
    <2>1. \A j \in Calls : Queued(j)' <=> Queued(j) \/ j = k
        BY <1>3, QueuedAfterSend DEF IInv
    <2>2. pc[k] = "sending" /\ pc' = [pc EXCEPT ![k] = "waiting"] /\ UNCHANGED <<cur, reply>>
        BY <1>3 DEF Send
    <2>3. QueuedOnce'
        <3>1. /\ Len(writeCh) \in Nat /\ Len(writeCh') = Len(writeCh) + 1
              /\ \A n \in 1..Len(writeCh) : writeCh'[n] = writeCh[n] /\ writeCh'[n] # k
              /\ writeCh'[Len(writeCh) + 1] = k /\ cur # k
            BY <1>3, <2>2, QueuedAfterSend, LenProperties
               DEF IInv, TypeOK, Calling, NotYetQueued, Queued
        <3> QED
            BY <2>2, <3>1 DEF IInv, Calling, QueuedOnce
    <2>4. NotYetQueued' /\ QueuedIsUnanswered' /\ WaitsForAnswer'
        BY <2>1, <2>2 DEF IInv, TypeOK, Calling, NotYetQueued, QueuedIsUnanswered, WaitsForAnswer
    <2> QED
        BY <2>3, <2>4 DEF Calling
<1>7. CASE WriterTake
    <2>1. QueuedOnce' /\ \A j \in Calls : Queued(j)' <=> Queued(j)
        BY <1>7, QueuedAfterTake DEF IInv, Calling
    <2>2. UNCHANGED <<pc, reply>>
        BY <1>7 DEF WriterTake, callers
    <2> QED
        BY <2>1, <2>2 DEF IInv, Calling, NotYetQueued, QueuedIsUnanswered, WaitsForAnswer
<1>11. CASE DoRefuse
    <2>1. PICK e \in Replies : cur # NoCall /\ Answer(e)
        BY <1>11 DEF DoRefuse, Replies
    <2> QED
        BY <2>1, LedgerAssumption
           DEF IInv, TypeOK, Answer, Calling, NotYetQueued, QueuedOnce,
               QueuedIsUnanswered, WaitsForAnswer, Queued, control, Replies
<1>16. CASE Restart
    <2>1. \A k \in Calls : ~Queued(k)'
        BY <1>16, EmptySeq, LedgerAssumption DEF Restart, Queued
    <2>2. QueuedOnce'
        BY <1>16, EmptySeq DEF Restart, QueuedOnce
    <2>3. \A k \in Calls : /\ pc[k] # "idle" => pc'[k] \notin {"idle", "sending"}
                           /\ pc'[k] # "waiting"
        BY <1>16 DEF IInv, TypeOK, Restart
    <2>4. reply' = reply
        BY <1>16 DEF Restart
    <2> QED
        BY <2>1, <2>2, <2>3, <2>4 DEF IInv, Calling, NotYetQueued, QueuedIsUnanswered, WaitsForAnswer
<1> USE LedgerAssumption DEF IInv, TypeOK, Calling, NotYetQueued, QueuedOnce, QueuedIsUnanswered, WaitsForAnswer, Queued,
           tables, control, callers, Replies
<1>1. ASSUME NEW k \in Calls, EnqueueClosed(k) PROVE Calling'
    BY <1>1 DEF EnqueueClosed, Return, CanRLock
<1>2. ASSUME NEW k \in Calls, EnqueueBegin(k) PROVE Calling'
    BY <1>2 DEF EnqueueBegin, CanRLock
<1>4. ASSUME NEW k \in Calls, Handoff(k) PROVE Calling'
    BY <1>4 DEF Handoff
<1>5. ASSUME NEW k \in Calls, GiveUp(k) PROVE Calling'
    BY <1>5 DEF GiveUp, Return
<1>6. ASSUME NEW k \in Calls, Receive(k) PROVE Calling'
    BY <1>6 DEF Receive, Return
<1>8. CASE DoFail
    BY <1>8 DEF DoFail, Answer
<1>9. CASE DoPrepare
    BY <1>9 DEF DoPrepare, Answer, IntentIDs
<1>10. CASE DoFinalize
    BY <1>10 DEF DoFinalize, Answer, Finalizable, IntentIDs, FinalizedIDs, StatusOf
<1>12. CASE WriterExit
    BY <1>12 DEF WriterExit
<1>13. ASSUME NEW c \in Closers, CloseBegin(c) PROVE Calling'
    BY <1>13 DEF CloseBegin
<1>14. ASSUME NEW c \in Closers, CloseFence(c) PROVE Calling'
    BY <1>14 DEF CloseFence, CanLock
<1>15. ASSUME NEW c \in Closers, CloseFinish(c) PROVE Calling'
    BY <1>15 DEF CloseFinish
<1>17. CASE UNCHANGED vars
    BY <1>17 DEF vars
<1> QED
    BY <1>1, <1>2, <1>3, <1>4, <1>5, <1>6, <1>7, <1>8, <1>9, <1>10,
       <1>11, <1>12, <1>13, <1>14, <1>15, <1>16, <1>17
       DEF Next, CallStep, WriterStep, CloseStep

\* No step lets an answer and the rows of its call disagree.
LEMMA AnsweringStep == IInv /\ [Next]_vars => Answering'
<1> SUFFICES ASSUME IInv, [Next]_vars PROVE Answering'
    OBVIOUS
<1>3. ASSUME NEW k \in Calls, Send(k) PROVE Answering'
    <2>1. \A j \in Calls : Queued(j)' <=> Queued(j) \/ j = k
        BY <1>3, QueuedAfterSend DEF IInv
    <2>2. /\ pc[k] = "sending" /\ pc' = [pc EXCEPT ![k] = "waiting"]
          /\ UNCHANGED <<tables, reply, result>>
        BY <1>3 DEF Send
    <2> QED
        BY <2>1, <2>2 DEF IInv, TypeOK, Calling, NotYetQueued, Answering, ReplyMatchesRows, ResultMatchesReply, RowsBy, tables
<1>7. CASE WriterTake
    <2>1. \A j \in Calls : Queued(j)' <=> Queued(j)
        BY <1>7, QueuedAfterTake DEF IInv, Calling
    <2>2. UNCHANGED <<intents, commits, pc, reply, result>>
        BY <1>7 DEF WriterTake, callers, tables
    <2> QED
        BY <2>1, <2>2 DEF IInv, Answering, ReplyMatchesRows, ResultMatchesReply, RowsBy
<1>9. CASE DoPrepare
    <2>1. PICK c, row : /\ c \in Calls /\ c = cur /\ row.by = c
                      /\ intents' = intents \cup {row}
        BY <1>9 DEF IInv, TypeOK, DoPrepare
    <2>2. /\ reply[c] = "none" /\ reply' = [reply EXCEPT ![c] = "ok"]
          /\ cur' = NoCall /\ UNCHANGED <<commits, writeCh, pc, result>>
        BY <1>9, <2>1 DEF IInv, TypeOK, Calling, QueuedIsUnanswered, Queued, DoPrepare, Answer
    <2>3. row \in RowsBy(c)' /\ \A k \in Calls \ {c} : RowsBy(k)' = RowsBy(k)
        BY <2>1, <2>2 DEF RowsBy
    <2>4. ReplyMatchesRows'
        BY <2>2, <2>3 DEF IInv, TypeOK, Answering, ReplyMatchesRows
    <2>5. ResultMatchesReply'
        BY <2>1, <2>2, LedgerAssumption
           DEF IInv, TypeOK, Answering, ResultMatchesReply, Queued, Replies
    <2> QED
        BY <2>4, <2>5 DEF Answering
<1>10. CASE DoFinalize
    <2>1. PICK c, row : /\ c \in Calls /\ c = cur /\ row.by = c
                      /\ commits' = commits \cup {row}
        BY <1>10 DEF IInv, TypeOK, DoFinalize
    <2>2. /\ reply[c] = "none" /\ reply' = [reply EXCEPT ![c] = "ok"]
          /\ cur' = NoCall /\ UNCHANGED <<intents, writeCh, pc, result>>
        BY <1>10, <2>1 DEF IInv, TypeOK, Calling, QueuedIsUnanswered, Queued, DoFinalize, Answer
    <2>3. row \in RowsBy(c)' /\ \A k \in Calls \ {c} : RowsBy(k)' = RowsBy(k)
        BY <2>1, <2>2 DEF RowsBy
    <2>4. ReplyMatchesRows'
        BY <2>2, <2>3 DEF IInv, TypeOK, Answering, ReplyMatchesRows
    <2>5. ResultMatchesReply'
        BY <2>1, <2>2, LedgerAssumption
           DEF IInv, TypeOK, Answering, ResultMatchesReply, Queued, Replies
    <2> QED
        BY <2>4, <2>5 DEF Answering
<1> USE LedgerAssumption DEF IInv, TypeOK, Calling, NotYetQueued, QueuedIsUnanswered, Answering, ReplyMatchesRows,
           ResultMatchesReply, RowsBy, Queued, Fenced, tables, control, callers, Replies, Results
<1>1. ASSUME NEW k \in Calls, EnqueueClosed(k) PROVE Answering'
    BY <1>1 DEF EnqueueClosed, Return, CanRLock
<1>2. ASSUME NEW k \in Calls, EnqueueBegin(k) PROVE Answering'
    BY <1>2 DEF EnqueueBegin, CanRLock
<1>4. ASSUME NEW k \in Calls, Handoff(k) PROVE Answering'
    BY <1>4 DEF Handoff
<1>5. ASSUME NEW k \in Calls, GiveUp(k) PROVE Answering'
    BY <1>5 DEF GiveUp, Return
<1>6. ASSUME NEW k \in Calls, Receive(k) PROVE Answering'
    BY <1>6 DEF Receive, Return
<1>8. CASE DoFail
    BY <1>8 DEF DoFail, Answer
<1>11. CASE DoRefuse
    BY <1>11 DEF DoRefuse, Answer
<1>12. CASE WriterExit
    BY <1>12 DEF WriterExit
<1>13. ASSUME NEW c \in Closers, CloseBegin(c) PROVE Answering'
    BY <1>13 DEF CloseBegin
<1>14. ASSUME NEW c \in Closers, CloseFence(c) PROVE Answering'
    BY <1>14 DEF CloseFence, CanLock
<1>15. ASSUME NEW c \in Closers, CloseFinish(c) PROVE Answering'
    BY <1>15 DEF CloseFinish
<1>16. CASE Restart
    BY <1>16 DEF Restart
<1>17. CASE UNCHANGED vars
    BY <1>17 DEF vars
<1> QED
    BY <1>1, <1>2, <1>3, <1>4, <1>5, <1>6, <1>7, <1>8, <1>9, <1>10,
       <1>11, <1>12, <1>13, <1>14, <1>15, <1>16, <1>17
       DEF Next, CallStep, WriterStep, CloseStep

-----------------------------------------------------------------------------
(* The safety properties. *)

\* The strengthened invariant holds in every reachable state.
THEOREM Invariance == Spec => []IInv
<1>1. Init => IInv
    <2> SUFFICES ASSUME Init PROVE IInv
        OBVIOUS
    <2>1. TypeOK
        BY InitTyped
    <2>2. /\ \A k \in Calls : /\ pc[k] = "idle" /\ reply[k] = "none" /\ result[k] = "none"
                              /\ RowsBy(k) = {}
          /\ writer = "running" /\ dbOpen /\ ~closedFlag
        BY DEF Init, RowsBy
    <2>3. Len(writeCh) = 0 /\ \A k \in Calls : ~Queued(k)
        BY EmptySeq, LedgerAssumption DEF Init, Queued
    <2> QED
        BY <2>1, <2>2, <2>3
           DEF IInv, Calling, NotYetQueued, QueuedOnce, QueuedIsUnanswered, WaitsForAnswer,
               Answering, ReplyMatchesRows, ResultMatchesReply, Fenced, Replies
<1>2. IInv /\ [Next]_vars => IInv'
    BY TypeStep, FencedStep, CallingStep, AnsweringStep DEF IInv
<1> QED
    BY <1>1, <1>2, PTL DEF Spec

\* Callers are told the truth about the disk, in every reachable state.
THEOREM TruthfulResults == Spec => []ResultMatchesRows
<1>1. IInv => ResultMatchesRows
    BY DEF IInv, TypeOK, Answering, ReplyMatchesRows, ResultMatchesReply, ResultMatchesRows,
           Replies, Results
<1> QED
    BY <1>1, Invariance, PTL

\* Whatever the number of producers and Closes, the writer strands nobody.
THEOREM NobodyIsStranded == Spec => []NobodyStranded
<1>1. IInv => NobodyStranded
    <2> SUFFICES ASSUME IInv, writer = "exited", NEW k \in Calls
                 PROVE  pc[k] # "sending" /\ (pc[k] = "waiting" => reply[k] # "none")
        BY DEF NobodyStranded
    <2>1. ~Queued(k)
        BY EmptySeq, LedgerAssumption DEF IInv, Fenced, Queued
    <2> QED
        BY <2>1 DEF IInv, Fenced, Calling, WaitsForAnswer
<1> QED
    BY <1>1, Invariance, PTL

\* Nothing reaches the database after its handle is closed.
THEOREM QuietAfterClose == Spec => []ClosedIsQuiet
<1>1. IInv => ClosedIsQuiet
    BY DEF IInv, Fenced, ClosedIsQuiet
<1> QED
    BY <1>1, Invariance, PTL

\* Only DoPrepare and DoFinalize write, and neither removes a row.
LEMMA TablesChange ==
    ASSUME [Next]_vars
    PROVE  \/ UNCHANGED tables
           \/ DoPrepare
           \/ DoFinalize
BY DEF Next, CallStep, WriterStep, CloseStep, EnqueueClosed, EnqueueBegin, Send, Handoff,
       GiveUp, Receive, WriterTake, DoFail, DoRefuse, WriterExit, CloseBegin, CloseFence,
       CloseFinish, Restart, vars

\* Every finalization names a prepared intent, and no intent has two of them.
THEOREM LedgerConsistent == Spec => [](OneOutcome /\ OutcomeHasIntent)
<1> DEFINE Inv == OneOutcome /\ OutcomeHasIntent
<1>1. Init => Inv
    BY DEF Init, OneOutcome, OutcomeHasIntent, FinalizedIDs
<1>2. Inv /\ [Next]_vars => Inv'
    <2> SUFFICES ASSUME Inv, [Next]_vars PROVE Inv'
        OBVIOUS
    <2>1. CASE UNCHANGED tables
        BY <2>1 DEF tables, OneOutcome, OutcomeHasIntent, FinalizedIDs, IntentIDs
    <2>2. CASE DoPrepare
        BY <2>2 DEF DoPrepare, OneOutcome, OutcomeHasIntent, FinalizedIDs, IntentIDs
    <2>3. CASE DoFinalize
        BY <2>3 DEF DoFinalize, Finalizable, OneOutcome, OutcomeHasIntent, FinalizedIDs, IntentIDs
    <2> QED
        BY <2>1, <2>2, <2>3, TablesChange
<1> QED
    BY <1>1, <1>2, PTL DEF Spec

\* The rows on disk are well formed in every reachable state.
THEOREM RowsCorrect == Spec => []RowsInv
<1>1. TypeOK /\ OneOutcome /\ OutcomeHasIntent => RowsInv
    BY DEF RowsInv
<1> QED
    BY <1>1, TypeCorrect, LedgerConsistent, PTL

-----------------------------------------------------------------------------
(***************************************************************************)
(* The ledger as its callers see it.  Each step of the writer, the channel *)
(* and the locks is one step of AbstractLedger, or none that it sees: the  *)
(* writer's INSERT is where a call takes effect.                           *)
(***************************************************************************)

RInv == IInv /\ OneOutcome /\ OutcomeHasIntent

\* The abstract outcome of an intent, by the rows on disk.
LEMMA OutcomeIs ==
    ASSUME NEW i \in Intents
    PROVE  /\ DOMAIN outcomeBar = Intents
           /\ Has(i, "committed") => outcomeBar[i] = "committed"
           /\ ~Has(i, "committed") /\ Has(i, "aborted") => outcomeBar[i] = "aborted"
           /\ ~Has(i, "committed") /\ ~Has(i, "aborted") =>
                outcomeBar[i] = IF i \in IntentIDs THEN "prepared" ELSE "absent"
BY DEF outcomeBar

\* The abstract stage of a call, by where it is.
LEMMA StageIs ==
    ASSUME NEW k \in Calls
    PROVE  /\ stageBar = [j \in Calls |-> stageBar[j]]
           /\ pc[k] = "idle" => stageBar[k] = "idle"
           /\ pc[k] # "idle" /\ reply[k] # "none" => stageBar[k] = "settled"
           /\ pc[k] # "idle" /\ reply[k] = "none" =>
                stageBar[k] = IF pc[k] = "sending" \/ Queued(k) THEN "open" ELSE "dropped"
BY DEF stageBar

\* A step that changes no row leaves every outcome.
LEMMA SameOutcome ==
    ASSUME UNCHANGED tables
    PROVE  outcomeBar' = outcomeBar
BY DEF outcomeBar, tables, Has, IntentIDs

\* A step that leaves call j where it was, or moves it within the ledger,
\* leaves its stage.
SameCall(j) ==
    /\ reply'[j] = reply[j] /\ (pc'[j] = "idle" <=> pc[j] = "idle")
    /\ (pc'[j] = "sending" \/ Queued(j)') <=> (pc[j] = "sending" \/ Queued(j))

LEMMA SameStage ==
    ASSUME NEW j \in Calls, SameCall(j)
    PROVE  stageBar'[j] = stageBar[j]
BY DEF stageBar, SameCall

\* Such a step, of every call, is one the callers do not see.
LEMMA Unseen ==
    ASSUME UNCHANGED <<tables, op, reply, result>>, \A j \in Calls : SameCall(j)
    PROVE  UNCHANGED Promise!avars
<1>1. outcomeBar' = outcomeBar
    BY SameOutcome
<1>2. stageBar' = stageBar
    BY DEF stageBar, SameCall
<1> QED
    BY <1>1, <1>2 DEF Promise!avars

\* A step that moves only call k moves only its stage.
LEMMA StageMoves ==
    ASSUME NEW k \in Calls, \A j \in Calls \ {k} : SameCall(j)
    PROVE  \A v : stageBar'[k] = v => stageBar' = [stageBar EXCEPT ![k] = v]
<1>1. stageBar = [j \in Calls |-> stageBar[j]] /\ stageBar' = [j \in Calls |-> stageBar'[j]]
    BY DEF stageBar
<1>2. \A j \in Calls \ {k} : stageBar'[j] = stageBar[j]
    BY SameStage
<1> QED
    BY <1>1, <1>2

\* The three ways in: turned away, begun, given up or answered.
LEMMA CallerSees ==
    ASSUME IInv, NEW k \in Calls, CallStep(k)
    PROVE  [Promise!ANext]_(Promise!avars)
<1> USE DEF tables, control, callers
<1>1. CASE EnqueueClosed(k)
    <2>1. /\ pc[k] = "idle" /\ pc' = [pc EXCEPT ![k] = "returned"]
          /\ result' = [result EXCEPT ![k] = "ErrClosed"]
          /\ UNCHANGED <<tables, writeCh, cur, op, reply>>
        BY <1>1 DEF EnqueueClosed, Return
    <2>2. reply[k] = "none" /\ ~Queued(k)
        BY <2>1 DEF IInv, Calling, NotYetQueued
    <2>3. ~Queued(k)' /\ pc'[k] = "returned" /\ \A j \in Calls \ {k} : SameCall(j)
        BY <2>1, <2>2 DEF Queued, SameCall, IInv, TypeOK
    <2>4. stageBar[k] = "idle" /\ stageBar'[k] = "dropped"
        BY <2>1, <2>2, <2>3 DEF stageBar
    <2>5. stageBar' = [stageBar EXCEPT ![k] = "dropped"]
        BY <2>3, <2>4, StageMoves
    <2>6. Promise!TurnAway(k)
        BY <2>1, <2>4, <2>5, SameOutcome DEF Promise!TurnAway
    <2> QED
        BY <2>6 DEF Promise!ANext
<1>2. CASE EnqueueBegin(k)
    <2>1. PICK o \in Ops : op' = [op EXCEPT ![k] = o]
        BY <1>2 DEF EnqueueBegin
    <2>2. /\ pc[k] = "idle" /\ pc' = [pc EXCEPT ![k] = "sending"]
          /\ UNCHANGED <<tables, writeCh, cur, reply, result>>
        BY <1>2 DEF EnqueueBegin
    <2>3. reply[k] = "none"
        BY <2>2 DEF IInv, Calling, NotYetQueued
    <2>4. pc'[k] = "sending" /\ \A j \in Calls \ {k} : SameCall(j)
        BY <2>2 DEF Queued, SameCall, IInv, TypeOK
    <2>5. stageBar[k] = "idle" /\ stageBar'[k] = "open"
        BY <2>2, <2>3, <2>4 DEF stageBar
    <2>6. stageBar' = [stageBar EXCEPT ![k] = "open"]
        BY <2>4, <2>5, StageMoves
    <2>7. Promise!Invoke(k, o) /\ o \in Promise!Requests
        BY <2>1, <2>2, <2>5, <2>6, SameOutcome DEF Promise!Invoke, Promise!Requests, Ops, Kinds
    <2> QED
        BY <2>7 DEF Promise!ANext
<1>3. CASE Send(k)
    <2>1. \A j \in Calls : Queued(j)' <=> Queued(j) \/ j = k
        BY <1>3, QueuedAfterSend DEF IInv
    <2>2. /\ pc[k] = "sending" /\ pc' = [pc EXCEPT ![k] = "waiting"]
          /\ UNCHANGED <<tables, op, reply, result>>
        BY <1>3 DEF Send
    <2>3. \A j \in Calls : SameCall(j)
        BY <2>1, <2>2 DEF SameCall, IInv, TypeOK
    <2> QED
        BY <2>2, <2>3, Unseen
<1>4. CASE Handoff(k)
    <2>1. /\ pc[k] = "sending" /\ pc' = [pc EXCEPT ![k] = "waiting"] /\ cur = NoCall /\ cur' = k
          /\ UNCHANGED <<tables, writeCh, op, reply, result>>
        BY <1>4 DEF Handoff
    <2>2. \A j \in Calls : SameCall(j)
        BY <2>1, LedgerAssumption DEF SameCall, Queued, IInv, TypeOK
    <2> QED
        BY <2>1, <2>2, Unseen
<1>5. CASE GiveUp(k)
    <2>1. /\ pc[k] \in {"sending", "waiting"} /\ pc' = [pc EXCEPT ![k] = "returned"]
          /\ result' = [result EXCEPT ![k] = "ctxErr"]
          /\ UNCHANGED <<tables, writeCh, cur, op, reply>>
        BY <1>5 DEF GiveUp, Return
    <2>2. result[k] = "none"
        BY <2>1 DEF IInv, Answering, ResultMatchesReply
    <2>3. /\ Queued(k)' <=> Queued(k)
          /\ pc'[k] = "returned" /\ \A j \in Calls \ {k} : SameCall(j)
        BY <2>1 DEF Queued, SameCall, IInv, TypeOK
    <2>4. stageBar[k] \in {"open", "settled"}
        BY <2>1 DEF stageBar, IInv, Calling, WaitsForAnswer
    <2>5. stageBar'[k] = stageBar[k] \/ (stageBar[k] = "open" /\ stageBar'[k] = "dropped")
        BY <2>1, <2>3 DEF stageBar
    <2>6. \/ stageBar' = stageBar
          \/ stageBar[k] = "open" /\ stageBar' = [stageBar EXCEPT ![k] = "dropped"]
        <3>1. stageBar' = [stageBar EXCEPT ![k] = stageBar'[k]]
            BY <2>3, StageMoves
        <3>2. [stageBar EXCEPT ![k] = stageBar[k]] = stageBar
            BY DEF stageBar
        <3> QED
            BY <2>5, <3>1, <3>2
    <2>7. Promise!LeaveEarly(k)
        BY <2>1, <2>2, <2>4, <2>6, SameOutcome DEF Promise!LeaveEarly
    <2> QED
        BY <2>7 DEF Promise!ANext
<1>6. CASE Receive(k)
    <2>1. /\ pc[k] = "waiting" /\ reply[k] # "none" /\ pc' = [pc EXCEPT ![k] = "returned"]
          /\ result' = [result EXCEPT ![k] = reply[k]]
          /\ UNCHANGED <<tables, writeCh, cur, op, reply>>
        BY <1>6 DEF Receive, Return
    <2>2. result[k] = "none"
        BY <2>1 DEF IInv, Answering, ResultMatchesReply
    <2>3. pc'[k] = "returned" /\ \A j \in Calls \ {k} : SameCall(j)
        BY <2>1 DEF Queued, SameCall, IInv, TypeOK
    <2>4. stageBar[k] = "settled" /\ stageBar'[k] = "settled"
        BY <2>1, <2>3 DEF stageBar
    <2>5. stageBar' = stageBar
        <3>1. stageBar' = [stageBar EXCEPT ![k] = "settled"]
            BY <2>3, <2>4, StageMoves
        <3> QED
            BY <2>4, <3>1 DEF stageBar
    <2>6. Promise!LearnVerdict(k)
        BY <2>1, <2>2, <2>4, <2>5, SameOutcome DEF Promise!LearnVerdict
    <2> QED
        BY <2>6 DEF Promise!ANext
<1> QED
    BY <1>1, <1>2, <1>3, <1>4, <1>5, <1>6 DEF CallStep

\* The operation the writer holds is open.
LEMMA HeldIsOpen ==
    ASSUME IInv, cur # NoCall
    PROVE  cur \in Calls /\ pc[cur] \notin {"idle", "sending"} /\ reply[cur] = "none"
           /\ stageBar[cur] = "open"
<1>1. cur \in Calls /\ Queued(cur)
    BY DEF IInv, TypeOK, Queued
<1>2. reply[cur] = "none" /\ pc[cur] \notin {"idle", "sending"}
    BY <1>1 DEF IInv, Calling, NotYetQueued, QueuedIsUnanswered
<1> QED
    BY <1>1, <1>2 DEF stageBar

\* The answer of the writer settles its operation.
LEMMA AnswerSettles ==
    ASSUME IInv, cur # NoCall, NEW v \in Replies, Answer(v)
    PROVE  Promise!Settle(cur, v)
<1> PICK k : k = cur
    OBVIOUS
<1>1. k \in Calls /\ pc[k] # "idle" /\ reply[k] = "none"
    BY HeldIsOpen
<1>2. /\ reply' = [reply EXCEPT ![k] = v] /\ cur' = NoCall
      /\ UNCHANGED <<writeCh, pc, op, result>>
    BY DEF Answer
<1>3. \A j \in Calls : Queued(j)' <=> Queued(j) /\ j # k
    BY <1>1, <1>2, LedgerAssumption DEF Queued, IInv, Calling, QueuedOnce
<1>4. reply'[k] = v /\ v # "none" /\ \A j \in Calls \ {k} : SameCall(j)
    BY <1>1, <1>2, <1>3 DEF SameCall, IInv, TypeOK, Replies
<1>5. stageBar'[k] = "settled"
    BY <1>1, <1>2, <1>4 DEF stageBar
<1>6. stageBar' = [stageBar EXCEPT ![k] = "settled"]
    BY <1>1, <1>4, <1>5, StageMoves
<1> QED
    BY <1>2, <1>6 DEF Promise!Settle

\* The writer: an INSERT is where a call takes effect.
LEMMA WriterSees ==
    ASSUME RInv, WriterStep
    PROVE  [Promise!ANext]_(Promise!avars)
<1> USE DEF RInv
<1>1. CASE WriterTake
    <2>1. \A j \in Calls : Queued(j)' <=> Queued(j)
        BY <1>1, QueuedAfterTake DEF IInv, Calling
    <2>2. UNCHANGED <<tables, pc, op, reply, result>>
        BY <1>1 DEF WriterTake, callers
    <2> QED
        BY <2>1, <2>2, Unseen DEF SameCall
<1>2. CASE DoFail
    <2>1. cur # NoCall /\ Answer("ErrWrite") /\ UNCHANGED tables
        BY <1>2 DEF DoFail
    <2>2. Promise!Settle(cur, "ErrWrite") /\ cur \in Calls /\ stageBar[cur] = "open"
        BY <2>1, AnswerSettles, HeldIsOpen DEF Replies
    <2>3. Promise!Refuse(cur)
        BY <2>1, <2>2, SameOutcome DEF Promise!Refuse
    <2> QED
        BY <2>2, <2>3 DEF Promise!ANext
<1>3. CASE DoPrepare
    <2> PICK k, i : k = cur /\ i = op[cur].id
        OBVIOUS
    <2>1. /\ cur # NoCall /\ op[k].kind = "prepare" /\ i \notin IntentIDs
          /\ intents' = intents \cup {[id |-> i, by |-> k]} /\ UNCHANGED commits
          /\ Answer("ok")
        BY <1>3 DEF DoPrepare
    <2>2. Promise!Settle(k, "ok") /\ k \in Calls /\ stageBar[k] = "open"
        BY <2>1, AnswerSettles, HeldIsOpen DEF Replies
    <2>3. op[k] = [kind |-> "prepare", id |-> i] /\ i \in Intents
        BY <2>1, <2>2 DEF IInv, TypeOK, Ops, NoOp
    <2>4. ~Has(i, "committed") /\ ~Has(i, "aborted")
        BY <2>1 DEF OutcomeHasIntent, FinalizedIDs, Has
    <2>5. outcomeBar[i] = "absent"
        BY <2>1, <2>3, <2>4, OutcomeIs
    <2>6. /\ IntentIDs' = IntentIDs \cup {i}
          /\ \A j \in Intents : /\ Has(j, "committed")' <=> Has(j, "committed")
                                /\ Has(j, "aborted")' <=> Has(j, "aborted")
        <3> DEFINE new == [id |-> i, by |-> k]
        <3>1. new.id = i /\ intents' = intents \cup {new}
            BY <2>1
        <3>2. IntentIDs' = IntentIDs \cup {i}
            <4> HIDE DEF new
            <4> QED
                BY <3>1 DEF IntentIDs
        <3>3. \A j \in Intents : /\ Has(j, "committed")' <=> Has(j, "committed")
                                 /\ Has(j, "aborted")' <=> Has(j, "aborted")
            BY <2>1 DEF Has
        <3> QED
            BY <3>2, <3>3
    <2>7. outcomeBar' = [outcomeBar EXCEPT ![i] = "prepared"]
        BY <2>3, <2>4, <2>6 DEF outcomeBar
    <2>8. Promise!TakeEffect(k)
        BY <2>2, <2>3, <2>5, <2>7 DEF Promise!TakeEffect
    <2> QED
        BY <2>2, <2>8 DEF Promise!ANext
<1>4. CASE DoFinalize
    <2> PICK k, i, s : k = cur /\ i = op[cur].id /\ s = StatusOf(op[cur].kind)
        OBVIOUS
    <2>1. /\ cur # NoCall /\ op[k].kind \in {"commit", "abort"}
          /\ i \in IntentIDs /\ i \notin FinalizedIDs
          /\ commits' = commits \cup {[id |-> i, status |-> s, by |-> k]} /\ UNCHANGED intents
          /\ Answer("ok")
        BY <1>4 DEF DoFinalize, Finalizable
    <2>2. Promise!Settle(k, "ok") /\ k \in Calls /\ stageBar[k] = "open"
        BY <2>1, AnswerSettles, HeldIsOpen DEF Replies
    <2>3. op[k] \in Ops /\ i \in Intents
        BY <2>1, <2>2 DEF IInv, TypeOK, Ops, NoOp
    <2>4. \/ op[k] = [kind |-> "commit", id |-> i] /\ s = "committed"
          \/ op[k] = [kind |-> "abort", id |-> i] /\ s = "aborted"
        BY <2>1, <2>3 DEF Ops, StatusOf
    <2>5. ~Has(i, "committed") /\ ~Has(i, "aborted")
        BY <2>1 DEF FinalizedIDs, Has
    <2>6. outcomeBar[i] = "prepared"
        BY <2>1, <2>3, <2>5, OutcomeIs
    <2>7. /\ \A j \in Intents \ {i} : /\ Has(j, "committed")' <=> Has(j, "committed")
                                      /\ Has(j, "aborted")' <=> Has(j, "aborted")
          /\ Has(i, "committed")' <=> (s = "committed")
          /\ Has(i, "aborted")' <=> (s = "aborted")
          /\ IntentIDs' = IntentIDs
        <3> DEFINE new == [id |-> i, status |-> s, by |-> k]
        <3>1. new.id = i /\ new.status = s /\ commits' = commits \cup {new}
            BY <2>1
        <3>2. IntentIDs' = IntentIDs
            BY <2>1 DEF IntentIDs
        <3> HIDE DEF new
        <3>3. \A j \in Intents : \A v : Has(j, v)' <=> (Has(j, v) \/ (j = i /\ v = s))
            BY <3>1 DEF Has
        <3> QED
            BY <2>3, <2>5, <3>2, <3>3
    <2>8. outcomeBar' = [outcomeBar EXCEPT ![i] = s]
        BY <2>3, <2>4, <2>7 DEF outcomeBar
    <2>9. Promise!TakeEffect(k)
        BY <2>2, <2>3, <2>4, <2>6, <2>8 DEF Promise!TakeEffect
    <2> QED
        BY <2>2, <2>9 DEF Promise!ANext
<1>5. CASE DoRefuse
    <2> PICK k, i : k = cur /\ i = op[cur].id
        OBVIOUS
    <2>1. /\ cur # NoCall /\ op[k].kind \in {"commit", "abort"} /\ UNCHANGED tables
          /\ \/ i \in FinalizedIDs /\ Answer("ErrAlreadyFinalized")
             \/ i \notin IntentIDs /\ Answer("ErrIntentNotFound")
        BY <1>5 DEF DoRefuse
    <2>2. k \in Calls /\ stageBar[k] = "open"
        BY <2>1, HeldIsOpen
    <2>3. i \in Intents
        BY <2>1, <2>2 DEF IInv, TypeOK, Ops, NoOp
    <2>4. CASE i \in FinalizedIDs /\ Answer("ErrAlreadyFinalized")
        <3>1. Promise!Settle(k, "ErrAlreadyFinalized")
            BY <2>1, <2>4, AnswerSettles DEF Replies
        <3>2. Has(i, "committed") \/ Has(i, "aborted")
            BY <2>4 DEF FinalizedIDs, Has, IInv, TypeOK
        <3>3. outcomeBar[i] \in {"committed", "aborted"}
            BY <2>3, <3>2, OutcomeIs
        <3>4. Promise!Refuse(k)
            BY <2>1, <2>2, <3>1, <3>3, SameOutcome DEF Promise!Refuse
        <3> QED
            BY <2>2, <3>4 DEF Promise!ANext
    <2>5. CASE i \notin IntentIDs /\ Answer("ErrIntentNotFound")
        <3>1. Promise!Settle(k, "ErrIntentNotFound")
            BY <2>1, <2>5, AnswerSettles DEF Replies
        <3>2. ~Has(i, "committed") /\ ~Has(i, "aborted")
            BY <2>5 DEF OutcomeHasIntent, FinalizedIDs, Has
        <3>3. outcomeBar[i] = "absent"
            BY <2>3, <2>5, <3>2, OutcomeIs
        <3>4. Promise!Refuse(k)
            BY <2>1, <2>2, <3>1, <3>3, SameOutcome DEF Promise!Refuse
        <3> QED
            BY <2>2, <3>4 DEF Promise!ANext
    <2> QED
        BY <2>1, <2>4, <2>5
<1>6. CASE WriterExit
    <2>1. UNCHANGED <<tables, writeCh, cur, pc, op, reply, result>>
        BY <1>6 DEF WriterExit, callers
    <2> QED
        BY <2>1, Unseen DEF SameCall, Queued
<1> QED
    BY <1>1, <1>2, <1>3, <1>4, <1>5, <1>6 DEF WriterStep

\* Callers see of a Close only that they are turned away.
LEMMA CloseUnseen ==
    ASSUME NEW c \in Closers, CloseBegin(c) \/ CloseStep(c)
    PROVE  [Promise!ANext]_(Promise!avars)
<1>1. UNCHANGED <<tables, writeCh, cur, pc, op, reply, result>>
    BY DEF CloseBegin, CloseStep, CloseFence, CloseFinish, callers
<1> QED
    BY <1>1, Unseen DEF SameCall, Queued

\* The end of the process drops what was open.
LEMMA RestartSees ==
    ASSUME IInv, Restart
    PROVE  [Promise!ANext]_(Promise!avars)
<1>1. /\ UNCHANGED <<tables, op, reply, result>> /\ writeCh' = <<>> /\ cur' = NoCall
      /\ pc' = [k \in Calls |-> IF pc[k] \in {"sending", "waiting"} THEN "lost" ELSE pc[k]]
    BY DEF Restart
<1>2. \A k \in Calls : ~Queued(k)'
    BY <1>1, EmptySeq, LedgerAssumption DEF Queued
<1>3. \A k \in Calls : /\ pc'[k] = "idle" <=> pc[k] = "idle"
                       /\ pc'[k] # "sending"
    BY <1>1 DEF IInv, TypeOK
<1>4. stageBar' = [k \in Calls |-> IF stageBar[k] = "open" THEN "dropped" ELSE stageBar[k]]
    BY <1>1, <1>2, <1>3 DEF stageBar
<1>5. Promise!ACrash
    BY <1>1, <1>4, SameOutcome DEF Promise!ACrash
<1> QED
    BY <1>5 DEF Promise!ANext

\* TLC: ImplementsPromise.  For any calls, intents, Closes, queue depth and
\* restarts, the writer goroutine, its channel and the locks of Close implement
\* what pkg/actionlog promises: a call takes effect in one step, or not at all.
THEOREM LedgerKeepsItsPromise == Spec => ImplementsPromise
<1>1. Init => Promise!AInit
    <2> SUFFICES ASSUME Init PROVE Promise!AInit
        OBVIOUS
    <2>1. outcomeBar = [i \in Intents |-> "absent"]
        BY DEF Init, outcomeBar, Has, IntentIDs
    <2>2. stageBar = [k \in Calls |-> "idle"]
        BY DEF Init, stageBar
    <2> QED
        BY <2>1, <2>2 DEF Init, Promise!AInit
<1>2. RInv /\ [Next]_vars => [Promise!ANext]_(Promise!avars)
    <2> SUFFICES ASSUME RInv, [Next]_vars PROVE [Promise!ANext]_(Promise!avars)
        OBVIOUS
    <2>1. CASE UNCHANGED vars
        BY <2>1, Unseen DEF vars, callers, SameCall, Queued
    <2>2. CASE Next
        BY <2>2, CallerSees, WriterSees, CloseUnseen, RestartSees DEF Next, RInv
    <2> QED
        BY <2>1, <2>2
<1> QED
    BY <1>1, <1>2, Invariance, LedgerConsistent, PTL
       DEF Spec, RInv, ImplementsPromise, Promise!ASpec
=============================================================================
