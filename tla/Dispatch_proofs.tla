-------------------------- MODULE Dispatch_proofs --------------------------
(***************************************************************************)
(* What holds of the coordinator for any number of dispatches and of       *)
(* restarts: the report of a dispatch, and what the ledger says of it,     *)
(* happened; an effect is on record before it happens; recovery is exact.  *)
(***************************************************************************)
EXTENDS Dispatch, TLAPS

Verdicts == {"none", "ok", "ErrWrite", "ErrAlreadyFinalized", "ErrIntentNotFound"}
Returns == Verdicts \cup {"ErrClosed", "ctxErr"}
Results == [done : BOOLEAN, intent : BOOLEAN, committed : BOOLEAN, finalizeErr : Returns]
Recoveries == [at : {"idle", "query", "join", "done"}, ids : SUBSET Dispatches,
               err : {"none", "ErrClosed", "databaseIsClosed"}]

\* The types of the ledger's variables, and of the two records.
LedgerTypes ==
    /\ req \in [LedgerCalls -> Ledger!Requests \cup {NoReq}]
    /\ stage \in [LedgerCalls -> {"idle", "open", "settled", "dropped"}]
    /\ verdict \in [LedgerCalls -> Verdicts]
    /\ returned \in [LedgerCalls -> Returns]
    /\ result \in [Dispatches -> Results]
    /\ recovery \in Recoveries

\* A call under way asks for its own dispatch, and for what its tool did.
CallsAskTheirOwn ==
    \A d \in Dispatches :
        /\ stage[<<d, "prepare">>] = "open" => req[<<d, "prepare">>] = [kind |-> "prepare", id |-> d]
        /\ stage[<<d, "finish">>] = "open" =>
             /\ effect[d] # "none"
             /\ req[<<d, "finish">>] =
                  [kind |-> IF effect[d] = "ok" THEN "commit" ELSE "abort", id |-> d]

\* A verdict, and an answer that is no error, say what the row is by now.
VerdictsHold ==
    \A d \in Dispatches :
        /\ verdict[<<d, "prepare">>] = "ok" => outcome[d] # "absent"
        /\ verdict[<<d, "finish">>] = "ok" =>
             outcome[d] = IF effect[d] = "ok" THEN "committed" ELSE "aborted"
        /\ prepared[d] => outcome[d] # "absent"

AnswersAreVerdicts ==
    \A k \in LedgerCalls : returned[k] = "ok" => stage[k] = "settled" /\ verdict[k] = "ok"

FinishFollowsTool ==
    \A d \in Dispatches : pc[d] \in {"probeFinish", "finish"} => effect[d] # "none"

\* Nothing is under way for a dispatch that the end of its process cut off.
LostIsSettled ==
    \A d \in Dispatches : pc[d] = "lost" => \A c \in {"prepare", "finish"} : stage[<<d, c>>] # "open"

\* The orphans stay exact from the ledger's query on.
OrphansStayExact ==
    recovery.at = "join" \/ (recovery.at = "done" /\ recovery.err = "none") =>
        \A d \in Dispatches : pc[d] = "lost" => (d \in recovery.ids <=> outcome[d] = "prepared")

IInv ==
    /\ TypeOK /\ LedgerTypes
    /\ CallsAskTheirOwn /\ VerdictsHold /\ AnswersAreVerdicts /\ FinishFollowsTool
    /\ LostIsSettled /\ OrphansStayExact
    /\ HonestResult /\ NoFalseOutcome

-----------------------------------------------------------------------------
(* The inductive invariant holds at first.                                    *)
LEMMA InitIInv == Init => IInv
<1> SUFFICES ASSUME Init PROVE IInv
  OBVIOUS
<1> USE DEF Init, NoResult, NoRecovery, Ledger!AInit
<1>1. TypeOK /\ LedgerTypes
  BY RestartsAssumption DEF TypeOK, LedgerTypes, Results, Recoveries, Returns, Verdicts, Labels
<1>2. QED
  BY <1>1 DEF IInv, CallsAskTheirOwn, VerdictsHold, AnswersAreVerdicts, FinishFollowsTool,
     LostIsSettled, OrphansStayExact, HonestResult, NoFalseOutcome, LedgerCalls

(***************************************************************************)
(* What a call does to the ledger, and what the ledger's writer does.      *)
(***************************************************************************)
LEMMA CallMoves ==
    ASSUME LedgerTypes, NEW k \in LedgerCalls, NEW q \in Ledger!Requests, LedgerCall(k, q)
    PROVE  /\ req' \in [LedgerCalls -> Ledger!Requests \cup {NoReq}]
           /\ stage' \in [LedgerCalls -> {"idle", "open", "settled", "dropped"}]
           /\ returned' \in [LedgerCalls -> Returns]
           /\ outcome' = outcome /\ verdict' = verdict
           /\ \A j \in LedgerCalls \ {k} :
                stage'[j] = stage[j] /\ req'[j] = req[j] /\ returned'[j] = returned[j]
           /\ stage[k] = "settled" => stage'[k] = "settled"
           /\ stage'[k] = "open" => req'[k] = q \/ (stage[k] = "open" /\ req'[k] = req[k])
           /\ returned'[k] = "ok" =>
                returned[k] = "ok" \/ (stage[k] = "settled" /\ verdict[k] = "ok")
<1> USE DEF LedgerTypes, Returns, Verdicts
<1>1. CASE ~LedgerClosed /\ Ledger!Invoke(k, q)
  BY <1>1 DEF Ledger!Invoke
<1>2. CASE LedgerClosed /\ Ledger!TurnAway(k)
  BY <1>2 DEF Ledger!TurnAway
<1>3. CASE Ledger!LearnVerdict(k)
  BY <1>3 DEF Ledger!LearnVerdict
<1>4. CASE Ledger!LeaveEarly(k)
  BY <1>4 DEF Ledger!LeaveEarly
<1>5. QED
  BY <1>1, <1>2, <1>3, <1>4 DEF LedgerCall

(* A write of the ledger moves the call that made it and the outcome of       *)
(* its dispatch, and no other.                                                *)
LEMMA WriterMoves ==
    ASSUME LedgerTypes, TypeOK, CallsAskTheirOwn,
           NEW d \in Dispatches, NEW c \in {"prepare", "finish"}, Write(<<d, c>>)
    PROVE  LET k == <<d, c>> IN
           /\ stage' \in [LedgerCalls -> {"idle", "open", "settled", "dropped"}]
           /\ verdict' \in [LedgerCalls -> Verdicts]
           /\ outcome' \in [Dispatches -> {"absent", "prepared", "committed", "aborted"}]
           /\ req' = req /\ returned' = returned
           /\ \A j \in LedgerCalls \ {k} : stage'[j] = stage[j] /\ verdict'[j] = verdict[j]
           /\ \A e \in Dispatches \ {d} : outcome'[e] = outcome[e]
           /\ stage[k] = "open" /\ stage'[k] = "settled"
           /\ \/ outcome' = outcome /\ verdict'[k] # "ok"
              \/ /\ c = "prepare" /\ verdict'[k] = "ok"
                 /\ outcome[d] = "absent" /\ outcome'[d] = "prepared"
              \/ /\ c = "finish" /\ verdict'[k] = "ok"
                 /\ outcome[d] = "prepared"
                 /\ outcome'[d] = IF effect[d] = "ok" THEN "committed" ELSE "aborted"
<1> DEFINE k == <<d, c>>
<1>0. k \in LedgerCalls
  BY DEF LedgerCalls
<1>1. stage[k] = "open"
  BY DEF Write, Ledger!TakeEffect, Ledger!Refuse
<1>2. /\ c = "prepare" => req[k] = [kind |-> "prepare", id |-> d]
      /\ c = "finish" => req[k] = [kind |-> IF effect[d] = "ok" THEN "commit" ELSE "abort", id |-> d]
  BY <1>1 DEF CallsAskTheirOwn
<1>3. CASE Ledger!TakeEffect(k)
  <2>1. verdict' = [verdict EXCEPT ![k] = "ok"] /\ stage' = [stage EXCEPT ![k] = "settled"]
        /\ req' = req /\ returned' = returned
    BY <1>3 DEF Ledger!TakeEffect, Ledger!Settle
  <2>2. PICK i \in Dispatches :
          \/ req[k] = [kind |-> "prepare", id |-> i] /\ outcome[i] = "absent"
             /\ outcome' = [outcome EXCEPT ![i] = "prepared"]
          \/ req[k] = [kind |-> "commit", id |-> i] /\ outcome[i] = "prepared"
             /\ outcome' = [outcome EXCEPT ![i] = "committed"]
          \/ req[k] = [kind |-> "abort", id |-> i] /\ outcome[i] = "prepared"
             /\ outcome' = [outcome EXCEPT ![i] = "aborted"]
    BY <1>3 DEF Ledger!TakeEffect
  <2>3. i = d
    BY <1>2, <2>2
  <2>4. outcome \in [Dispatches -> {"absent", "prepared", "committed", "aborted"}]
    BY DEF TypeOK
  <2>5. /\ outcome' \in [Dispatches -> {"absent", "prepared", "committed", "aborted"}]
        /\ \A e \in Dispatches \ {d} : outcome'[e] = outcome[e]
        /\ \/ c = "prepare" /\ outcome[d] = "absent" /\ outcome'[d] = "prepared"
           \/ c = "finish" /\ outcome[d] = "prepared"
              /\ outcome'[d] = IF effect[d] = "ok" THEN "committed" ELSE "aborted"
    <3>1. CASE req[k] = [kind |-> "prepare", id |-> d]
      <4>1. c = "prepare"
        BY <1>2, <3>1
      <4>2. QED
        BY <2>2, <2>3, <2>4, <3>1, <4>1
    <3>2. CASE req[k].kind = "commit" /\ req[k].id = d
      <4>1. c = "finish" /\ effect[d] = "ok"
        BY <1>2, <3>2
      <4>2. QED
        BY <2>2, <2>3, <2>4, <3>2, <4>1
    <3>3. CASE req[k].kind = "abort" /\ req[k].id = d
      <4>1. c = "finish" /\ effect[d] # "ok"
        BY <1>2, <3>3
      <4>2. QED
        BY <2>2, <2>3, <2>4, <3>3, <4>1
    <3>4. QED
      BY <2>2, <2>3, <3>1, <3>2, <3>3
  <2>6. QED
    BY <1>0, <1>1, <2>1, <2>5 DEF LedgerTypes, Verdicts
<1>4. CASE Ledger!Refuse(k)
  <2>1. \E v \in Verdicts \ {"ok"} : verdict' = [verdict EXCEPT ![k] = v]
    BY <1>4 DEF Ledger!Refuse, Ledger!Settle, Verdicts
  <2>2. outcome' = outcome /\ stage' = [stage EXCEPT ![k] = "settled"]
        /\ req' = req /\ returned' = returned
    BY <1>4 DEF Ledger!Refuse, Ledger!Settle
  <2>3. QED
    BY <1>0, <1>1, <2>1, <2>2 DEF LedgerTypes, TypeOK
<1>5. QED
  BY <1>3, <1>4 DEF Write

(* Every step preserves it.                                                   *)
LEMMA StepIInv == IInv /\ [Next]_vars => IInv'
<1> SUFFICES ASSUME IInv, [Next]_vars PROVE IInv'
  OBVIOUS
<1>0. /\ pc \in [Dispatches -> Labels] /\ prepared \in [Dispatches -> BOOLEAN]
      /\ effect \in [Dispatches -> {"none", "ok", "error", "nil"}]
      /\ result \in [Dispatches -> Results]
  BY DEF IInv, TypeOK, LedgerTypes
<1>1. ASSUME NEW d \in Dispatches, Bypass(d) \/ Wrap(d) \/ ProbePrepare(d) PROVE IInv'
  <2>1. UNCHANGED <<outcome, req, stage, verdict, returned, prepared, effect, result, phase,
                    recovery, restarts>>
    BY <1>1 DEF Bypass, Wrap, ProbePrepare, ledgerVars
  <2>2. /\ pc' \in [Dispatches -> Labels] /\ pc'[d] \notin {"probeFinish", "finish", "lost"}
        /\ \A e \in Dispatches \ {d} : pc'[e] = pc[e]
    BY <1>0, <1>1 DEF Bypass, Wrap, ProbePrepare, Goto, Labels
  <2>3. QED
    BY <2>1, <2>2 DEF IInv, TypeOK, LedgerTypes, CallsAskTheirOwn, VerdictsHold,
       AnswersAreVerdicts, FinishFollowsTool, LostIsSettled, OrphansStayExact, HonestResult,
       NoFalseOutcome
<1>2. ASSUME NEW d \in Dispatches, NEW c \in {"prepare", "finish"}, NEW q \in Ledger!Requests,
             LedgerCall(<<d, c>>, q), pc[d] # "lost",
             c = "prepare" => q = [kind |-> "prepare", id |-> d],
             c = "finish" => effect[d] # "none" /\
                 q = [kind |-> IF effect[d] = "ok" THEN "commit" ELSE "abort", id |-> d],
             UNCHANGED <<pc, prepared, effect, result, phase, recovery, restarts>>
      PROVE  IInv'
  <2> DEFINE k == <<d, c>>
  <2>1. k \in LedgerCalls
    BY DEF LedgerCalls
  <2>2. /\ req' \in [LedgerCalls -> Ledger!Requests \cup {NoReq}]
        /\ stage' \in [LedgerCalls -> {"idle", "open", "settled", "dropped"}]
        /\ returned' \in [LedgerCalls -> Returns]
        /\ outcome' = outcome /\ verdict' = verdict
        /\ \A j \in LedgerCalls \ {k} :
             stage'[j] = stage[j] /\ req'[j] = req[j] /\ returned'[j] = returned[j]
        /\ stage[k] = "settled" => stage'[k] = "settled"
        /\ stage'[k] = "open" => req'[k] = q \/ (stage[k] = "open" /\ req'[k] = req[k])
        /\ returned'[k] = "ok" =>
             returned[k] = "ok" \/ (stage[k] = "settled" /\ verdict[k] = "ok")
    BY <1>2, <2>1, CallMoves DEF IInv
  <2>3. \A e \in Dispatches : <<e, "prepare">> \in LedgerCalls /\ <<e, "finish">> \in LedgerCalls
    BY DEF LedgerCalls
  <2>4. CallsAskTheirOwn'
    <3> SUFFICES ASSUME NEW e \in Dispatches
        PROVE /\ stage'[<<e, "prepare">>] = "open" =>
                   req'[<<e, "prepare">>] = [kind |-> "prepare", id |-> e]
              /\ stage'[<<e, "finish">>] = "open" =>
                   /\ effect[e] # "none"
                   /\ req'[<<e, "finish">>] =
                        [kind |-> IF effect[e] = "ok" THEN "commit" ELSE "abort", id |-> e]
      BY <1>2 DEF CallsAskTheirOwn
    <3>1. CASE e = d /\ c = "prepare"
      BY <1>2, <2>2, <2>3, <3>1 DEF IInv, CallsAskTheirOwn
    <3>2. CASE e = d /\ c = "finish"
      BY <1>2, <2>2, <2>3, <3>2 DEF IInv, CallsAskTheirOwn
    <3>3. CASE e # d
      BY <1>2, <2>2, <2>3, <3>3 DEF IInv, CallsAskTheirOwn
    <3>4. QED
      BY <3>1, <3>2, <3>3
  <2>5. AnswersAreVerdicts'
    BY <2>1, <2>2 DEF IInv, AnswersAreVerdicts
  <2>6. LostIsSettled'
    BY <1>2, <2>2, <2>3 DEF IInv, LostIsSettled
  <2>7. QED
    BY <1>2, <2>2, <2>4, <2>5, <2>6 DEF IInv, TypeOK, LedgerTypes, VerdictsHold,
       FinishFollowsTool, OrphansStayExact, HonestResult, NoFalseOutcome
<1>3. ASSUME NEW d \in Dispatches, CallPrepare(d) PROVE IInv'
  <2>1. [kind |-> "prepare", id |-> d] \in Ledger!Requests
    BY DEF Ledger!Requests
  <2>2. QED
    BY <1>2, <1>3, <2>1 DEF CallPrepare
<1>4. ASSUME NEW d \in Dispatches, CallFinish(d) PROVE IInv'
  <2> DEFINE q == [kind |-> IF effect[d] = "ok" THEN "commit" ELSE "abort", id |-> d]
  <2>1. q \in Ledger!Requests
    BY DEF Ledger!Requests
  <2>2. pc[d] = "finish" /\ effect[d] # "none" /\ LedgerCall(<<d, "finish">>, q)
        /\ UNCHANGED <<pc, prepared, effect, result, phase, recovery, restarts>>
    BY <1>4 DEF CallFinish, ToolSucceeded, IInv, FinishFollowsTool
  <2>3. QED
    BY <1>2, <2>1, <2>2
<1>5. ASSUME NEW d \in Dispatches, PrepareReturns(d) PROVE IInv'
  <2>1. /\ UNCHANGED <<outcome, req, stage, verdict, returned, effect, result, phase,
                       recovery, restarts>>
        /\ pc' = [pc EXCEPT ![d] = "run"]
        /\ prepared' = [prepared EXCEPT ![d] = returned[<<d, "prepare">>] = "ok"]
    BY <1>5 DEF PrepareReturns, ledgerVars, Goto
  <2>2. prepared'[d] => outcome[d] # "absent"
    <3>1. <<d, "prepare">> \in LedgerCalls
      BY DEF LedgerCalls
    <3>2. QED
      BY <1>0, <2>1, <3>1 DEF IInv, AnswersAreVerdicts, VerdictsHold
  <2>3. /\ pc' \in [Dispatches -> Labels] /\ prepared' \in [Dispatches -> BOOLEAN]
        /\ pc'[d] = "run" /\ \A e \in Dispatches \ {d} : pc'[e] = pc[e] /\ prepared'[e] = prepared[e]
    BY <1>0, <2>1 DEF Labels
  <2>4. VerdictsHold'
    BY <2>1, <2>2, <2>3 DEF IInv, VerdictsHold
  <2>5. QED
    BY <2>1, <2>3, <2>4 DEF IInv, TypeOK, LedgerTypes, CallsAskTheirOwn,
       AnswersAreVerdicts, FinishFollowsTool, LostIsSettled, OrphansStayExact, HonestResult,
       NoFalseOutcome
<1>6. ASSUME NEW d \in Dispatches, RunTool(d) PROVE IInv'
  <2>1. /\ UNCHANGED <<outcome, req, stage, verdict, returned, pc, prepared, result, phase,
                       recovery, restarts>>
        /\ effect[d] = "none" /\ effect' \in [Dispatches -> {"none", "ok", "error", "nil"}]
        /\ effect'[d] # "none" /\ \A e \in Dispatches \ {d} : effect'[e] = effect[e]
    BY <1>0, <1>6 DEF RunTool, ledgerVars
  <2>2. outcome[d] \notin {"committed", "aborted"}
    BY <2>1 DEF IInv, NoFalseOutcome
  <2>3. CallsAskTheirOwn'
    BY <2>1 DEF IInv, CallsAskTheirOwn
  <2>4. VerdictsHold'
    BY <2>1, <2>2 DEF IInv, VerdictsHold
  <2>5. FinishFollowsTool' /\ NoFalseOutcome'
    BY <2>1, <2>2 DEF IInv, FinishFollowsTool, NoFalseOutcome
  <2>6. HonestResult'
    BY <2>1, <2>2 DEF IInv, HonestResult
  <2>7. QED
    BY <2>1, <2>3, <2>4, <2>5, <2>6 DEF IInv, TypeOK, LedgerTypes, AnswersAreVerdicts,
       LostIsSettled, OrphansStayExact
<1>7. ASSUME NEW d \in Dispatches, NEW l \in Labels, NEW r \in Results,
             pc' = [pc EXCEPT ![d] = l], result' = [result EXCEPT ![d] = r], l # "lost",
             l \in {"probeFinish", "finish"} => effect[d] # "none",
             r.committed => outcome[d] = "committed",
             r.intent /\ r.finalizeErr = "none" =>
                 outcome[d] = IF effect[d] = "ok" THEN "committed" ELSE "aborted",
             UNCHANGED <<outcome, req, stage, verdict, returned, prepared, effect, phase,
                         recovery, restarts>>
      PROVE  IInv'
  <2>1. /\ pc' \in [Dispatches -> Labels] /\ result' \in [Dispatches -> Results]
        /\ pc'[d] = l /\ result'[d] = r
        /\ \A e \in Dispatches \ {d} : pc'[e] = pc[e] /\ result'[e] = result[e]
    BY <1>0, <1>7
  <2>2. HonestResult'
    BY <1>7, <2>1 DEF IInv, HonestResult
  <2>3. LostIsSettled' /\ FinishFollowsTool'
    BY <1>7, <2>1 DEF IInv, LostIsSettled, FinishFollowsTool
  <2>4. OrphansStayExact'
    BY <1>7, <2>1 DEF IInv, OrphansStayExact
  <2>5. QED
    BY <1>7, <2>1, <2>2, <2>3, <2>4 DEF IInv, TypeOK, LedgerTypes, CallsAskTheirOwn,
       VerdictsHold, AnswersAreVerdicts, NoFalseOutcome
<1>8. ASSUME NEW d \in Dispatches, ToolReturns(d) PROVE IInv'
  <2>1. effect[d] # "none"
        /\ UNCHANGED <<outcome, req, stage, verdict, returned, prepared, effect, phase,
                       recovery, restarts>>
    BY <1>8 DEF ToolReturns, ledgerVars
  <2>2. result[d] \in Results
        /\ (result[d].committed => outcome[d] = "committed")
        /\ (result[d].intent /\ result[d].finalizeErr = "none" =>
              outcome[d] = IF effect[d] = "ok" THEN "committed" ELSE "aborted")
    BY <1>0 DEF IInv, HonestResult
  <2>3. CASE prepared[d]
    <3>1. pc' = [pc EXCEPT ![d] = "probeFinish"] /\ result' = [result EXCEPT ![d] = result[d]]
      BY <1>0, <1>8, <2>3 DEF ToolReturns, Goto
    <3>2. QED
      BY <1>7, <2>1, <2>2, <3>1 DEF Labels
  <2>4. CASE ~prepared[d]
    <3> DEFINE r == [result[d] EXCEPT !.done = TRUE]
    <3>1. pc' = [pc EXCEPT ![d] = "done"] /\ result' = [result EXCEPT ![d] = r]
      BY <1>8, <2>4 DEF ToolReturns, Goto
    <3>2. r \in Results /\ r.committed = result[d].committed /\ r.intent = result[d].intent
          /\ r.finalizeErr = result[d].finalizeErr
      BY <2>2 DEF Results
    <3>3. QED
      BY <1>7, <2>1, <2>2, <3>1, <3>2 DEF Labels
  <2>5. QED
    BY <2>3, <2>4
<1>9. ASSUME NEW d \in Dispatches, NEW e \in Returns, Finished(d, e),
             e = "none" => outcome[d] = IF effect[d] = "ok" THEN "committed" ELSE "aborted",
             UNCHANGED <<outcome, req, stage, verdict, returned, prepared, effect, phase,
                         recovery, restarts>>
      PROVE  IInv'
  <2> DEFINE r == [done |-> TRUE, intent |-> TRUE, finalizeErr |-> e,
                   committed |-> ToolSucceeded(d) /\ e = "none"]
  <2>1. r \in Results /\ (r.committed <=> effect[d] = "ok" /\ e = "none") /\ r.finalizeErr = e
    BY DEF Results, ToolSucceeded
  <2>2. pc' = [pc EXCEPT ![d] = "done"] /\ result' = [result EXCEPT ![d] = r]
    BY <1>9 DEF Finished, Goto
  <2>3. QED
    BY <1>7, <1>9, <2>1, <2>2 DEF Labels
<1>10. ASSUME NEW d \in Dispatches, ProbeFinish(d) PROVE IInv'
  <2>1. UNCHANGED <<outcome, req, stage, verdict, returned, prepared, effect, phase,
                    recovery, restarts>>
    BY <1>10 DEF ProbeFinish, ledgerVars
  <2>2. CASE BundleClosed
    BY <1>9, <1>10, <2>1, <2>2 DEF ProbeFinish, Returns
  <2>3. CASE ~BundleClosed
    <3>1. pc' = [pc EXCEPT ![d] = "finish"] /\ result' = [result EXCEPT ![d] = result[d]]
          /\ pc[d] = "probeFinish"
      BY <1>0, <1>10, <2>3 DEF ProbeFinish, Goto
    <3>2. effect[d] # "none" /\ result[d] \in Results
          /\ (result[d].committed => outcome[d] = "committed")
          /\ (result[d].intent /\ result[d].finalizeErr = "none" =>
                outcome[d] = IF effect[d] = "ok" THEN "committed" ELSE "aborted")
      BY <1>0, <3>1 DEF IInv, HonestResult, FinishFollowsTool
    <3>3. QED
      BY <1>7, <2>1, <3>1, <3>2 DEF Labels
  <2>4. QED
    BY <2>2, <2>3
<1>11. ASSUME NEW d \in Dispatches, FinishReturns(d) PROVE IInv'
  <2> DEFINE r == returned[<<d, "finish">>]
             e == IF r = "ok" THEN "none" ELSE r
  <2>1. <<d, "finish">> \in LedgerCalls
    BY DEF LedgerCalls
  <2>2. r \in Returns /\ r # "none" /\ Finished(d, e)
        /\ UNCHANGED <<outcome, req, stage, verdict, returned, prepared, effect, phase,
                       recovery, restarts>>
    BY <1>11, <2>1 DEF FinishReturns, ledgerVars, IInv, LedgerTypes
  <2>3. e \in Returns
    BY <2>2 DEF Returns, Verdicts
  <2>4. e = "none" => outcome[d] = IF effect[d] = "ok" THEN "committed" ELSE "aborted"
    BY <2>1, <2>2 DEF IInv, AnswersAreVerdicts, VerdictsHold
  <2>5. QED
    BY <1>9, <2>2, <2>3, <2>4
<1>12. ASSUME NEW d \in Dispatches, NEW c \in {"prepare", "finish"}, Write(<<d, c>>) PROVE IInv'
  <2> DEFINE k == <<d, c>>
  <2>1. UNCHANGED <<pc, prepared, effect, result, phase, recovery, restarts>>
    BY <1>12 DEF Write
  <2>2. k \in LedgerCalls /\ \A e \in Dispatches :
          <<e, "prepare">> \in LedgerCalls /\ <<e, "finish">> \in LedgerCalls
    BY DEF LedgerCalls
  <2>3. /\ stage' \in [LedgerCalls -> {"idle", "open", "settled", "dropped"}]
        /\ verdict' \in [LedgerCalls -> Verdicts]
        /\ outcome' \in [Dispatches -> {"absent", "prepared", "committed", "aborted"}]
        /\ req' = req /\ returned' = returned
        /\ \A j \in LedgerCalls \ {k} : stage'[j] = stage[j] /\ verdict'[j] = verdict[j]
        /\ \A e \in Dispatches \ {d} : outcome'[e] = outcome[e]
        /\ stage[k] = "open" /\ stage'[k] = "settled"
        /\ \/ outcome' = outcome /\ verdict'[k] # "ok"
           \/ /\ c = "prepare" /\ verdict'[k] = "ok"
              /\ outcome[d] = "absent" /\ outcome'[d] = "prepared"
           \/ /\ c = "finish" /\ verdict'[k] = "ok"
              /\ outcome[d] = "prepared"
              /\ outcome'[d] = IF effect[d] = "ok" THEN "committed" ELSE "aborted"
    BY <1>12, WriterMoves DEF IInv
  <2>4. pc[d] # "lost" /\ (c = "finish" => effect[d] # "none")
    BY <2>3 DEF IInv, LostIsSettled, CallsAskTheirOwn
  <2>5. CallsAskTheirOwn'
    BY <2>1, <2>2, <2>3 DEF IInv, CallsAskTheirOwn
  <2>6. VerdictsHold'
    <3> SUFFICES ASSUME NEW e \in Dispatches
        PROVE /\ verdict'[<<e, "prepare">>] = "ok" => outcome'[e] # "absent"
              /\ verdict'[<<e, "finish">>] = "ok" =>
                   outcome'[e] = IF effect[e] = "ok" THEN "committed" ELSE "aborted"
              /\ prepared[e] => outcome'[e] # "absent"
      BY <2>1 DEF VerdictsHold
    <3>1. /\ verdict[<<e, "prepare">>] = "ok" => outcome[e] # "absent"
          /\ verdict[<<e, "finish">>] = "ok" =>
               outcome[e] = IF effect[e] = "ok" THEN "committed" ELSE "aborted"
          /\ prepared[e] => outcome[e] # "absent"
      BY DEF IInv, VerdictsHold
    <3>2. CASE e # d
      BY <2>2, <2>3, <3>1, <3>2
    <3>3. CASE e = d /\ c = "prepare"
      BY <2>2, <2>3, <3>1, <3>3
    <3>4. CASE e = d /\ c = "finish"
      BY <2>2, <2>3, <3>1, <3>4
    <3>5. QED
      BY <3>2, <3>3, <3>4
  <2>7. AnswersAreVerdicts'
    BY <2>2, <2>3 DEF IInv, AnswersAreVerdicts
  <2>8. LostIsSettled'
    BY <2>1, <2>2, <2>3 DEF IInv, LostIsSettled
  <2>9. OrphansStayExact'
    BY <2>1, <2>3, <2>4 DEF IInv, OrphansStayExact
  <2>10. NoFalseOutcome'
    BY <1>0, <2>1, <2>3, <2>4 DEF IInv, NoFalseOutcome
  <2>11. HonestResult'
    <3> SUFFICES ASSUME NEW e \in Dispatches
        PROVE /\ result[e].committed => outcome'[e] = "committed"
              /\ result[e].intent /\ result[e].finalizeErr = "none" =>
                   outcome'[e] = IF effect[e] = "ok" THEN "committed" ELSE "aborted"
      BY <2>1 DEF HonestResult
    <3>1. outcome[e] \in {"committed", "aborted"} => outcome'[e] = outcome[e]
      BY <2>3
    <3>2. QED
      BY <3>1 DEF IInv, HonestResult
  <2>12. QED
    BY <2>1, <2>3, <2>5, <2>6, <2>7, <2>8, <2>9, <2>10, <2>11
       DEF IInv, TypeOK, LedgerTypes, FinishFollowsTool
<1>13. CASE CloseBegin \/ CloseStep
  <2>1. /\ UNCHANGED <<outcome, req, stage, verdict, returned, pc, prepared, effect, result,
                       recovery, restarts>>
        /\ phase' \in {"open", "fencing", "draining", "ledgerClosed", "closed"}
    BY <1>13 DEF CloseBegin, CloseStep, CloseFence, CloseLedger, CloseManifest, Phase, ledgerVars
  <2>2. QED
    BY <2>1 DEF IInv, TypeOK, LedgerTypes, CallsAskTheirOwn, VerdictsHold, AnswersAreVerdicts,
       FinishFollowsTool, LostIsSettled, OrphansStayExact, HonestResult, NoFalseOutcome
<1>14. CASE RecoverNext
  <2>1. UNCHANGED <<outcome, req, stage, verdict, returned, pc, prepared, effect, result,
                    phase, restarts>>
    BY <1>14 DEF RecoverNext, RecoverProbe, RecoverQuery, RecoverJoin, RecoverStep, ledgerVars
  <2>2. recovery \in Recoveries
    BY DEF IInv, LedgerTypes
  <2>3. recovery' \in Recoveries /\ OrphansStayExact'
    <3>1. CASE RecoverProbe
      <4>1. \/ recovery' = [at |-> "done", ids |-> {}, err |-> "ErrClosed"]
            \/ recovery' = [at |-> "query", ids |-> {}, err |-> "none"]
        BY <3>1 DEF RecoverProbe, RecoverStep
      <4>2. recovery' \in Recoveries
        BY <4>1 DEF Recoveries
      <4>3. recovery'.at # "join" /\ ~(recovery'.at = "done" /\ recovery'.err = "none")
        BY <4>1
      <4>4. QED
        BY <4>2, <4>3 DEF OrphansStayExact
    <3>2. CASE RecoverQuery
      <4>1. \/ recovery' = [at |-> "join", ids |-> Orphans, err |-> "none"]
            \/ recovery' = [at |-> "done", ids |-> {}, err |-> "databaseIsClosed"]
        BY <3>2 DEF RecoverQuery, RecoverStep
      <4>2. recovery' \in Recoveries
        BY <4>1 DEF Recoveries, Orphans
      <4>3. recovery'.at = "join" \/ recovery'.err = "none" => recovery'.ids = Orphans
        BY <4>1
      <4>4. QED
        BY <2>1, <4>2, <4>3 DEF OrphansStayExact, Orphans
    <3>3. CASE RecoverJoin
      <4>1. recovery.at = "join"
            /\ \/ recovery' = [at |-> "done", ids |-> {}, err |-> "ErrClosed"]
               \/ recovery' = [at |-> "done", ids |-> recovery.ids, err |-> "none"]
        BY <3>3 DEF RecoverJoin, RecoverStep
      <4>2. recovery' \in Recoveries
        BY <2>2, <4>1 DEF Recoveries
      <4>3. recovery'.at # "join" /\ (recovery'.err = "none" => recovery'.ids = recovery.ids)
        BY <4>1
      <4>4. QED
        BY <2>1, <4>1, <4>2, <4>3 DEF IInv, OrphansStayExact
    <3>4. QED
      BY <1>14, <3>1, <3>2, <3>3 DEF RecoverNext
  <2>4. recovery'.at \in {"idle", "query", "join", "done"} /\ recovery'.ids \subseteq Dispatches
    BY <2>3 DEF Recoveries
  <2>5. QED
    BY <2>1, <2>3, <2>4 DEF IInv, TypeOK, LedgerTypes, CallsAskTheirOwn, VerdictsHold,
       AnswersAreVerdicts, FinishFollowsTool, LostIsSettled, HonestResult, NoFalseOutcome
<1>15. CASE Restart
  <2>1. /\ UNCHANGED <<outcome, req, verdict, returned, prepared, effect, result>>
        /\ phase' = "open" /\ restarts < MaxRestarts /\ restarts' = restarts + 1
        /\ recovery' = [at |-> "idle", ids |-> {}, err |-> "none"]
    BY <1>15 DEF Restart, Ledger!ACrash, NoRecovery
  <2>2. restarts' \in 0..MaxRestarts /\ recovery' \in Recoveries /\ OrphansStayExact'
        /\ recovery'.at \in {"idle", "query", "join", "done"} /\ recovery'.ids \subseteq Dispatches
    BY <2>1, RestartsAssumption DEF IInv, TypeOK, Recoveries, OrphansStayExact
  <2>3. /\ stage' \in [LedgerCalls -> {"idle", "open", "settled", "dropped"}]
        /\ \A k \in LedgerCalls : stage'[k] # "open"
                                  /\ (stage[k] # "open" => stage'[k] = stage[k])
    BY <1>15 DEF Restart, Ledger!ACrash, IInv, LedgerTypes
  <2>4. /\ pc' \in [Dispatches -> Labels]
        /\ \A d \in Dispatches : pc'[d] \in {"start", "done", "lost"}
    BY <1>0, <1>15 DEF Restart, Labels
  <2>5. \A d \in Dispatches, c \in {"prepare", "finish"} : <<d, c>> \in LedgerCalls
    BY DEF LedgerCalls
  <2>6. CallsAskTheirOwn' /\ LostIsSettled' /\ AnswersAreVerdicts'
    BY <2>1, <2>3, <2>5 DEF IInv, CallsAskTheirOwn, LostIsSettled, AnswersAreVerdicts
  <2>7. QED
    BY <2>1, <2>2, <2>3, <2>4, <2>6 DEF IInv, TypeOK, LedgerTypes, VerdictsHold,
       FinishFollowsTool, HonestResult, NoFalseOutcome
<1>16. CASE UNCHANGED vars
  BY <1>16 DEF vars, ledgerVars, IInv, TypeOK, LedgerTypes, CallsAskTheirOwn, VerdictsHold,
     AnswersAreVerdicts, FinishFollowsTool, LostIsSettled, OrphansStayExact, HonestResult,
     NoFalseOutcome
<1>17. \A k \in LedgerCalls : \E d \in Dispatches, c \in {"prepare", "finish"} : k = <<d, c>>
  BY DEF LedgerCalls
<1>18. QED
  BY <1>1, <1>3, <1>4, <1>5, <1>6, <1>8, <1>10, <1>11, <1>12, <1>13, <1>14, <1>15, <1>16, <1>17
     DEF Next, DispatchStep, Stop

\* A DispatchResult never claims an outcome the ledger does not hold, and the
\* ledger holds none the tool did not have, whatever context, Close or crash
\* comes in between (Dispatch, CommitAction, AbortAction).
THEOREM Honest == Spec => []HonestInv
<1>1. IInv => HonestInv
  BY DEF IInv, HonestInv
<1>2. QED
  BY <1>1, InitIInv, StepIInv, PTL DEF Spec

\* Once PrepareAction has succeeded, what the tool did is on record, and
\* RecoverOrphans returns exactly the dispatches a crash left without outcome.
THEOREM Recorded == Spec => []RecordedInv
<1>1. IInv => WrappedEffectIsRecorded
  BY DEF IInv, VerdictsHold, WrappedEffectIsRecorded
<1>2. IInv => RecoveryIsExact
  BY DEF IInv, OrphansStayExact, RecoveryIsExact
<1>3. QED
  BY <1>1, <1>2, InitIInv, StepIInv, PTL DEF Spec, RecordedInv
=============================================================================
