-------------------------- MODULE ProviderFallback --------------------------
(* Calls of models: the fallback chain over the candidates of an agent, the   *)
(* cooldowns of providers that all turns share, the classification of errors, *)
(* and the retries of the agent loop around the chain.                        *)
(*                                                                            *)
(* Time is abstracted to the events the code can tell apart: a cooldown ends, *)
(* a day passes without a failure.  Error counts are kept up to MaxCount,     *)
(* where both backoff formulas have reached their cap.                        *)
EXTENDS Naturals, Sequences, FiniteSets, SequencesExt

CONSTANTS FbTurns,     \* turns that run at the same time
          Candidates,  \* Seq of <<provider, model>>, as ResolveCandidates gives it
          Answers,     \* what providers answer in this instance, of AllAnswers
          MaxCount,    \* bound of the error counts
          FbRetries,   \* maxRetries of the agent loop
          MaxDays      \* days without a failure

(* What a provider can answer.  "badrequest" is status 400 with a message     *)
(* about the context window, "overflow" the same message without a status.    *)
AllAnswers == {"ok", "deadline", "server", "rate", "billing", "auth", "banned", "overloaded",
               "notfound", "format", "badrequest", "overflow", "payload", "thinking",
               "tier", "session", "odd"}

ASSUME FbAssumption ==
  /\ Len(Candidates) \in Nat \ {0} /\ DOMAIN Candidates = 1..Len(Candidates)
  /\ MaxCount \in Nat \ {0} /\ FbRetries \in Nat /\ MaxDays \in Nat /\ Answers \subseteq AllAnswers

Providers == {Candidates[i][1] : i \in DOMAIN Candidates}

VARIABLES fbEntry,   \* [Providers -> record]: CooldownTracker.entries
          fbTurn,    \* [FbTurns -> record]: the call of each turn
          fbDays,    \* days that passed
          fbGone     \* the context of the turns was cancelled

fbVars == <<fbEntry, fbTurn, fbDays, fbGone>>

(* ClassifyError: a deadline, then the status, then the patterns of the       *)
(* message.                                                                   *)
Reason(a) ==
  CASE a \in {"deadline", "server"}     -> "timeout"
    [] a \in {"format", "badrequest"}   -> "format"
    [] a = "rate"                       -> "rate_limit"
    [] a = "banned"                     -> "auth_permanent"
    [] a = "notfound"                   -> "model_not_found"
    [] a = "overflow"                   -> "context_overflow"
    [] a = "payload"                    -> "payload_too_large"
    [] a = "thinking"                   -> "thinking_signature"
    [] a = "tier"                       -> "long_context_tier"
    [] a = "session"                    -> "session_expired"
    [] a = "odd"                        -> "unknown"
    [] OTHER                            -> a

IsRetriable(r)    == r \notin {"format", "model_not_found", "auth_permanent"}
ShouldFallback(r) == r \in {"model_not_found", "overloaded", "billing", "auth_permanent",
                            "long_context_tier", "rate_limit", "timeout", "auth"}

(* The errors the agent loop tells apart by their text.                       *)
SaysTimeout(a)  == a = "deadline"
SaysContext(a)  == a \in {"badrequest", "overflow"}

NoFailures == [errors |-> 0, billing |-> 0, cooling |-> FALSE, disabled |-> FALSE, old |-> FALSE]
NewCall(n) == [pc |-> "next", at |-> 1, attempts |-> <<>>, retry |-> n, heard |-> FALSE, told |-> "none"]

FbInit ==
  /\ fbEntry = [p \in Providers |-> NoFailures]
  /\ fbTurn = [t \in FbTurns |-> NewCall(0)]
  /\ fbDays = 0 /\ fbGone = FALSE

----------------------------------------------------------------------------
(* CooldownTracker *)

IsAvailable(p) == ~fbEntry[p].disabled /\ ~fbEntry[p].cooling

Capped(n) == IF n > MaxCount THEN MaxCount ELSE n

MarkFailure(e, reason) ==
  LET f == IF e.old THEN [e EXCEPT !.errors = 0, !.billing = 0, !.old = FALSE] ELSE e
  IN  IF reason = "billing"
      THEN [f EXCEPT !.errors = Capped(@ + 1), !.billing = Capped(@ + 1), !.disabled = TRUE]
      ELSE [f EXCEPT !.errors = Capped(@ + 1), !.cooling = TRUE]

(* Plausible defect: a success ends the short cooldown only.                  *)
MarkSuccess_KeepsDisabled(e) == [NoFailures EXCEPT !.disabled = e.disabled]

MarkSuccess(e) == NoFailures

(* The cooldown of a provider, or the longer one for billing, has run out. *)
FbCooldownEnds(p, which) ==
  /\ fbEntry[p][which]
  /\ fbEntry' = [fbEntry EXCEPT ![p][which] = FALSE]
  /\ UNCHANGED <<fbTurn, fbDays, fbGone>>

(* More than failureWindow since the last failure: no cooldown is longer. *)
FbDayPasses(p) ==
  /\ fbDays < MaxDays
  /\ fbEntry[p].errors > 0 /\ ~fbEntry[p].old
  /\ fbDays' = fbDays + 1
  /\ fbEntry' = [fbEntry EXCEPT ![p].cooling = FALSE, ![p].disabled = FALSE, ![p].old = TRUE]
  /\ UNCHANGED <<fbTurn, fbGone>>

----------------------------------------------------------------------------
(* FallbackChain.Execute and the retry loop of runLLMIteration *)

Candidate(t) == Candidates[fbTurn[t].at]

(* The chain returned error e after attempts at: the loop tries again after a *)
(* timeout, and after an overflow with a compressed history, or gives up.     *)
Retried(c, e, at) ==
  LET timeout == \E x \in e : SaysTimeout(x)
      context == ~timeout /\ \E x \in e : SaysContext(x)
  IN  IF (timeout \/ context) /\ c.retry < FbRetries
      THEN [NewCall(c.retry + 1) EXCEPT !.heard = c.heard]
      ELSE [c EXCEPT !.pc = "failed", !.attempts = at, !.told =
              IF \E i \in DOMAIN at : at[i].answer # "skipped" THEN "reason" ELSE "nothing"]

(* The answers an exhausted chain quotes in the text of its error. *)
Quoted(at) == {at[i].answer : i \in DOMAIN at} \ {"skipped"}

(* Plausible defect: a skipped candidate leaves no attempt, and the loop      *)
(* ends with the last one that was asked.                                     *)
After_DropsSkipped(c, at) ==
  IF c.at < Len(Candidates) THEN [c EXCEPT !.pc = "next", !.at = @ + 1,
                                    !.attempts = SelectSeq(at, LAMBDA x : x.answer # "skipped")]
                            ELSE Retried(c, Quoted(at), at)

(* The next candidate, or the end of the chain when that was the last. *)
After(c, at) == IF c.at < Len(Candidates) THEN [c EXCEPT !.pc = "next", !.at = @ + 1, !.attempts = at]
                                          ELSE Retried(c, Quoted(at), at)

(* Before each attempt: a cancelled context ends the chain, a provider in     *)
(* cooldown is skipped, any other is called.                                  *)
FbNext(t) ==
  /\ fbTurn[t].pc = "next"
  /\ fbTurn' = [fbTurn EXCEPT ![t] =
       CASE fbGone                        -> [@ EXCEPT !.pc = "canceled"]
         [] ~fbGone /\ ~IsAvailable(Candidate(t)[1]) ->
              After(@, Append(@.attempts, [cand |-> @.at, answer |-> "skipped"]))
         [] OTHER                         -> [@ EXCEPT !.pc = "asked"]]
  /\ UNCHANGED <<fbEntry, fbDays, fbGone>>

(* The provider answers a. *)
FbAnswer(t, a) ==
  LET p == Candidate(t)[1]
      r == Reason(a)
      c == [fbTurn[t] EXCEPT !.heard = TRUE]
      at == Append(c.attempts, [cand |-> c.at, answer |-> a])
  IN  /\ fbTurn[t].pc = "asked"
      /\ CASE a = "ok" -> /\ fbEntry' = [fbEntry EXCEPT ![p] = MarkSuccess(@)]
                          /\ fbTurn' = [fbTurn EXCEPT ![t] = [c EXCEPT !.pc = "answered", !.attempts = at]]
           [] a # "ok" /\ fbGone ->
                 /\ fbTurn' = [fbTurn EXCEPT ![t] = [c EXCEPT !.pc = "canceled"]]
                 /\ UNCHANGED fbEntry
           [] a # "ok" /\ ~fbGone /\ ~(IsRetriable(r) /\ ShouldFallback(r)) ->
                 /\ fbTurn' = [fbTurn EXCEPT ![t] = Retried(c, {a}, at)]
                 /\ UNCHANGED fbEntry
           [] OTHER -> /\ fbEntry' = [fbEntry EXCEPT ![p] = MarkFailure(@, r)]
                       /\ fbTurn' = [fbTurn EXCEPT ![t] = After(c, at)]
      /\ UNCHANGED <<fbDays, fbGone>>

(* The process shuts down. *)
FbCancel == ~fbGone /\ fbGone' = TRUE /\ UNCHANGED <<fbEntry, fbTurn, fbDays>>

FbStep ==
  \/ \E t \in FbTurns : FbNext(t) \/ \E a \in Answers : FbAnswer(t, a)
  \/ \E p \in Providers, w \in {"cooling", "disabled"} : FbCooldownEnds(p, w)
  \/ \E p \in Providers : FbDayPasses(p)
  \/ FbCancel

(* The chain goes on by itself, providers answer or time out. *)
FbFairness == \A t \in FbTurns : /\ WF_fbVars(FbNext(t))
                                 /\ WF_fbVars(\E a \in Answers : FbAnswer(t, a))

FbSpec == FbInit /\ [][FbStep]_fbVars /\ FbFairness

----------------------------------------------------------------------------
(* Properties *)

(* The entries and the calls have their types. *)
FbTypeOK ==
  /\ fbEntry \in [Providers -> [errors : 0..MaxCount, billing : 0..MaxCount, cooling : BOOLEAN,
                                disabled : BOOLEAN, old : BOOLEAN]]
  /\ \A t \in FbTurns : /\ fbTurn[t].pc \in {"next", "asked", "answered", "failed", "canceled"}
                         /\ fbTurn[t].at \in DOMAIN Candidates /\ fbTurn[t].retry \in 0..FbRetries
  /\ fbDays \in 0..MaxDays /\ fbGone \in BOOLEAN

(* A provider is only ever kept from the turns for failures that still count: *)
(* whatever successes, failures and expiries of other turns come between, one *)
(* that is cooling has errors, one that is disabled has billing errors among  *)
(* them (MarkSuccess and the daily reset clear all or nothing).               *)
CoolingIsCounted ==
  \A p \in Providers : LET e == fbEntry[p] IN
     /\ e.cooling => e.errors > 0
     /\ e.disabled => e.billing > 0
     /\ e.billing <= e.errors

(* A turn fails for a reason: either it was told an error that no other       *)
(* candidate could mend, or every candidate, in its order, was skipped or     *)
(* failed in the last attempt of the turn.                                    *)
FailureIsExhaustive ==
  \A t \in FbTurns : LET c == fbTurn[t] IN
     c.pc = "failed" =>
       /\ \A i \in DOMAIN c.attempts : c.attempts[i].cand = i
       /\ \/ Len(c.attempts) = Len(Candidates)
          \/ LET r == Reason(Last(c.attempts).answer) IN ~(IsRetriable(r) /\ ShouldFallback(r))

(* A provider cools down for failures that were counted, and a call fails     *)
(* only when every candidate was tried or skipped.                            *)
FbInv == FbTypeOK /\ CoolingIsCounted /\ FailureIsExhaustive

(* Every turn ends, however the providers answer. *)
FbTurnsEnd == \A t \in FbTurns : <>(fbTurn[t].pc \in {"answered", "failed", "canceled"})

(* Refuted: types.go says of model_not_found "fallback to a different model", *)
(* and ShouldFallback lists it, but Execute asks IsRetriable first, which     *)
(* does not let it: the other candidates are never asked.                     *)
NotFoundFallsBack ==
  \A t \in FbTurns : LET c == fbTurn[t] IN
     c.pc = "failed" /\ c.attempts # <<>> /\ Last(c.attempts).answer = "notfound" =>
       Len(c.attempts) = Len(Candidates)

(* Refuted: when all candidates time out the loop waits five seconds and      *)
(* tries again, but the chain has put each of them into a cooldown of a       *)
(* minute: nobody is asked, and the user is told that something went wrong    *)
(* instead of what did (dominantReason ignores skipped attempts).             *)
FailureIsExplained == \A t \in FbTurns : fbTurn[t].pc = "failed" /\ fbTurn[t].heard =>
                         fbTurn[t].told = "reason"
=============================================================================
