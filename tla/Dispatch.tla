------------------------------ MODULE Dispatch ------------------------------
(***************************************************************************)
(* The coordinator of pkg/acs over the action ledger: Dispatch, which      *)
(* wraps a tool in Prepare -> run -> Commit or Abort, the Close of the     *)
(* bundle, RecoverOrphans, and the end of the process at any instant.      *)
(*                                                                         *)
(* The ledger is AbstractLedger, which ActionLedger implements.  A member  *)
(* of Dispatches is one call of Dispatch; its intent_id is fresh, so the   *)
(* dispatch itself names it.                                               *)
(***************************************************************************)
EXTENDS Naturals

CONSTANTS
    Dispatches,   \* calls of Bundle.Dispatch, in any number of goroutines
    MaxRestarts,  \* bound: how often the process may end and start again
    NoReq         \* the request of a ledger call not made yet

ASSUME RestartsAssumption == MaxRestarts \in Nat

VARIABLES
    outcome, req, stage, verdict, returned,  \* the ledger, see AbstractLedger
    pc,        \* where each dispatch is
    prepared,  \* PrepareAction returned nil: Dispatch knows the intent_id
    effect,    \* what the tool did: "none", "ok", "error" or "nil"
    result,    \* the DispatchResult, or NoResult
    phase,     \* Bundle.Close: "open", "fencing", "draining", "ledgerClosed", "closed"
    recovery,  \* the RecoverOrphans call: [at, ids, err]
    restarts

ledgerVars == <<outcome, req, stage, verdict, returned>>
vars == <<ledgerVars, pc, prepared, effect, result, phase, recovery, restarts>>

LedgerCalls == Dispatches \X {"prepare", "finish"}
Ledger == INSTANCE AbstractLedger WITH Calls <- LedgerCalls, Intents <- Dispatches

NoResult == [done |-> FALSE, intent |-> FALSE, committed |-> FALSE, finalizeErr |-> "none"]
NoRecovery == [at |-> "idle", ids |-> {}, err |-> "none"]

Init ==
    /\ Ledger!AInit
    /\ pc = [d \in Dispatches |-> "start"]
    /\ prepared = [d \in Dispatches |-> FALSE]
    /\ effect = [d \in Dispatches |-> "none"]
    /\ result = [d \in Dispatches |-> NoResult]
    /\ phase = "open"
    /\ recovery = NoRecovery
    /\ restarts = 0

Goto(d, l) == pc' = [pc EXCEPT ![d] = l]

\* isClosed takes closeMu, which Close holds from its first step to its last.
CloseMuFree == phase \in {"open", "closed"}
BundleClosed == phase = "closed"
LedgerClosed == phase \in {"draining", "ledgerClosed", "closed"}
LedgerDBOpen == phase \in {"open", "fencing", "draining"}

-----------------------------------------------------------------------------
(* Dispatch *)

\* A nil tool, an empty trace, a read-only or an async tool, arguments that do
\* not hash: the tool runs without the ledger.
Bypass(d) ==
    /\ pc[d] = "start"
    /\ Goto(d, "runBypassed")
    /\ UNCHANGED <<ledgerVars, prepared, effect, result, phase, recovery, restarts>>

Wrap(d) ==
    /\ pc[d] = "start"
    /\ Goto(d, "probePrepare")
    /\ UNCHANGED <<ledgerVars, prepared, effect, result, phase, recovery, restarts>>

\* PrepareAction: the closed bundle is noticed before the ledger is asked.
ProbePrepare(d) ==
    /\ pc[d] = "probePrepare" /\ CloseMuFree
    /\ Goto(d, IF BundleClosed THEN "run" ELSE "prepare")
    /\ UNCHANGED <<ledgerVars, prepared, effect, result, phase, recovery, restarts>>

\* What a ledger call does next: it enters, is turned away, or returns.
LedgerCall(k, q) ==
    \/ ~LedgerClosed /\ Ledger!Invoke(k, q)
    \/ LedgerClosed /\ Ledger!TurnAway(k)
    \/ Ledger!LearnVerdict(k)
    \/ Ledger!LeaveEarly(k)

CallPrepare(d) ==
    /\ pc[d] = "prepare"
    /\ LedgerCall(<<d, "prepare">>, [kind |-> "prepare", id |-> d])
    /\ UNCHANGED <<pc, prepared, effect, result, phase, recovery, restarts>>

\* Any error of PrepareAction fails open, as if it were an intent_id to use.
PrepareReturns_IgnoreError(d) ==
    /\ pc[d] = "prepare" /\ returned[<<d, "prepare">>] # "none"
    /\ prepared' = [prepared EXCEPT ![d] = TRUE]
    /\ Goto(d, "run")
    /\ UNCHANGED <<ledgerVars, effect, result, phase, recovery, restarts>>

\* On any error of PrepareAction Dispatch fails open: it runs the tool anyway.
PrepareReturns(d) ==
    /\ pc[d] = "prepare" /\ returned[<<d, "prepare">>] # "none"
    /\ prepared' = [prepared EXCEPT ![d] = returned[<<d, "prepare">>] = "ok"]
    /\ Goto(d, "run")
    /\ UNCHANGED <<ledgerVars, effect, result, phase, recovery, restarts>>

\* run(ctx): the tool reaches the outside world, then returns to Dispatch.
RunTool(d) ==
    /\ pc[d] \in {"run", "runBypassed"} /\ effect[d] = "none"
    /\ \E e \in {"ok", "error", "nil"} : effect' = [effect EXCEPT ![d] = e]
    /\ UNCHANGED <<ledgerVars, pc, prepared, result, phase, recovery, restarts>>

ToolReturns(d) ==
    /\ pc[d] \in {"run", "runBypassed"} /\ effect[d] # "none"
    /\ IF prepared[d]
       THEN Goto(d, "probeFinish") /\ UNCHANGED result
       ELSE Goto(d, "done") /\ result' = [result EXCEPT ![d].done = TRUE]
    /\ UNCHANGED <<ledgerVars, prepared, effect, phase, recovery, restarts>>

\* Whether the tool's outcome is committed: a nil result counts as an error.
ToolSucceeded_NilToo(d) == effect[d] # "error"
ToolSucceeded(d) == effect[d] = "ok"

\* Committed is set without looking at what CommitAction returned.
Finished_Optimistic(d, err) ==
    /\ Goto(d, "done")
    /\ result' = [result EXCEPT ![d] =
         [done |-> TRUE, intent |-> TRUE, committed |-> ToolSucceeded(d), finalizeErr |-> err]]

Finished(d, err) ==
    /\ Goto(d, "done")
    /\ result' = [result EXCEPT ![d] =
         [done |-> TRUE, intent |-> TRUE, finalizeErr |-> err,
          committed |-> ToolSucceeded(d) /\ err = "none"]]

ProbeFinish(d) ==
    /\ pc[d] = "probeFinish" /\ CloseMuFree
    /\ IF BundleClosed
       THEN Finished(d, "ErrClosed")
       ELSE Goto(d, "finish") /\ UNCHANGED result
    /\ UNCHANGED <<ledgerVars, prepared, effect, phase, recovery, restarts>>

CallFinish(d) ==
    /\ pc[d] = "finish"
    /\ LedgerCall(<<d, "finish">>,
                  [kind |-> IF ToolSucceeded(d) THEN "commit" ELSE "abort", id |-> d])
    /\ UNCHANGED <<pc, prepared, effect, result, phase, recovery, restarts>>

FinishReturns(d) ==
    LET r == returned[<<d, "finish">>] IN
    /\ pc[d] = "finish" /\ r # "none"
    /\ Finished(d, IF r = "ok" THEN "none" ELSE r)
    /\ UNCHANGED <<ledgerVars, prepared, effect, phase, recovery, restarts>>

-----------------------------------------------------------------------------
(* The ledger's writer. *)

Write(k) ==
    /\ LedgerDBOpen
    /\ Ledger!TakeEffect(k) \/ Ledger!Refuse(k)
    /\ UNCHANGED <<pc, prepared, effect, result, phase, recovery, restarts>>

-----------------------------------------------------------------------------
(* Bundle.Close: the ledger first, the manifest second, closeMu throughout. *)

Phase(from, to) ==
    /\ phase = from /\ phase' = to
    /\ UNCHANGED <<ledgerVars, pc, prepared, effect, result, recovery, restarts>>

CloseBegin == Phase("open", "fencing")
CloseFence == Phase("fencing", "draining")

\* A Close that waits for the dispatches under way instead of the queued calls.
CloseLedger_AwaitDispatches ==
    /\ \A d \in Dispatches : pc[d] \in {"start", "done", "lost"}
    /\ Phase("draining", "ledgerClosed")

CloseLedger ==
    /\ \A k \in LedgerCalls : stage[k] # "open"
    /\ Phase("draining", "ledgerClosed")

CloseManifest == Phase("ledgerClosed", "closed")

-----------------------------------------------------------------------------
(* Bundle.RecoverOrphans: probe, ledger query, join with the manifests. *)

RecoverStep(at, ids, err) ==
    /\ recovery' = [at |-> at, ids |-> ids, err |-> err]
    /\ UNCHANGED <<ledgerVars, pc, prepared, effect, result, phase, restarts>>

RecoverProbe ==
    /\ recovery.at = "idle" /\ CloseMuFree
    /\ IF BundleClosed THEN RecoverStep("done", {}, "ErrClosed")
                       ELSE RecoverStep("query", {}, "none")

\* The scan reads the status column where it should read intent_id.
Orphans_WrongColumn == {outcome[d] : d \in {x \in Dispatches : outcome[x] = "prepared"}}
\* An intent is an orphan unless it is committed: aborted ones come back too.
Orphans_NotCommitted == {d \in Dispatches : outcome[d] \in {"prepared", "aborted"}}
Orphans == {d \in Dispatches : outcome[d] = "prepared"}

\* The ledger's query takes no lock: on a closed handle database/sql answers that
\* the database is closed.
RecoverQuery ==
    /\ recovery.at = "query"
    /\ IF LedgerDBOpen THEN RecoverStep("join", Orphans, "none")
                       ELSE RecoverStep("done", {}, "databaseIsClosed")

\* Each orphan's manifest is looked up; a closed manifest store ends the join.
RecoverJoin ==
    /\ recovery.at = "join"
    /\ IF BundleClosed /\ recovery.ids # {}
       THEN RecoverStep("done", {}, "ErrClosed")
       ELSE RecoverStep("done", recovery.ids, "none")

-----------------------------------------------------------------------------
(* The process ends, and the next one opens the bundle again. *)
Restart ==
    /\ restarts < MaxRestarts
    /\ restarts' = restarts + 1
    /\ Ledger!ACrash
    /\ pc' = [d \in Dispatches |-> IF pc[d] \in {"start", "done"} THEN pc[d] ELSE "lost"]
    /\ phase' = "open"
    /\ recovery' = NoRecovery
    /\ UNCHANGED <<prepared, effect, result>>

Stop ==  \* every dispatch is over and the bundle is closed
    /\ \A d \in Dispatches : pc[d] \in {"done", "lost"}
    /\ phase = "closed" /\ recovery.at = "done"
    /\ UNCHANGED vars

DispatchStep(d) ==
    \/ ProbePrepare(d) \/ CallPrepare(d) \/ PrepareReturns(d)
    \/ RunTool(d) \/ ToolReturns(d)
    \/ ProbeFinish(d) \/ CallFinish(d) \/ FinishReturns(d)
CloseStep == CloseFence \/ CloseLedger \/ CloseManifest
RecoverNext == RecoverProbe \/ RecoverQuery \/ RecoverJoin

Next ==
    \/ \E d \in Dispatches : Bypass(d) \/ Wrap(d) \/ DispatchStep(d)
    \/ \E k \in LedgerCalls : Write(k)
    \/ CloseBegin \/ CloseStep
    \/ RecoverNext
    \/ Restart
    \/ Stop

Spec == Init /\ [][Next]_vars

(***************************************************************************)
(* The goroutines of a dispatch, of Close and the ledger's writer are      *)
(* scheduled, and a tool returns.  Nobody has to dispatch, close or crash. *)
(***************************************************************************)
FairSpec ==
    /\ Spec
    /\ \A d \in Dispatches : WF_vars(DispatchStep(d))
    /\ \A k \in LedgerCalls : WF_vars(Write(k))
    /\ WF_vars(CloseStep)

-----------------------------------------------------------------------------
Labels == {"start", "probePrepare", "prepare", "run", "runBypassed",
           "probeFinish", "finish", "done", "lost"}

TypeOK ==
    /\ outcome \in [Dispatches -> {"absent", "prepared", "committed", "aborted"}]
    /\ pc \in [Dispatches -> Labels]
    /\ prepared \in [Dispatches -> BOOLEAN]
    /\ effect \in [Dispatches -> {"none", "ok", "error", "nil"}]
    /\ phase \in {"open", "fencing", "draining", "ledgerClosed", "closed"}
    /\ recovery.at \in {"idle", "query", "join", "done"} /\ recovery.ids \subseteq Dispatches
    /\ restarts \in 0..MaxRestarts

\* The DispatchResult never misreports the ledger, whatever context, writer or
\* Close did: Committed means a committed row, and no FinalizeErr on a wrapped
\* tool means the row that matches what the tool did.
HonestResult ==
    \A d \in Dispatches :
        /\ result[d].committed => outcome[d] = "committed"
        /\ result[d].intent /\ result[d].finalizeErr = "none" =>
             outcome[d] = IF effect[d] = "ok" THEN "committed" ELSE "aborted"

\* The ledger never records an outcome the tool did not have, crashes included.
NoFalseOutcome ==
    \A d \in Dispatches :
        /\ outcome[d] = "committed" => effect[d] = "ok"
        /\ outcome[d] = "aborted" => effect[d] \in {"error", "nil"}

(* What a dispatch reports, and what the ledger says of it, happened.         *)
HonestInv == TypeOK /\ HonestResult /\ NoFalseOutcome

\* Once PrepareAction has succeeded, what the tool does to the outside world is
\* on record at every instant: a crash anywhere leaves a row to recover.
WrappedEffectIsRecorded ==
    \A d \in Dispatches : prepared[d] /\ effect[d] # "none" => outcome[d] # "absent"

\* Recovery after a crash is exact: of the dispatches the crash cut off, it
\* returns those left without an outcome, and no other.
RecoveryIsExact ==
    recovery.at = "done" /\ recovery.err = "none" =>
        \A d \in Dispatches : pc[d] = "lost" => (d \in recovery.ids <=> outcome[d] = "prepared")

(* An effect is on record before it happens, and recovery lists exactly those *)
(* without an outcome.                                                        *)
RecordedInv == WrappedEffectIsRecorded /\ RecoveryIsExact

\* A dispatch comes back although Close holds closeMu for all of its drain, and
\* Close comes back although dispatches are in flight.
DispatchReturns ==
    \A d \in Dispatches : pc[d] \notin {"start", "done", "lost"} ~> pc[d] \in {"done", "lost"}
CloseReturns == phase # "open" ~> phase = "closed" \/ phase = "open"

(* Every dispatch and the Close return.                                       *)
EveryoneReturns == DispatchReturns /\ CloseReturns

\* The package comment of dispatch.go: "no side-effecting tool runs without a
\* durable prepared row on disk BEFORE the tool dispatches".
PreparedRowBeforeRun ==
    \A d \in Dispatches : pc[d] = "run" /\ effect[d] # "none" => outcome[d] # "absent"

\* The comment of normalizeClosedErr: "Callers using errors.Is(err,
\* acs.ErrClosed) should match regardless of which fence caught the race first."
ClosedIsErrClosed == recovery.err \in {"none", "ErrClosed"}
=============================================================================
