--------------------------- MODULE AbstractLedger ---------------------------
(***************************************************************************)
(* What pkg/actionlog promises its callers, with no channel, no writer and *)
(* no lock: every call takes effect in one indivisible step, if at all,    *)
(* after its invocation and before the end of the process, and the only    *)
(* two things that happen to an intent are one Prepare and one             *)
(* finalization.                                                           *)
(*                                                                         *)
(* A call whose context ends returns early; it may then take effect later  *)
(* or not at all, and its caller is not told.                              *)
(***************************************************************************)
CONSTANTS
    Calls,    \* invocations of Prepare, Commit and Abort
    Intents,  \* intent_id values
    NoReq     \* the request of a call not made yet

VARIABLES
    outcome,   \* the durable state of each intent
    req,       \* what each call asks for
    stage,     \* "idle", "open" (may take effect), "settled" or "dropped"
    verdict,   \* how each settled call ended in the ledger
    returned   \* what each call returned to its caller

avars == <<outcome, req, stage, verdict, returned>>

Requests == [kind : {"prepare", "commit", "abort"}, id : Intents]

AInit ==
    /\ outcome = [i \in Intents |-> "absent"]
    /\ req = [k \in Calls |-> NoReq]
    /\ stage = [k \in Calls |-> "idle"]
    /\ verdict = [k \in Calls |-> "none"]
    /\ returned = [k \in Calls |-> "none"]

Invoke(k, q) ==
    /\ stage[k] = "idle"
    /\ stage' = [stage EXCEPT ![k] = "open"]
    /\ req' = [req EXCEPT ![k] = q]
    /\ UNCHANGED <<outcome, verdict, returned>>

\* The ledger is closed: the call is turned away and never takes effect.
TurnAway(k) ==
    /\ stage[k] = "idle"
    /\ stage' = [stage EXCEPT ![k] = "dropped"]
    /\ returned' = [returned EXCEPT ![k] = "ErrClosed"]
    /\ UNCHANGED <<outcome, req, verdict>>

Settle(k, v) ==
    /\ stage' = [stage EXCEPT ![k] = "settled"]
    /\ verdict' = [verdict EXCEPT ![k] = v]
    /\ UNCHANGED <<req, returned>>

\* A Prepare creates its intent; a finalization moves a prepared one for good.
TakeEffect(k) ==
    /\ stage[k] = "open"
    /\ \E i \in Intents :
         \/ /\ req[k] = [kind |-> "prepare", id |-> i] /\ outcome[i] = "absent"
            /\ outcome' = [outcome EXCEPT ![i] = "prepared"]
         \/ /\ req[k] = [kind |-> "commit", id |-> i] /\ outcome[i] = "prepared"
            /\ outcome' = [outcome EXCEPT ![i] = "committed"]
         \/ /\ req[k] = [kind |-> "abort", id |-> i] /\ outcome[i] = "prepared"
            /\ outcome' = [outcome EXCEPT ![i] = "aborted"]
    /\ Settle(k, "ok")

\* A refusal leaves the ledger alone and names the reason truthfully.
Refuse(k) ==
    /\ stage[k] = "open"
    /\ \/ Settle(k, "ErrWrite")
       \/ /\ req[k].kind \in {"commit", "abort"}
          /\ outcome[req[k].id] \in {"committed", "aborted"}
          /\ Settle(k, "ErrAlreadyFinalized")
       \/ /\ req[k].kind \in {"commit", "abort"}
          /\ outcome[req[k].id] = "absent"
          /\ Settle(k, "ErrIntentNotFound")
    /\ UNCHANGED outcome

LearnVerdict(k) ==
    /\ stage[k] = "settled" /\ returned[k] = "none"
    /\ returned' = [returned EXCEPT ![k] = verdict[k]]
    /\ UNCHANGED <<outcome, req, stage, verdict>>

\* The context ends first.  An open call may be withdrawn with it, or not.
LeaveEarly(k) ==
    /\ stage[k] \in {"open", "settled"} /\ returned[k] = "none"
    /\ returned' = [returned EXCEPT ![k] = "ctxErr"]
    /\ \/ UNCHANGED stage
       \/ stage[k] = "open" /\ stage' = [stage EXCEPT ![k] = "dropped"]
    /\ UNCHANGED <<outcome, req, verdict>>

\* The process ends: what was still open never takes effect.
ACrash ==
    /\ stage' = [k \in Calls |-> IF stage[k] = "open" THEN "dropped" ELSE stage[k]]
    /\ UNCHANGED <<outcome, req, verdict, returned>>

ANext ==
    \/ \E k \in Calls :
         \/ \E q \in Requests : Invoke(k, q)
         \/ TurnAway(k) \/ TakeEffect(k) \/ Refuse(k) \/ LearnVerdict(k) \/ LeaveEarly(k)
    \/ ACrash

ASpec == AInit /\ [][ANext]_avars
=============================================================================
