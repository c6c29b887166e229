------------------------------- MODULE MCTurns -------------------------------
(***************************************************************************)
(* What turns do: the history they build, what a provider is sent of it,   *)
(* and their replies.  The components share no variable, so they are       *)
(* checked side by side: a behaviour takes the steps of the one in focus   *)
(* and leaves the others as they start.                                    *)
(***************************************************************************)
EXTENDS SessionHistory, ReplyPath, ProviderWire, TLC

VARIABLE focus

SuiteInit ==
    /\ focus \in {"session", "reply", "wire"}
    /\ SsInit /\ RpInit /\ PwInit
    /\ focus # "reply" => kind = [r \in Rounds |-> "user"] /\ agent = [r \in Rounds |-> Default]

SuiteNext ==
    /\ UNCHANGED focus
    /\ \/ focus = "session" /\ SsNext /\ UNCHANGED <<rpVars, pwVars>>
       \/ focus = "reply" /\ RpNext /\ UNCHANGED <<ssVars, pwVars>>
       \/ focus = "wire" /\ PwNext /\ UNCHANGED <<ssVars, rpVars>>

Suite == SuiteInit /\ [][SuiteNext]_<<focus, ssVars, rpVars, pwVars>>

Symmetry == Permutations(Rounds) \cup Permutations(Turns)
=============================================================================
