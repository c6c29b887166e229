------------------------------ MODULE MCRecords ------------------------------
(***************************************************************************)
(* What a turn leaves on disk: its rows in the execution manifest and the  *)
(* file of its session.  The components share no variable, so they are     *)
(* checked side by side: a behaviour takes the steps of the one in focus   *)
(* and leaves the other as it starts.                                      *)
(***************************************************************************)
EXTENDS ExecManifest, JSONLStore, TLC

VARIABLE focus

SuiteInit ==
    /\ focus \in {"manifest", "store"}
    /\ MfInit /\ (focus # "manifest" => \E s \in Sessions : session = [t \in MfTurns |-> s])
    /\ Init

SuiteNext ==
    /\ UNCHANGED focus
    /\ \/ focus = "manifest" /\ MfNext /\ UNCHANGED vars
       \/ focus = "store" /\ Next /\ UNCHANGED mfVars

Suite == SuiteInit /\ [][SuiteNext]_<<focus, mfVars, vars>>

Symmetry == Permutations(MfTurns) \cup Permutations(Sessions)
=============================================================================
