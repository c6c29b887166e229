--------------------------- MODULE MCActionLedger ---------------------------
(* Model values and symmetry for the runs of ActionLedger. *)
EXTENDS ActionLedger, TLC

Symmetry == Permutations(Calls) \cup Permutations(Intents) \cup Permutations(Closers)
=============================================================================
