----------------------------- MODULE MCDispatch -----------------------------
(* Symmetry for the safety runs of Dispatch. *)
EXTENDS Dispatch, TLC

Symmetry == Permutations(Dispatches)
=============================================================================
