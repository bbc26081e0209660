------------------------------ MODULE MCSuite ------------------------------
(* Values for model checking Suite. *)
EXTENDS Suite, TLC

Symmetry == Permutations(Names) \cup Permutations(Values)
=============================================================================
