---------------------------- MODULE MCWorkflows ----------------------------
(* Values for model checking Workflows. *)
EXTENDS Workflows, TLC

Symmetry == Permutations(Clients) \cup Permutations(Aliases)
=============================================================================
