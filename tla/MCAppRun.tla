----------------------------- MODULE MCAppRun -----------------------------
(* AppRun for TLC. *)
EXTENDS AppRun, TLC

Symmetry == Permutations(Clients)
=============================================================================
