----------------------------- MODULE MCSimpleMQ -----------------------------
(* SimpleMQ for TLC. *)
EXTENDS SimpleMQ, TLC

Symmetry == Permutations(Clients)
=============================================================================
