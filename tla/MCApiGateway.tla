---------------------------- MODULE MCApiGateway ----------------------------
(* Symmetry for TLC: nothing tells resources of one kind apart but their     *)
(* identity.                                                                 *)
EXTENDS ApiGateway, TLC

Symmetry == Permutations(Services) \cup Permutations(Users) \cup Permutations(Groups)
              \cup Permutations(Certificates) \cup Permutations(Names)
=============================================================================
