-------------------------------- MODULE IDs --------------------------------
(***************************************************************************)
(* core.IDGenerator: resource IDs are consecutive numbers, and a generator *)
(* is the next one it will hand out.  Each of its methods is one critical  *)
(* section.  What a generator was asked to reserve, and for whom, is left  *)
(* out: only KMS reserves IDs, and reserving one again for the same owner  *)
(* changes nothing.                                                        *)
(***************************************************************************)
EXTENDS Integers

\* The ID that IDGenerator.Next hands out, and the generator afterwards.
NextID(g)    == g
AfterNext(g) == g + 1

\* Mutation: an ID equal to the next one does not move the generator.
BeyondGreater(g, id) == IF id > g THEN id + 1 ELSE g

\* Reserve and Observe: what is handed out from now on is beyond id.
Beyond(g, id) == IF id >= g THEN id + 1 ELSE g
=============================================================================
