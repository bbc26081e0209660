------------------------------- MODULE Orders -------------------------------
(***************************************************************************)
(* The slices of IDs that a store keeps beside a map to list it in order.  *)
(***************************************************************************)
EXTENDS Naturals, Sequences

\* A loop over a slice that appends to another what is to stay.  (It is Sequences'
\* SelectSeq, of which the provers know nothing.)
Among(s, S) ==
    LET kept[i \in 0 .. Len(s)] ==
            IF i = 0 THEN <<>>
            ELSE IF s[i] \in S THEN Append(kept[i - 1], s[i]) ELSE kept[i - 1]
    IN  kept[Len(s)]
=============================================================================
