----------------------------- MODULE MCEventBus -----------------------------
(* Values for model checking EventBus. *)
EXTENDS EventBus, TLC

Symmetry == Permutations(Apis)

\* A recurring schedule with a boundary at every time, and a crontab one that
\* matches every minute and starts on one.
MCShapes ==
    {[start |-> 2, interval |-> 1, minutes |-> {}],
     [start |-> 2, interval |-> 0, minutes |-> 1 .. MaxTime]}

\* One boundary after another.
FastShapes == {[start |-> 2, interval |-> 1, minutes |-> {}]}
=============================================================================
