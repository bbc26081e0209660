----------------------------- MODULE Lifecycle -----------------------------
(***************************************************************************)
(* What the Workflows mock promises of its executions, without saying how: *)
(* an execution that is made is owed exactly one outcome; until it is paid *)
(* the execution may be cancelled, be gone with its workflow, and even run *)
(* after it was cancelled; afterwards nothing but its deletion happens to  *)
(* it.  Under fairness every debt is paid.                                 *)
(***************************************************************************)
CONSTANTS Executions, NoStatus

VARIABLES
    status,    \* per execution, its status, or NoStatus
    made,      \* the executions ever made
    owed       \* those whose outcome has still to come

life == <<status, made, owed>>

Outcomes == {"Succeeded", "Failed", "Canceled"}
Unfinished == {"Queued", "Running"}

Init ==
    /\ status = [e \in Executions |-> NoStatus]
    /\ made = {} /\ owed = {}

\* With the data plane off an execution is made with its outcome.
Make(e) ==
    /\ e \notin made
    /\ made' = made \cup {e}
    /\ \/ status' = [status EXCEPT ![e] = "Queued"] /\ owed' = owed \cup {e}
       \/ status' = [status EXCEPT ![e] = "Succeeded"] /\ UNCHANGED owed

Start(e) ==
    /\ e \in owed /\ status[e] # NoStatus
    /\ status' = [status EXCEPT ![e] = "Running"]
    /\ UNCHANGED <<made, owed>>

\* Nothing is owed any more; an execution that was deleted gets no outcome.
Pay(e) ==
    /\ e \in owed
    /\ owed' = owed \ {e}
    /\ IF status[e] = NoStatus THEN UNCHANGED status
       ELSE \E out \in Outcomes : status' = [status EXCEPT ![e] = out]
    /\ UNCHANGED made

Cancel(e) ==
    /\ status[e] \in Unfinished
    /\ status' = [status EXCEPT ![e] = "Canceled"]
    /\ UNCHANGED <<made, owed>>

\* One execution, or those of a workflow: none that is not over.
Delete(D) ==
    /\ D # {} /\ \A e \in D : status[e] \in Outcomes
    /\ status' = [e \in Executions |-> IF e \in D THEN NoStatus ELSE status[e]]
    /\ UNCHANGED <<made, owed>>

Next ==
    \/ \E e \in Executions : Make(e) \/ Start(e) \/ Pay(e) \/ Cancel(e)
    \/ \E D \in SUBSET Executions : Delete(D)

Spec == Init /\ [][Next]_life

FairSpec == Spec /\ \A e \in Executions : WF_life(Pay(e))

\* What is promised, in one sentence: an execution is over for good once its
\* outcome is in, and one that is not over has an outcome to come.
UnfinishedOwed == \A e \in Executions : status[e] \in Unfinished => e \in owed
=============================================================================
