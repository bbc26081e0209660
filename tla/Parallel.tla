------------------------------ MODULE Parallel ------------------------------
(***************************************************************************)
(* A parallel step of a runbook: Runner.execParallelBranches, of which     *)
(* execParallelIteration is a copy.  Every branch runs in a goroutine of   *)
(* its own, behind a semaphore, and sends its result to a channel; the     *)
(* step collects the results and returns at the first error, which cancels *)
(* the context of the branches it leaves behind.  An enclosing try catches *)
(* the error and goes on, using the environment that the branches clone.   *)
(***************************************************************************)
EXTENDS Naturals, FiniteSets, Sequences

CONSTANTS
    Branches,
    MaxTurns           \* bound on the steps of a branch

\* A step has as many branches as its text lists.
BoundsOK == IsFiniteSet(Branches) /\ MaxTurns \in Nat

VARIABLES
    limit,             \* p.ConcurrencyLimit, 0 if it is not given
    branch,            \* per branch, where its goroutine is
    turns,             \* per branch, the steps it executed
    ch,                \* the channel of the branches' results
    closed,            \* the channel is closed
    results,           \* the branches whose result is noted
    step,              \* where the run is
    stepCtx            \* the context execParallel made

parVars == <<limit, branch, turns, ch, closed, results, step, stepCtx>>

Outcomes == {"value", "error"}

\* A branch that waits for the semaphore holds nothing; from "clone" to "sent"
\* it holds a token, and in "value" and "error" it has yet to send.
BranchPCs == {"waiting", "clone", "steps", "value", "error", "sent", "done"}

\* "setResults" and "except" are about to write the environment of the run.
StepPCs == {"collect", "setResults", "failed", "except", "succeeded", "caught", "ended"}

TypeOK ==
    /\ limit \in Nat
    /\ branch \in [Branches -> BranchPCs]
    /\ turns \in [Branches -> 0 .. MaxTurns]
    /\ ch \in Seq(Branches \X Outcomes)
    /\ closed \in BOOLEAN
    /\ results \subseteq Branches
    /\ step \in StepPCs
    /\ stepCtx \in {"live", "cancelled", "expired"}

Limits == 0 .. Cardinality(Branches)

Init ==
    /\ limit \in Limits
    /\ branch = [b \in Branches |-> "waiting"]
    /\ turns = [b \in Branches |-> 0]
    /\ ch = <<>> /\ closed = FALSE
    /\ results = {}
    /\ step = "collect"
    /\ stepCtx = "live"

-----------------------------------------------------------------------------
(* A branch *)

Holders == {b \in Branches : branch[b] \notin {"waiting", "done"}}

Concurrency == IF limit = 0 THEN Cardinality(Branches) ELSE limit

\* The error of a context that is done.
Stopped == stepCtx # "live"

Acquire(b) ==
    /\ branch[b] = "waiting" /\ Cardinality(Holders) < Concurrency
    /\ branch' = [branch EXCEPT ![b] = "clone"]
    /\ UNCHANGED <<limit, turns, ch, closed, results, step, stepCtx>>

\* env.Clone, and the check of execSteps before its loop.
CloneEnv(b) ==
    /\ branch[b] = "clone"
    /\ branch' = [branch EXCEPT ![b] = IF Stopped THEN "error" ELSE "steps"]
    /\ UNCHANGED <<limit, turns, ch, closed, results, step, stepCtx>>

\* The context is checked before every step; a step succeeds, or returns a
\* value, or fails, and after the last one the branch has a value as well.
ExecStep(b) ==
    /\ branch[b] = "steps"
    /\ IF Stopped
       THEN /\ branch' = [branch EXCEPT ![b] = "error"]
            /\ UNCHANGED turns
       ELSE \/ /\ turns[b] < MaxTurns
               /\ turns' = [turns EXCEPT ![b] = @ + 1]
               /\ branch' \in {[branch EXCEPT ![b] = pc] : pc \in {"steps"} \cup Outcomes}
            \/ /\ branch' = [branch EXCEPT ![b] = "value"]
               /\ UNCHANGED turns
    /\ UNCHANGED <<limit, ch, closed, results, step, stepCtx>>

\* Mutation: the channel is not buffered; a result is sent to who receives it.
SendUnbuffered(b) ==
    /\ branch[b] \in Outcomes
    /\ step = "collect" /\ ch = <<>>
    /\ ch' = Append(ch, <<b, branch[b]>>)
    /\ branch' = [branch EXCEPT ![b] = "sent"]
    /\ UNCHANGED <<limit, turns, closed, results, step, stepCtx>>

\* The channel's buffer has room for the result of every branch.
Send(b) ==
    /\ branch[b] \in Outcomes
    /\ Len(ch) < Cardinality(Branches)
    /\ ch' = Append(ch, <<b, branch[b]>>)
    /\ branch' = [branch EXCEPT ![b] = "sent"]
    /\ UNCHANGED <<limit, turns, closed, results, step, stepCtx>>

\* The deferred calls: the token first, then wg.Done.
Leave(b) ==
    /\ branch[b] = "sent"
    /\ branch' = [branch EXCEPT ![b] = "done"]
    /\ UNCHANGED <<limit, turns, ch, closed, results, step, stepCtx>>

\* Mutation: closes the channel when nobody holds the semaphore.
CloseWhenIdle ==
    /\ ~ closed /\ Holders = {} /\ \E b \in Branches : branch[b] = "done"
    /\ closed' = TRUE
    /\ UNCHANGED <<limit, branch, turns, ch, results, step, stepCtx>>

\* wg.Wait and close.
CloseChannel ==
    /\ ~ closed /\ \A b \in Branches : branch[b] = "done"
    /\ closed' = TRUE
    /\ UNCHANGED <<limit, branch, turns, ch, results, step, stepCtx>>

-----------------------------------------------------------------------------
(* The step and the run *)

\* execParallel's deferred cancel, when the step returns.
CancelCtx == stepCtx' = IF stepCtx = "live" THEN "cancelled" ELSE stepCtx

\* Mutation: a failed branch is passed over.
CollectAll ==
    /\ step = "collect" /\ ch # <<>>
    /\ ch' = Tail(ch)
    /\ results' = results \cup (IF Head(ch)[2] = "error" THEN {} ELSE {Head(ch)[1]})
    /\ UNCHANGED <<limit, branch, turns, closed, step, stepCtx>>

Collect ==
    /\ step = "collect" /\ ch # <<>>
    /\ ch' = Tail(ch)
    /\ IF Head(ch)[2] = "error"
       THEN step' = "failed" /\ CancelCtx /\ UNCHANGED results
       ELSE results' = results \cup {Head(ch)[1]} /\ UNCHANGED <<step, stepCtx>>
    /\ UNCHANGED <<limit, branch, turns, closed>>

CollectEnd ==
    /\ step = "collect" /\ ch = <<>> /\ closed
    /\ step' = "setResults"
    /\ UNCHANGED <<limit, branch, turns, ch, closed, results, stepCtx>>

SetResults ==
    /\ step = "setResults"
    /\ step' = "succeeded"
    /\ CancelCtx
    /\ UNCHANGED <<limit, branch, turns, ch, closed, results>>

\* The error ends the run, or an enclosing try stores it in a variable.
Propagate ==
    /\ step = "failed"
    /\ step' \in {"ended", "except"}
    /\ UNCHANGED <<limit, branch, turns, ch, closed, results, stepCtx>>

SetExcept ==
    /\ step = "except"
    /\ step' = "caught"
    /\ UNCHANGED <<limit, branch, turns, ch, closed, results, stepCtx>>

\* The execution is cancelled, or ParallelTimeout passes.
Interrupt(why) ==
    /\ stepCtx = "live"
    /\ stepCtx' = why
    /\ UNCHANGED <<limit, branch, turns, ch, closed, results, step>>

BranchStep(b) ==
    Acquire(b) \/ CloneEnv(b) \/ ExecStep(b) \/ Send(b) \/ Leave(b)

RunStep == Collect \/ CollectEnd \/ SetResults \/ Propagate \/ SetExcept

Next ==
    \/ \E b \in Branches : BranchStep(b)
    \/ CloseChannel
    \/ RunStep
    \/ Interrupt("cancelled") \/ Interrupt("expired")

\* The scheduler runs every goroutine that can go on; steps end, for calls
\* carry the context.
Fairness ==
    /\ \A b \in Branches : WF_parVars(BranchStep(b))
    /\ WF_parVars(CloseChannel) /\ WF_parVars(RunStep)

Spec == Init /\ [][Next]_parVars /\ Fairness

-----------------------------------------------------------------------------
(* Properties *)

\* A step that succeeds has the result of every branch, and has left none
\* behind: its results are not read while they are still being made.
ResultsComplete ==
    step \in {"setResults", "succeeded"} =>
        results = Branches /\ \A b \in Branches : branch[b] = "done"

\* No more branches are under way than the concurrency limit allows, and one that
\* has its result to send finds room for it, though nobody may receive any more.
LimitKept ==
    /\ Cardinality(Holders) <= Concurrency
    /\ \A b \in Branches : branch[b] \in Outcomes => Len(ch) < Cardinality(Branches)

\* Whatever fails, is cancelled or expires, the step ends and every branch of
\* it does, the ones it left behind too: none waits for ever to be received
\* from, or for its turn.
BranchesEnded == step # "collect" /\ \A b \in Branches : branch[b] = "done"

AllBranchesEnd == <>[]BranchesEnded
=============================================================================
