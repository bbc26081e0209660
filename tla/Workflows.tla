----------------------------- MODULE Workflows -----------------------------
(***************************************************************************)
(* The Workflows mock: the store of workflows, revisions and executions,   *)
(* the handlers that change it, and, with the data plane on, the executor, *)
(* which runs every execution in a goroutine of its own.                   *)
(*                                                                         *)
(* MemoryStore.mu guards the store, executor.mu the map of the cancel      *)
(* functions of the running executions.  Creating an execution, running it *)
(* and cancelling it each take the two locks several times and hold neither*)
(* in between, so each is several steps here.  The runner itself is        *)
(* abstracted to what it does to the store: it appends events to the       *)
(* history and ends with a value or an error, and a parallel step that     *)
(* fails leaves branches behind (see Parallel), which append events of     *)
(* their own until they notice.                                            *)
(***************************************************************************)
EXTENDS Integers, Sequences

CONSTANTS
    Clients,       \* cancel requests that can be in flight at once
    Aliases,       \* revision aliases
    None,          \* no value
    DataPlane,     \* Config.EnableDataPlane
    MaxWorkflows,  \* bound on the workflows ever created
    MaxRevisions,  \* bound on the revisions of a workflow
    MaxExecs,      \* bound on the executions ever created
    MaxSteps,      \* bound on the steps of a run
    MaxStrays      \* bound on the branches left behind at a time

ASSUME ConstantsAssumption ==
    /\ None \notin Aliases
    /\ DataPlane \in BOOLEAN
    /\ MaxWorkflows \in Nat
    /\ MaxRevisions \in Nat
    /\ MaxExecs \in Nat
    /\ MaxSteps \in Nat
    /\ MaxStrays \in Nat

WorkflowIds == 1 .. MaxWorkflows
ExecIds     == 1 .. MaxExecs

VARIABLES
    workflows,  \* MemoryStore.workflows: id -> whether published, or None
    revisions,  \* MemoryStore.revisions: per workflow, the alias of each revision
    executions, \* MemoryStore.executions: id -> record
    histories,  \* MemoryStore.histories: the event types of each execution
    running,    \* executor.running: the ids it has a cancel function for
    ctx,        \* the context of each execution's run
    job,        \* per execution, the workflow and revision its handler asked for
    pc,         \* per execution, where its handler and then its goroutine is
    outcome,    \* the result of Run, then the status chosen from it
    strays,     \* per execution, the branches left behind that still run
    cancels,    \* per client, the cancel request between its two steps
    madeWf,     \* workflows ever created
    madeEx,     \* executions ever created
    open        \* the server has not been closed

store == <<workflows, revisions, executions, histories>>
exec  == <<running, ctx, job, pc, outcome, strays>>
vars  == <<store, exec, cancels, madeWf, madeEx, open>>

-----------------------------------------------------------------------------
(* Types *)

\* CreateExecution makes them Queued; "Canceling" is checked for, never set.
Statuses == {"Queued", "Running", "Succeeded", "Failed", "Canceled"}
Active   == {"Queued", "Running"}

\* ExecutionRecord; of each timestamp, whether it is set.
Execution ==
    [wf : WorkflowIds, status : Statuses, rev : 1 .. MaxRevisions,
     runAt : BOOLEAN, succeededAt : BOOLEAN, failedAt : BOOLEAN,
     canceledAt : BOOLEAN]

Events   == {"WillStart", "Step", "Stray", "DidComplete", "DidFail", "DidCancel"}
Contexts == {"none", "live", "cancelled", "expired"}

\* "created" to "parsed" is handleCreateExecution, the rest the goroutine.
PCs == {"none", "created", "parsed", "submitted", "begun", "running", "ended",
        "judged", "leaving", "done"}

Job    == [wf : WorkflowIds, rev : 1 .. MaxRevisions]
Cancel == [wf : WorkflowIds, id : ExecIds]

ASSUME NoneAssumption ==
    None \notin Execution /\ None \notin Statuses /\ None \notin BOOLEAN

\* An alias names at most one revision of a workflow.
TypeOK ==
    /\ workflows \in [WorkflowIds -> BOOLEAN \cup {None}]
    /\ revisions \in [WorkflowIds -> Seq(Aliases \cup {None})]
    /\ \A w \in WorkflowIds : \A r, q \in 1 .. Len(revisions[w]) :
         revisions[w][r] # None /\ revisions[w][r] = revisions[w][q] => r = q
    /\ executions \in [ExecIds -> Execution \cup {None}]
    /\ histories \in [ExecIds -> Seq(Events)]
    /\ running \subseteq ExecIds
    /\ ctx \in [ExecIds -> Contexts]
    /\ job \in [ExecIds -> Job \cup {None}]
    /\ pc \in [ExecIds -> PCs]
    /\ outcome \in [ExecIds -> {"none", "ok", "error"} \cup Statuses]
    /\ strays \in [ExecIds -> 0 .. MaxStrays]
    /\ cancels \in [Clients -> Cancel \cup {None}]
    /\ madeWf \in 0 .. MaxWorkflows
    /\ madeEx \in 0 .. MaxExecs
    /\ open \in BOOLEAN

Exists(w) == workflows[w] # None
Found(e)  == executions[e] # None
Of(w)     == {e \in ExecIds : Found(e) /\ executions[e].wf = w}

-----------------------------------------------------------------------------
(* Workflows and revisions *)

CreateWorkflow(publish, alias) ==
    /\ madeWf < MaxWorkflows
    /\ madeWf' = madeWf + 1
    /\ workflows' = [workflows EXCEPT ![madeWf + 1] = publish]
    /\ revisions' = [revisions EXCEPT ![madeWf + 1] = <<alias>>]
    /\ UNCHANGED <<executions, histories, exec, cancels, madeEx, open>>

\* Of what an update may set, only Publish has an effect elsewhere.
UpdateWorkflow(w, publish) ==
    /\ Exists(w)
    /\ workflows' = [workflows EXCEPT ![w] = publish]
    /\ UNCHANGED <<revisions, executions, histories, exec, cancels, madeWf,
                   madeEx, open>>

\* Refused while an execution is active; takes executions and histories along.
DeleteWorkflow(w) ==
    /\ Exists(w)
    /\ \A e \in Of(w) : executions[e].status \notin Active
    /\ workflows' = [workflows EXCEPT ![w] = None]
    /\ revisions' = [revisions EXCEPT ![w] = << >>]
    /\ executions' = [e \in ExecIds |-> IF e \in Of(w) THEN None ELSE executions[e]]
    /\ histories' = [e \in ExecIds |-> IF e \in Of(w) THEN << >> ELSE histories[e]]
    /\ UNCHANGED <<exec, cancels, madeWf, madeEx, open>>

\* Mutation: only the latest revision's alias is looked at.
TakenByLatest(w, alias, but) ==
    LET r == Len(revisions[w]) IN r # but /\ revisions[w][r] = alias

Taken(w, alias, but) ==
    \E r \in 1 .. Len(revisions[w]) : r # but /\ revisions[w][r] = alias

CreateRevision(w, alias) ==
    /\ Exists(w)
    /\ alias # None => ~ Taken(w, alias, 0)
    /\ Len(revisions[w]) < MaxRevisions
    /\ revisions' = [revisions EXCEPT ![w] = Append(@, alias)]
    /\ UNCHANGED <<workflows, executions, histories, exec, cancels, madeWf,
                   madeEx, open>>

\* UpdateRevisionAlias, and with no alias DeleteRevisionAlias.
SetRevisionAlias(w, r, alias) ==
    /\ Exists(w)
    /\ r \in 1 .. Len(revisions[w])
    /\ alias # None => ~ Taken(w, alias, r)
    /\ revisions' = [revisions EXCEPT ![w][r] = alias]
    /\ UNCHANGED <<workflows, executions, histories, exec, cancels, madeWf,
                   madeEx, open>>

-----------------------------------------------------------------------------
(* handleCreateExecution *)

\* An execution runs the revision asked for, by id or alias, or the latest.
\* Without the data plane it is over at once.
CreateExecution(w, r) ==
    /\ madeEx < MaxExecs
    /\ Exists(w) /\ workflows[w]
    /\ r \in 1 .. Len(revisions[w])
    /\ madeEx' = madeEx + 1
    /\ executions' = [executions EXCEPT ![madeEx + 1] =
                        [wf |-> w, status |-> IF DataPlane THEN "Queued" ELSE "Succeeded",
                         rev |-> r, runAt |-> ~ DataPlane,
                         succeededAt |-> ~ DataPlane, failedAt |-> FALSE,
                         canceledAt |-> FALSE]]
    /\ job' = [job EXCEPT ![madeEx + 1] = [wf |-> w, rev |-> r]]
    /\ pc' = [pc EXCEPT ![madeEx + 1] = IF DataPlane THEN "created" ELSE "done"]
    /\ UNCHANGED <<workflows, revisions, histories, running, ctx, outcome,
                   strays, cancels, madeWf, open>>

\* The handler looks the revision up again.  Its runbook was parsed when the
\* revision was made, so it parses; but the workflow may have gone.
GetRevision(e) ==
    /\ pc[e] = "created"
    /\ pc' = [pc EXCEPT ![e] = IF job[e].rev \in 1 .. Len(revisions[job[e].wf])
                               THEN "parsed" ELSE "done"]
    /\ UNCHANGED <<store, running, ctx, job, outcome, strays, cancels, madeWf, madeEx, open>>

\* submit: the run's context derives from the server's and has a timeout.
Submit(e) ==
    /\ pc[e] = "parsed"
    /\ running' = running \cup {e}
    /\ ctx' = [ctx EXCEPT ![e] = IF open THEN "live" ELSE "cancelled"]
    /\ pc' = [pc EXCEPT ![e] = "submitted"]
    /\ UNCHANGED <<store, job, outcome, strays, cancels, madeWf, madeEx, open>>

-----------------------------------------------------------------------------
(* The goroutine of an execution *)

\* Mutation: the event that starts the run is left out.
BeginUnannounced(e) ==
    /\ pc[e] = "submitted"
    /\ Found(e)
    /\ executions' = [executions EXCEPT ![e].status = "Running", ![e].runAt = TRUE]
    /\ pc' = [pc EXCEPT ![e] = "running"]
    /\ UNCHANGED <<workflows, revisions, histories, running, ctx, job, outcome,
                   strays, cancels, madeWf, madeEx, open>>

\* UpdateExecutionStatus(Running, RunAt), whatever the status is by now.  An
\* execution that has been deleted is not run.
Begin(e) ==
    /\ pc[e] = "submitted"
    /\ IF Found(e)
       THEN /\ executions' = [executions EXCEPT ![e].status = "Running",
                                                ![e].runAt = TRUE]
            /\ pc' = [pc EXCEPT ![e] = "begun"]
       ELSE /\ pc' = [pc EXCEPT ![e] = "leaving"]
            /\ UNCHANGED executions
    /\ UNCHANGED <<workflows, revisions, histories, running, ctx, job, outcome,
                   strays, cancels, madeWf, madeEx, open>>

AppendHistory(e, event) ==
    histories' = [histories EXCEPT ![e] = Append(@, event)]

\* The events of the run: that it starts, and then those of its steps.
Emit(e) ==
    /\ \/ /\ pc[e] = "begun"
          /\ pc' = [pc EXCEPT ![e] = "running"]
          /\ AppendHistory(e, "WillStart")
       \/ /\ pc[e] = "running"
          /\ Len(histories[e]) <= MaxSteps
          /\ AppendHistory(e, "Step")
          /\ UNCHANGED pc
    /\ UNCHANGED <<workflows, revisions, executions, running, ctx, job, outcome,
                   strays, cancels, madeWf, madeEx, open>>

\* A parallel step has failed and its run goes on or ends without one of its
\* branches, whose context is done but which is in the middle of a step.
LeaveBranch(e) ==
    /\ pc[e] = "running"
    /\ strays[e] < MaxStrays
    /\ strays' = [strays EXCEPT ![e] = @ + 1]
    /\ UNCHANGED <<store, running, ctx, job, pc, outcome, cancels, madeWf, madeEx, open>>

\* That branch reports on its step, to the history of an execution that may be
\* over or gone,
Stray(e) ==
    /\ strays[e] > 0
    /\ Len(histories[e]) <= MaxSteps + 1
    /\ AppendHistory(e, "Stray")
    /\ UNCHANGED <<workflows, revisions, executions, exec, cancels, madeWf, madeEx, open>>

\* and ends, at the next step at the latest.
StrayEnd(e) ==
    /\ strays[e] > 0
    /\ strays' = [strays EXCEPT ![e] = @ - 1]
    /\ UNCHANGED <<store, running, ctx, job, pc, outcome, cancels, madeWf, madeEx, open>>

\* Run returns.  A run whose context is done may still have come to its end,
\* and one whose context is not may fail.
End(e, result) ==
    /\ pc[e] = "running"
    /\ outcome' = [outcome EXCEPT ![e] = result]
    /\ pc' = [pc EXCEPT ![e] = "ended"]
    /\ AppendHistory(e, IF result = "ok" THEN "DidComplete"
                        ELSE IF ctx[e] = "live" THEN "DidFail" ELSE "DidCancel")
    /\ UNCHANGED <<workflows, revisions, executions, running, ctx, job,
                   strays, cancels, madeWf, madeEx, open>>

\* Mutation: an error is stored as the status.
JudgeRaw(e) ==
    /\ pc[e] = "ended"
    /\ outcome' = [outcome EXCEPT ![e] = IF @ = "ok" THEN "Succeeded" ELSE @]
    /\ pc' = [pc EXCEPT ![e] = "judged"]
    /\ UNCHANGED <<store, running, ctx, job, strays, cancels, madeWf, madeEx, open>>

\* The goroutine looks at its context a second time.
Judge(e) ==
    /\ pc[e] = "ended"
    /\ outcome' = [outcome EXCEPT ![e] =
                     IF @ = "ok" THEN "Succeeded"
                     ELSE IF ctx[e] = "live" THEN "Failed" ELSE "Canceled"]
    /\ pc' = [pc EXCEPT ![e] = "judged"]
    /\ UNCHANGED <<store, running, ctx, job, strays, cancels, madeWf, madeEx, open>>

\* Mutation: the outcome is stored only while the context is live.
FinishIfLive(e) ==
    /\ pc[e] = "judged"
    /\ executions' = IF Found(e) /\ ctx[e] = "live"
                     THEN [executions EXCEPT
                             ![e].status = outcome[e],
                             ![e].succeededAt = @ \/ outcome[e] = "Succeeded",
                             ![e].failedAt = @ \/ outcome[e] = "Failed"]
                     ELSE executions
    /\ pc' = [pc EXCEPT ![e] = "leaving"]
    /\ UNCHANGED <<workflows, revisions, histories, running, ctx, job, outcome,
                   strays, cancels, madeWf, madeEx, open>>

\* UpdateExecutionStatus with the outcome, whatever the status is by now.
Finish(e) ==
    /\ pc[e] = "judged"
    /\ executions' = IF Found(e)
                     THEN [executions EXCEPT
                             ![e].status = outcome[e],
                             ![e].succeededAt = @ \/ outcome[e] = "Succeeded",
                             ![e].failedAt = @ \/ outcome[e] = "Failed"]
                     ELSE executions
    /\ pc' = [pc EXCEPT ![e] = "leaving"]
    /\ UNCHANGED <<workflows, revisions, histories, running, ctx, job, outcome,
                   strays, cancels, madeWf, madeEx, open>>

\* Mutation: the cancel function stays in the map.
LeaveRunning(e) ==
    /\ pc[e] = "leaving"
    /\ ctx' = [ctx EXCEPT ![e] = "none"]
    /\ outcome' = [outcome EXCEPT ![e] = "none"]
    /\ pc' = [pc EXCEPT ![e] = "done"]
    /\ UNCHANGED <<store, running, job, strays, cancels, madeWf, madeEx, open>>

\* The deferred clean-up: out of the map, then cancel().
Leave(e) ==
    /\ pc[e] = "leaving"
    /\ running' = running \ {e}
    /\ ctx' = [ctx EXCEPT ![e] = "none"]
    /\ outcome' = [outcome EXCEPT ![e] = "none"]
    /\ pc' = [pc EXCEPT ![e] = "done"]
    /\ UNCHANGED <<store, job, strays, cancels, madeWf, madeEx, open>>

\* The timeout of the run's context.
Expire(e) ==
    /\ ctx[e] = "live"
    /\ ctx' = [ctx EXCEPT ![e] = "expired"]
    /\ UNCHANGED <<store, running, job, pc, outcome, strays, cancels, madeWf, madeEx, open>>

-----------------------------------------------------------------------------
(* Cancelling, deleting, closing *)

\* executor.cancel: the context of the run, if there is one, whatever workflow
\* the path of the request names ...
CancelRun(c, w, e) ==
    /\ cancels[c] = None
    /\ cancels' = [cancels EXCEPT ![c] = [wf |-> w, id |-> e]]
    /\ ctx' = IF e \in running /\ ctx[e] = "live"
              THEN [ctx EXCEPT ![e] = "cancelled"] ELSE ctx
    /\ UNCHANGED <<store, running, job, pc, outcome, strays, madeWf, madeEx, open>>

\* Mutation: the status is not looked at.
CancelAnyStatus(c) ==
    /\ cancels[c] # None
    /\ LET e == cancels[c].id
       IN  executions' =
             IF Found(e) /\ executions[e].wf = cancels[c].wf
             THEN [executions EXCEPT ![e].status = "Canceled", ![e].canceledAt = TRUE]
             ELSE executions
    /\ cancels' = [cancels EXCEPT ![c] = None]
    /\ UNCHANGED <<workflows, revisions, histories, exec, madeWf, madeEx, open>>

\* ... then CancelExecution, which refuses an execution that is not active or
\* not one of that workflow.
CancelExecution(c) ==
    /\ cancels[c] # None
    /\ LET e == cancels[c].id
       IN  executions' =
             IF Found(e) /\ executions[e].wf = cancels[c].wf
                         /\ executions[e].status \in Active
             THEN [executions EXCEPT ![e].status = "Canceled", ![e].canceledAt = TRUE]
             ELSE executions
    /\ cancels' = [cancels EXCEPT ![c] = None]
    /\ UNCHANGED <<workflows, revisions, histories, exec, madeWf, madeEx, open>>

\* Mutation: an execution that is still active goes too.
DeleteAnyExecution(e) ==
    /\ Found(e)
    /\ executions' = [executions EXCEPT ![e] = None]
    /\ histories' = [histories EXCEPT ![e] = << >>]
    /\ UNCHANGED <<workflows, revisions, exec, cancels, madeWf, madeEx, open>>

DeleteExecution(e) ==
    /\ Found(e)
    /\ executions[e].status \notin Active
    /\ executions' = [executions EXCEPT ![e] = None]
    /\ histories' = [histories EXCEPT ![e] = << >>]
    /\ UNCHANGED <<workflows, revisions, exec, cancels, madeWf, madeEx, open>>

\* Server.Close cancels the context every run's derives from.
Close ==
    /\ open
    /\ open' = FALSE
    /\ ctx' = [e \in ExecIds |-> IF ctx[e] = "live" THEN "cancelled" ELSE ctx[e]]
    /\ UNCHANGED <<store, running, job, pc, outcome, strays, cancels, madeWf, madeEx>>

-----------------------------------------------------------------------------
Init ==
    /\ workflows = [w \in WorkflowIds |-> None]
    /\ revisions = [w \in WorkflowIds |-> << >>]
    /\ executions = [e \in ExecIds |-> None]
    /\ histories = [e \in ExecIds |-> << >>]
    /\ running = {}
    /\ ctx = [e \in ExecIds |-> "none"]
    /\ job = [e \in ExecIds |-> None]
    /\ pc = [e \in ExecIds |-> "none"]
    /\ outcome = [e \in ExecIds |-> "none"]
    /\ strays = [e \in ExecIds |-> 0]
    /\ cancels = [c \in Clients |-> None]
    /\ madeWf = 0 /\ madeEx = 0
    /\ open = TRUE

Handler(e)   == GetRevision(e) \/ Submit(e)
Goroutine(e) == Begin(e) \/ Emit(e) \/ (\E r \in {"ok", "error"} : End(e, r))
                \/ Judge(e) \/ Finish(e) \/ Leave(e)
Branches(e)  == LeaveBranch(e) \/ Stray(e) \/ StrayEnd(e)

Next ==
    \/ \E alias \in Aliases \cup {None} :
         \/ \E publish \in BOOLEAN : CreateWorkflow(publish, alias)
         \/ \E w \in WorkflowIds :
              \/ CreateRevision(w, alias)
              \/ \E r \in 1 .. MaxRevisions : SetRevisionAlias(w, r, alias)
    \/ \E w \in WorkflowIds :
         \/ \E publish \in BOOLEAN : UpdateWorkflow(w, publish)
         \/ DeleteWorkflow(w)
         \/ \E r \in 1 .. MaxRevisions : CreateExecution(w, r)
         \/ \E c \in Clients, e \in 1 .. madeEx : DataPlane /\ CancelRun(c, w, e)
    \/ \E e \in ExecIds : Handler(e) \/ Goroutine(e) \/ Branches(e) \/ Expire(e) \/ DeleteExecution(e)
    \/ \E c \in Clients : CancelExecution(c)
    \/ Close

Spec == Init /\ [][Next]_vars

\* A goroutine goes on by itself.  Only a run whose context is done is sure to
\* return, but every context expires.
Returns(e) == ctx[e] # "live" /\ \E r \in {"ok", "error"} : End(e, r)
Advance(e) == Begin(e) \/ (pc[e] = "begun" /\ Emit(e)) \/ Judge(e) \/ Finish(e) \/ Leave(e)

FairSpec ==
    Spec /\ \A e \in ExecIds : /\ WF_vars(Handler(e)) /\ WF_vars(Advance(e))
                              /\ WF_vars(Returns(e)) /\ WF_vars(Expire(e))
                              /\ WF_vars(StrayEnd(e))

-----------------------------------------------------------------------------
(* Safety *)

IsActive(e) == Found(e) /\ executions[e].status \in Active

\* No execution is left Queued or Running with nothing that will finish it: its
\* handler or its goroutine has its last update still to make, and the executor
\* can cancel exactly those that have a goroutine.
ActiveOwned ==
    \A e \in ExecIds :
        /\ IsActive(e) => pc[e] \notin {"none", "leaving", "done"}
        /\ e \in running <=> pc[e] \in {"submitted", "begun", "running", "ended",
                                       "judged", "leaving"}
        /\ e \in running <=> ctx[e] # "none"

\* A history that tells all starts with the start of the run, and the run's
\* completion comes once and last, but for what the branches a failed parallel
\* step left behind report late.
TellsAll(h) ==
    /\ h # << >> /\ h[1] = "WillStart"
    /\ \E n \in 2 .. Len(h) :
          /\ h[n] = "DidComplete"
          /\ \A m \in 2 .. Len(h) :
                h[m] \in (IF m < n THEN {"Step", "Stray"}
                          ELSE IF m > n THEN {"Stray"} ELSE {h[n]})

\* An execution says that it succeeded or failed, and when, together: however
\* cancellation and completion race, it does not both succeed and fail, one that
\* waits has no timestamp, one that was cancelled before it began says when, and
\* one that has succeeded has its whole history.  CanceledAt is not the
\* outcome's alone: an accepted cancel leaves it whatever the goroutine stores
\* afterwards, and a run that ends as Canceled by itself has none.
OutcomeAgrees ==
    \A e \in ExecIds : Found(e) =>
        LET x == executions[e]
        IN  /\ x.succeededAt <=> x.status = "Succeeded"
            /\ x.failedAt <=> x.status = "Failed"
            /\ x.status \in {"Running", "Succeeded", "Failed"} => x.runAt
            /\ x.status = "Queued" => ~ x.runAt /\ ~ x.canceledAt
            /\ x.status = "Canceled" => x.canceledAt \/ x.runAt
            /\ DataPlane /\ x.status = "Succeeded" => TellsAll(histories[e])

\* An accepted cancel request ends the execution: it is not running, and does
\* not come to another end, afterwards.
CancelSticks ==
    [][\A e \in ExecIds :
         Found(e) /\ Found(e)' /\ executions[e].canceledAt
             => executions'[e].status = "Canceled"]_vars

-----------------------------------------------------------------------------
(* Liveness *)

\* Every execution comes to an end, and so do its goroutine and the branches it
\* left behind.
RunsEnd ==
    \A e \in ExecIds :
        (IsActive(e) \/ e \in running \/ strays[e] > 0)
            ~> (~ IsActive(e) /\ e \notin running /\ strays[e] = 0)

-----------------------------------------------------------------------------
(* What is promised of an execution *)

\* An outcome is owed from the creation of an execution until its handler gives
\* up or its goroutine has stored it.
Owed == {e \in ExecIds : pc[e] \in {"created", "parsed", "submitted", "begun",
                                    "running", "ended", "judged"}}

L == INSTANCE Lifecycle WITH
        Executions <- ExecIds, NoStatus <- None, made <- 1 .. madeEx, owed <- Owed,
        status <- [e \in ExecIds |-> IF Found(e) THEN executions[e].status ELSE None]

\* Store, handlers and executor together keep the promise, however their steps
\* interleave: each is a step of Lifecycle or none, and every outcome comes.
KeepsPromise == L!FairSpec
=============================================================================
