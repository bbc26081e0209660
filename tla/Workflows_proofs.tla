-------------------------- MODULE Workflows_proofs --------------------------
(***************************************************************************)
(* Proofs about the executions of Workflows, for any number of workflows,  *)
(* revisions, executions, steps and requests, with the data plane on or    *)
(* off.                                                                    *)
(*                                                                         *)
(* What can be said of an execution depends on how far its handler or its  *)
(* goroutine has come, and on nothing any other request does to it, except *)
(* that a cancel request may set its status and a deletion may take it     *)
(* away (Recorded, Told, Connected).  That a handler only gives up on an   *)
(* execution that is gone needs the workflow and the revision it asked for *)
(* to stay as long as the execution does (Placed).                         *)
(***************************************************************************)
EXTENDS Workflows, SequenceTheorems, TLAPS

\* The record x of an execution whose goroutine has come to p.
Recorded(x, p) ==
    x # None =>
        /\ p # "none"
        /\ p \in {"created", "parsed", "submitted"} => x.status \in {"Queued", "Canceled"}
        /\ p \in {"begun", "running", "ended", "judged"} => x.status \in {"Running", "Canceled"}
        /\ p \in {"leaving", "done"} => x.status \in {"Succeeded", "Failed", "Canceled"}
        /\ p \notin {"created", "parsed", "submitted"} => x.runAt
        /\ x.succeededAt <=> x.status = "Succeeded"
        /\ x.failedAt <=> x.status = "Failed"
        /\ x.status = "Queued" => ~ x.runAt /\ ~ x.canceledAt
        /\ x.status = "Canceled" => x.canceledAt \/ x.runAt

\* A history that has only begun.
Begun(h) ==
    /\ h # << >> /\ h[1] = "WillStart"
    /\ \A m \in 2 .. Len(h) : h[m] \in {"Step", "Stray"}

\* The history h of that execution, o its outcome and s its branches left behind.
Told(x, p, o, h, s) ==
    /\ p \in {"none", "created", "parsed", "submitted", "begun"} => s = 0
    /\ p = "none" => h = << >>
    /\ p = "ended" => o \in {"ok", "error"}
    /\ p = "judged" => o \in {"Succeeded", "Failed", "Canceled"}
    /\ x # None =>
         /\ p \in {"created", "parsed", "submitted", "begun"} => h = << >>
         /\ p = "running" => Begun(h)
         /\ p = "ended" /\ o = "ok" => TellsAll(h)
         /\ p = "judged" /\ o = "Succeeded" => TellsAll(h)
         /\ DataPlane /\ p \in {"leaving", "done"} /\ x.status = "Succeeded" => TellsAll(h)

Connected(e) ==
    /\ e \in running <=> pc[e] \in {"submitted", "begun", "running", "ended", "judged",
                                    "leaving"}
    /\ e \in running <=> ctx[e] # "none"

Phase(e) ==
    /\ pc[e] = "none" <=> e > madeEx
    /\ Recorded(executions[e], pc[e])
    /\ Told(executions[e], pc[e], outcome[e], histories[e], strays[e])
    /\ Connected(e)

\* An execution is of a workflow there is, and its handler asked for a revision
\* that workflow has.
Placed(e) ==
    Found(e) =>
        /\ Exists(executions[e].wf)
        /\ pc[e] = "created" => /\ job[e].wf = executions[e].wf
                                /\ job[e].rev \in 1 .. Len(revisions[executions[e].wf])

IInv ==
    /\ TypeOK
    /\ \A e \in ExecIds : Phase(e)
    /\ \A e \in ExecIds : Placed(e)
    /\ \A w \in WorkflowIds : Exists(w) => w <= madeWf

-----------------------------------------------------------------------------
(* Steps of one execution *)

\* A step of one execution leaves the others as they are.
LEMMA OneMoves ==
  ASSUME IInv, TypeOK', NEW e \in ExecIds,
         UNCHANGED <<workflows, revisions, madeWf, madeEx, job>>,
         \A d \in ExecIds : d # e =>
            /\ executions'[d] = executions[d] /\ histories'[d] = histories[d]
            /\ pc'[d] = pc[d] /\ outcome'[d] = outcome[d] /\ strays'[d] = strays[d]
            /\ ctx'[d] = ctx[d] /\ (d \in running' <=> d \in running),
         Recorded(executions'[e], pc'[e]),
         Told(executions'[e], pc'[e], outcome'[e], histories'[e], strays'[e]),
         Connected(e)', pc'[e] # "none", pc[e] # "none", pc'[e] = "created" => pc[e] = "created",
         executions'[e] # None => executions[e] # None /\ executions'[e].wf = executions[e].wf
  PROVE  IInv'
<1>1. ASSUME NEW d \in ExecIds
      PROVE  Phase(d)'
  <2>1. Phase(d) /\ (pc'[d] = "none" <=> d > madeEx')
    BY DEF IInv, Phase
  <2>2. Connected(d)'
    BY <2>1 DEF Phase, Connected
  <2>3. /\ Recorded(executions'[d], pc'[d])
        /\ Told(executions'[d], pc'[d], outcome'[d], histories'[d], strays'[d])
    BY <2>1 DEF Phase
  <2> QED
    BY <2>1, <2>2, <2>3 DEF Phase, Recorded, Told
<1>2. ASSUME NEW d \in ExecIds
      PROVE  Placed(d)'
  <2>1. Placed(d)
    BY DEF IInv
  <2> QED
    BY <2>1 DEF Placed, Found, Exists
<1> QED
  BY <1>1, <1>2 DEF IInv, Exists

\* A handler gives up only on an execution that is gone.
LEMMA GetRevisionStep ==
  ASSUME IInv, NEW e \in ExecIds, GetRevision(e)
  PROVE  IInv'
<1>1. Phase(e) /\ Placed(e) /\ pc[e] = "created"
  BY DEF IInv, GetRevision
<1>2. /\ pc'[e] \in {"parsed", "done"} /\ (Found(e) => pc'[e] = "parsed")
      /\ \A d \in ExecIds : d # e => pc'[d] = pc[d]
      /\ UNCHANGED <<store, running, ctx, job, outcome, strays, cancels, madeWf, madeEx, open>>
  BY <1>1 DEF GetRevision, IInv, TypeOK, Placed
<1>3. TypeOK'
  <2>1. pc' \in [ExecIds -> PCs]
    BY DEF GetRevision, IInv, TypeOK, PCs
  <2> QED
    BY <1>2, <2>1 DEF IInv, TypeOK, store
<1>4. /\ Recorded(executions'[e], pc'[e]) /\ Connected(e)'
      /\ Told(executions'[e], pc'[e], outcome'[e], histories'[e], strays'[e])
  BY <1>1, <1>2 DEF Phase, Recorded, Told, Connected, Found, store
<1> QED
  BY <1>1, <1>2, <1>3, <1>4, OneMoves DEF store

LEMMA SubmitStep ==
  ASSUME IInv, NEW e \in ExecIds, Submit(e)
  PROVE  IInv'
<1>1. /\ Phase(e) /\ pc[e] = "parsed" /\ e \in running' /\ ctx'[e] \in {"live", "cancelled"}
      /\ pc'[e] = "submitted"
      /\ \A d \in ExecIds : d # e => pc'[d] = pc[d] /\ ctx'[d] = ctx[d]
                                     /\ (d \in running' <=> d \in running)
      /\ UNCHANGED <<store, job, outcome, strays, cancels, madeWf, madeEx, open>>
  BY DEF IInv, TypeOK, Submit
<1>2. TypeOK'
  <2>1. pc' \in [ExecIds -> PCs] /\ ctx' \in [ExecIds -> Contexts] /\ running' \subseteq ExecIds
    BY DEF Submit, IInv, TypeOK, PCs, Contexts
  <2> QED
    BY <1>1, <2>1 DEF IInv, TypeOK, store
<1>3. /\ Recorded(executions'[e], pc'[e]) /\ Connected(e)'
      /\ Told(executions'[e], pc'[e], outcome'[e], histories'[e], strays'[e])
  BY <1>1 DEF Phase, Recorded, Told, Connected, store
<1> QED
  BY <1>1, <1>2, <1>3, OneMoves DEF store

\* The goroutine sets the status whatever it is by now: Queued or Canceled.
LEMMA BeginStep ==
  ASSUME IInv, NEW e \in ExecIds, Begin(e)
  PROVE  IInv'
<1>1. /\ Phase(e) /\ pc[e] = "submitted" /\ pc'[e] = IF Found(e) THEN "begun" ELSE "leaving"
      /\ \A d \in ExecIds : d # e => pc'[d] = pc[d] /\ executions'[d] = executions[d]
      /\ UNCHANGED <<workflows, revisions, histories, running, ctx, job, outcome, strays,
                     cancels, madeWf, madeEx, open>>
  BY DEF IInv, TypeOK, Begin
<1>2. executions'[e] = IF Found(e)
                       THEN [executions[e] EXCEPT !.status = "Running", !.runAt = TRUE]
                       ELSE executions[e]
  BY DEF IInv, TypeOK, Begin, Found
<1>3. Found(e) => executions[e] \in Execution
  BY DEF IInv, TypeOK, Found
<1>4. TypeOK'
  <2>1. executions'[e] \in Execution \cup {None}
    BY <1>2, <1>3 DEF Execution, Statuses, Found
  <2>2. executions' = [executions EXCEPT ![e] = executions'[e]]
    BY <1>2 DEF Begin, IInv, TypeOK
  <2>3. pc' \in [ExecIds -> PCs]
    <3>1. pc \in [ExecIds -> PCs] /\ {"begun", "leaving"} \subseteq PCs
      BY DEF IInv, TypeOK, PCs
    <3>2. \E p \in {"begun", "leaving"} : pc' = [pc EXCEPT ![e] = p]
      BY DEF Begin
    <3> QED
      BY <3>1, <3>2
  <2> QED
    BY <1>1, <2>1, <2>2, <2>3 DEF IInv, TypeOK
<1>5. /\ Recorded(executions'[e], pc'[e]) /\ Connected(e)'
      /\ Told(executions'[e], pc'[e], outcome'[e], histories'[e], strays'[e])
      /\ executions'[e] # None => executions[e] # None /\ executions'[e].wf = executions[e].wf
  BY <1>1, <1>2, <1>3 DEF Phase, Recorded, Told, Connected, Execution, Found
<1> QED
  BY <1>1, <1>4, <1>5, OneMoves

LEMMA AppendTyped ==
  ASSUME TypeOK, NEW e \in ExecIds, NEW event \in Events, AppendHistory(e, event)
  PROVE  /\ histories' \in [ExecIds -> Seq(Events)]
         /\ \A d \in ExecIds : d # e => histories'[d] = histories[d]
         /\ histories'[e] = Append(histories[e], event)
  BY AppendProperties DEF AppendHistory, TypeOK

LEMMA EmitStep ==
  ASSUME IInv, NEW e \in ExecIds, Emit(e)
  PROVE  IInv'
<1>1. /\ Phase(e) /\ histories[e] \in Seq(Events) /\ pc[e] \in {"begun", "running"}
      /\ UNCHANGED <<workflows, revisions, executions, running, ctx, job, outcome, strays,
                     cancels, madeWf, madeEx, open>>
  BY DEF IInv, TypeOK, Emit
<1>2. PICK event \in Events :
        /\ AppendHistory(e, event)
        /\ event = IF pc[e] = "begun" THEN "WillStart" ELSE "Step"
  BY DEF Emit, Events
<1>3. /\ pc'[e] = "running" /\ pc' \in [ExecIds -> PCs]
      /\ \A d \in ExecIds : d # e => pc'[d] = pc[d]
  BY DEF IInv, TypeOK, Emit, PCs
<1>4. TypeOK /\ TypeOK'
  BY <1>1, <1>2, <1>3, AppendTyped DEF IInv, TypeOK
<1>5. executions'[e] # None => Begun(histories'[e])
  <2> SUFFICES ASSUME executions[e] # None
               PROVE  Begun(histories'[e])
    BY <1>1
  <2>1. histories'[e] = Append(histories[e], event)
    BY <1>2, <1>4, AppendTyped
  <2>2. CASE pc[e] = "begun"
    <3>1. histories[e] = << >>
      BY <1>1, <2>2 DEF Phase, Told
    <3> QED
      BY <1>2, <2>1, <2>2, <3>1 DEF Begun
  <2>3. CASE pc[e] = "running"
    <3>1. Begun(histories[e])
      BY <1>1, <2>3 DEF Phase, Told
    <3> QED
      BY <1>1, <1>2, <2>1, <2>3, <3>1 DEF Begun
  <2> QED
    BY <1>1, <2>2, <2>3
<1>6. /\ Recorded(executions'[e], pc'[e]) /\ Connected(e)'
      /\ Told(executions'[e], pc'[e], outcome'[e], histories'[e], strays'[e])
  BY <1>1, <1>3, <1>5 DEF Phase, Recorded, Told, Connected
<1> QED
  BY <1>1, <1>2, <1>3, <1>4, <1>6, AppendTyped, OneMoves

LEMMA LeaveBranchStep ==
  ASSUME IInv, NEW e \in ExecIds, LeaveBranch(e)
  PROVE  IInv'
<1>1. /\ Phase(e) /\ pc[e] = "running" /\ strays' \in [ExecIds -> 0 .. MaxStrays]
      /\ \A d \in ExecIds : d # e => strays'[d] = strays[d]
      /\ UNCHANGED <<store, running, ctx, job, pc, outcome, cancels, madeWf, madeEx, open>>
  BY ConstantsAssumption DEF IInv, TypeOK, LeaveBranch
<1>2. TypeOK'
  BY <1>1 DEF IInv, TypeOK, store
<1>3. /\ Recorded(executions'[e], pc'[e]) /\ Connected(e)'
      /\ Told(executions'[e], pc'[e], outcome'[e], histories'[e], strays'[e])
  BY <1>1 DEF Phase, Recorded, Told, Connected, store
<1> QED
  BY <1>1, <1>2, <1>3, OneMoves DEF store

\* A branch left behind may report late: that adds nothing but its report.
LEMMA StrayTells ==
  ASSUME NEW h \in Seq(Events)
  PROVE  /\ Begun(h) => Begun(Append(h, "Stray"))
         /\ TellsAll(h) => TellsAll(Append(h, "Stray"))
<1> DEFINE g == Append(h, "Stray")
<1>1. /\ Len(g) = Len(h) + 1 /\ Len(h) \in Nat /\ g # << >>
      /\ \A m \in 1 .. Len(h) : g[m] = h[m]
      /\ \A m \in 1 .. Len(g) : m \in 1 .. Len(h) \/ (m = Len(h) + 1 /\ g[m] = "Stray")
  BY DEF Events
<1> HIDE DEF g
<1>2. ASSUME h # << >>
      PROVE  1 \in 1 .. Len(h)
  BY <1>2
<1>3. Begun(h) => Begun(g)
  BY <1>1, <1>2 DEF Begun
<1>4. ASSUME TellsAll(h)
      PROVE  TellsAll(g)
  <2>1. PICK n \in 2 .. Len(h) :
          /\ h[n] = "DidComplete"
          /\ \A m \in 2 .. Len(h) :
                h[m] \in (IF m < n THEN {"Step", "Stray"}
                          ELSE IF m > n THEN {"Stray"} ELSE {h[n]})
    BY <1>4 DEF TellsAll
  <2>2. g[1] = "WillStart" /\ n \in 2 .. Len(g) /\ g[n] = h[n]
    BY <1>1, <1>2, <1>4, <2>1 DEF TellsAll
  <2>3. ASSUME NEW m \in 2 .. Len(g)
        PROVE  g[m] \in (IF m < n THEN {"Step", "Stray"}
                         ELSE IF m > n THEN {"Stray"} ELSE {g[n]})
    <3>1. CASE m \in 2 .. Len(h)
      BY <1>1, <2>1, <2>2, <3>1
    <3>2. CASE m = Len(h) + 1 /\ g[m] = "Stray"
      BY <1>1, <2>1, <3>2
    <3> QED
      BY <1>1, <3>1, <3>2
  <2> QED
    BY <1>1, <2>1, <2>2, <2>3 DEF TellsAll
<1> QED
  BY <1>3, <1>4 DEF g

LEMMA StrayStep ==
  ASSUME IInv, NEW e \in ExecIds, Stray(e)
  PROVE  IInv'
<1>1. /\ Phase(e) /\ histories[e] \in Seq(Events) /\ strays[e] \in Nat /\ strays[e] > 0
      /\ AppendHistory(e, "Stray") /\ "Stray" \in Events
      /\ UNCHANGED <<workflows, revisions, executions, exec, cancels, madeWf, madeEx, open>>
  BY DEF IInv, TypeOK, Stray, Events
<1>2. TypeOK /\ TypeOK' /\ histories'[e] = Append(histories[e], "Stray")
  BY <1>1, AppendTyped DEF IInv, TypeOK, exec
<1>3. pc[e] \notin {"none", "created", "parsed", "submitted", "begun"}
  BY <1>1 DEF Phase, Told
<1>4. Told(executions'[e], pc'[e], outcome'[e], histories'[e], strays'[e])
  BY <1>1, <1>2, <1>3, StrayTells DEF Phase, Told, exec
<1>5. Recorded(executions'[e], pc'[e]) /\ Connected(e)'
  BY <1>1 DEF Phase, Connected, exec
<1> QED
  BY <1>1, <1>2, <1>3, <1>4, <1>5, AppendTyped, OneMoves DEF exec

LEMMA StrayEndStep ==
  ASSUME IInv, NEW e \in ExecIds, StrayEnd(e)
  PROVE  IInv'
<1>1. /\ Phase(e) /\ strays[e] > 0 /\ strays[e] \in Nat /\ strays' \in [ExecIds -> 0 .. MaxStrays]
      /\ \A d \in ExecIds : d # e => strays'[d] = strays[d]
      /\ UNCHANGED <<store, running, ctx, job, pc, outcome, cancels, madeWf, madeEx, open>>
  BY ConstantsAssumption DEF IInv, TypeOK, StrayEnd
<1>2. TypeOK'
  BY <1>1 DEF IInv, TypeOK, store
<1>3. pc[e] \notin {"none", "created", "parsed", "submitted", "begun"}
  BY <1>1 DEF Phase, Told
<1>4. /\ Recorded(executions'[e], pc'[e]) /\ Connected(e)'
      /\ Told(executions'[e], pc'[e], outcome'[e], histories'[e], strays'[e])
  BY <1>1, <1>3 DEF Phase, Recorded, Told, Connected, store
<1> QED
  BY <1>1, <1>2, <1>3, <1>4, OneMoves DEF store

\* The run's completion comes after its start and the reports of its steps.
LEMMA EndStep ==
  ASSUME IInv, NEW e \in ExecIds, NEW result \in {"ok", "error"}, End(e, result)
  PROVE  IInv'
<1> DEFINE event == IF result = "ok" THEN "DidComplete"
                    ELSE IF ctx[e] = "live" THEN "DidFail" ELSE "DidCancel"
<1>1. /\ Phase(e) /\ histories[e] \in Seq(Events) /\ pc[e] = "running" /\ pc'[e] = "ended"
      /\ outcome'[e] = result /\ AppendHistory(e, event) /\ event \in Events
      /\ \A d \in ExecIds : d # e => pc'[d] = pc[d] /\ outcome'[d] = outcome[d]
      /\ UNCHANGED <<workflows, revisions, executions, running, ctx, job, strays, cancels,
                     madeWf, madeEx, open>>
  BY DEF IInv, TypeOK, End, Events
<1>2. TypeOK /\ TypeOK'
  <2>1. /\ pc' \in [ExecIds -> PCs]
        /\ outcome' \in [ExecIds -> {"none", "ok", "error"} \cup Statuses]
    BY DEF End, IInv, TypeOK, PCs
  <2> QED
    BY <1>1, <2>1, AppendTyped DEF IInv, TypeOK
<1>3. histories'[e] = Append(histories[e], event) /\ \A d \in ExecIds : d # e => histories'[d] = histories[d]
  BY <1>1, <1>2, AppendTyped
<1>4. ASSUME executions'[e] # None, result = "ok"
      PROVE  TellsAll(histories'[e])
  <2>1. Begun(histories[e]) /\ histories'[e] = Append(histories[e], "DidComplete")
    BY <1>1, <1>3, <1>4 DEF Phase, Told
  <2> DEFINE h == histories[e]
             g == Append(h, "DidComplete")
             n == Len(h) + 1
  <2>2. /\ Len(h) \in Nat /\ h \in Seq(Events) /\ "DidComplete" \in Events
    BY <1>1 DEF Events
  <2>3. /\ Len(g) = n /\ g[n] = "DidComplete" /\ \A m \in 1 .. Len(h) : g[m] = h[m]
        /\ g # << >>
    BY <2>2
  <2>4. h # << >> /\ h[1] = "WillStart" /\ \A m \in 2 .. Len(h) : h[m] \in {"Step", "Stray"}
    BY <2>1 DEF Begun
  <2>5. Len(h) >= 1
    BY <2>2, <2>4, EmptySeq
  <2> HIDE DEF g, h
  <2>6. 1 \in 1 .. Len(h) /\ (\A m \in 2 .. Len(h) : m \in 1 .. Len(h)) /\ n \in 2 .. Len(g)
    BY <2>2, <2>3, <2>5
  <2>7. ASSUME NEW m \in 2 .. Len(g)
        PROVE  g[m] \in (IF m < n THEN {"Step", "Stray"}
                         ELSE IF m > n THEN {"Stray"} ELSE {g[n]})
    <3>1. m < n => m \in 2 .. Len(h)
      BY <2>2, <2>3
    <3>2. ~ (m > n) /\ (~ (m < n) => m = n)
      BY <2>2, <2>3
    <3> QED
      BY <2>3, <2>4, <2>6, <3>1, <3>2
  <2>8. g[1] = "WillStart"
    BY <2>3, <2>4, <2>6
  <2>9. TellsAll(g)
    BY <2>3, <2>6, <2>7, <2>8 DEF TellsAll
  <2> QED
    BY <2>1, <2>9 DEF g, h
<1> HIDE DEF event
<1>5. /\ Recorded(executions'[e], pc'[e]) /\ Connected(e)'
      /\ Told(executions'[e], pc'[e], outcome'[e], histories'[e], strays'[e])
  BY <1>1, <1>4 DEF Phase, Recorded, Told, Connected
<1> QED
  BY <1>1, <1>2, <1>3, <1>5, OneMoves

LEMMA JudgeStep ==
  ASSUME IInv, NEW e \in ExecIds, Judge(e)
  PROVE  IInv'
<1>1. /\ Phase(e) /\ pc[e] = "ended" /\ pc'[e] = "judged"
      /\ outcome'[e] \in {"Succeeded", "Failed", "Canceled"}
      /\ (outcome'[e] = "Succeeded" => outcome[e] = "ok")
      /\ \A d \in ExecIds : d # e => pc'[d] = pc[d] /\ outcome'[d] = outcome[d]
      /\ UNCHANGED <<store, running, ctx, job, strays, cancels, madeWf, madeEx, open>>
  BY DEF IInv, TypeOK, Judge
<1>2. TypeOK'
  <2>1. /\ pc' \in [ExecIds -> PCs]
        /\ outcome' \in [ExecIds -> {"none", "ok", "error"} \cup Statuses]
    BY DEF Judge, IInv, TypeOK, PCs, Statuses
  <2> QED
    BY <1>1, <2>1 DEF IInv, TypeOK, store
<1>3. /\ Recorded(executions'[e], pc'[e]) /\ Connected(e)'
      /\ Told(executions'[e], pc'[e], outcome'[e], histories'[e], strays'[e])
  BY <1>1 DEF Phase, Recorded, Told, Connected, store
<1> QED
  BY <1>1, <1>2, <1>3, OneMoves DEF store

LEMMA FinishStep ==
  ASSUME IInv, NEW e \in ExecIds, Finish(e)
  PROVE  IInv'
<1>1. /\ Phase(e) /\ pc[e] = "judged" /\ pc'[e] = "leaving"
      /\ \A d \in ExecIds : d # e => pc'[d] = pc[d] /\ executions'[d] = executions[d]
      /\ UNCHANGED <<workflows, revisions, histories, running, ctx, job, outcome, strays,
                     cancels, madeWf, madeEx, open>>
  BY DEF IInv, TypeOK, Finish
<1>2. executions'[e] = IF Found(e)
                       THEN [executions[e] EXCEPT !.status = outcome[e],
                               !.succeededAt = @ \/ outcome[e] = "Succeeded",
                               !.failedAt = @ \/ outcome[e] = "Failed"]
                       ELSE executions[e]
  BY DEF IInv, TypeOK, Finish, Found
<1>3. (Found(e) => executions[e] \in Execution) /\ outcome[e] \in {"Succeeded", "Failed", "Canceled"}
  BY <1>1 DEF IInv, TypeOK, Found, Phase, Told
<1>4. Found(e) => executions'[e] \in Execution
  BY <1>2, <1>3 DEF Execution, Statuses
<1>5. TypeOK'
  <2>1. executions' \in [ExecIds -> Execution \cup {None}]
    <3>1. executions' = [executions EXCEPT ![e] = executions'[e]]
      BY <1>2 DEF Finish, IInv, TypeOK
    <3>2. executions'[e] \in Execution \cup {None}
      BY <1>2, <1>4 DEF Found
    <3> QED
      BY <3>1, <3>2 DEF IInv, TypeOK
  <2>2. pc' \in [ExecIds -> PCs]
    BY DEF Finish, IInv, TypeOK, PCs
  <2> QED
    BY <1>1, <2>1, <2>2 DEF IInv, TypeOK
<1>6. /\ Recorded(executions'[e], pc'[e]) /\ Connected(e)'
      /\ Told(executions'[e], pc'[e], outcome'[e], histories'[e], strays'[e])
      /\ executions'[e] # None => executions[e] # None /\ executions'[e].wf = executions[e].wf
  <2>1. CASE Found(e)
    <3>1. executions[e] # None
      BY <2>1 DEF Found
    <3>2. /\ executions'[e].status = outcome[e] /\ executions'[e].runAt = executions[e].runAt
          /\ executions'[e].succeededAt <=> executions[e].succeededAt \/ outcome[e] = "Succeeded"
          /\ executions'[e].failedAt <=> executions[e].failedAt \/ outcome[e] = "Failed"
          /\ executions'[e].wf = executions[e].wf
      BY <1>2, <1>3, <2>1 DEF Execution
    <3> QED
      BY <1>1, <1>3, <3>1, <3>2 DEF Phase, Recorded, Told, Connected
  <2>2. CASE ~ Found(e)
    BY <1>1, <1>2, <2>2 DEF Phase, Recorded, Told, Connected, Found
  <2> QED
    BY <2>1, <2>2
<1> QED
  BY <1>1, <1>5, <1>6, OneMoves

LEMMA LeaveStep ==
  ASSUME IInv, NEW e \in ExecIds, Leave(e)
  PROVE  IInv'
<1>1. /\ Phase(e) /\ pc[e] = "leaving" /\ pc'[e] = "done" /\ e \notin running' /\ ctx'[e] = "none"
      /\ \A d \in ExecIds : d # e => pc'[d] = pc[d] /\ ctx'[d] = ctx[d]
                             /\ outcome'[d] = outcome[d] /\ (d \in running' <=> d \in running)
      /\ UNCHANGED <<store, job, strays, cancels, madeWf, madeEx, open>>
  BY DEF IInv, TypeOK, Leave
<1>2. TypeOK'
  <2>1. /\ pc' \in [ExecIds -> PCs] /\ ctx' \in [ExecIds -> Contexts] /\ running' \subseteq ExecIds
        /\ outcome' \in [ExecIds -> {"none", "ok", "error"} \cup Statuses]
    BY DEF Leave, IInv, TypeOK, PCs, Contexts
  <2> QED
    BY <1>1, <2>1 DEF IInv, TypeOK, store
<1>3. /\ Recorded(executions'[e], pc'[e]) /\ Connected(e)'
      /\ Told(executions'[e], pc'[e], outcome'[e], histories'[e], strays'[e])
  BY <1>1 DEF Phase, Recorded, Told, Connected, store
<1> QED
  BY <1>1, <1>2, <1>3, OneMoves DEF store

\* Contexts end, and that is all that changes.
LEMMA ContextsEnd ==
  ASSUME IInv, UNCHANGED <<store, running, job, pc, outcome, strays, madeWf, madeEx>>,
         cancels' \in [Clients -> Cancel \cup {None}], open' \in BOOLEAN,
         ctx' \in [ExecIds -> Contexts], \A e \in ExecIds : ctx'[e] = "none" <=> ctx[e] = "none"
  PROVE  IInv'
<1>1. TypeOK'
  BY DEF IInv, TypeOK, store
<1>2. ASSUME NEW e \in ExecIds
      PROVE  Phase(e)' /\ Placed(e)'
  BY DEF IInv, Phase, Connected, Placed, Found, Exists, store
<1> QED
  BY <1>1, <1>2 DEF IInv, Exists, store

LEMMA ExpireStep ==
  ASSUME IInv, NEW e \in ExecIds, Expire(e)
  PROVE  IInv'
<1>1. ctx' \in [ExecIds -> Contexts] /\ \A d \in ExecIds : ctx'[d] = "none" <=> ctx[d] = "none"
  BY DEF IInv, TypeOK, Expire, Contexts
<1>2. cancels' \in [Clients -> Cancel \cup {None}] /\ open' \in BOOLEAN
  BY DEF IInv, TypeOK, Expire
<1> QED
  BY <1>1, <1>2, ContextsEnd DEF Expire

LEMMA CloseStep ==
  ASSUME IInv, Close
  PROVE  IInv'
<1>1. ctx' \in [ExecIds -> Contexts] /\ \A d \in ExecIds : ctx'[d] = "none" <=> ctx[d] = "none"
  BY DEF IInv, TypeOK, Close, Contexts
<1>2. cancels' \in [Clients -> Cancel \cup {None}] /\ open' \in BOOLEAN
  BY DEF IInv, TypeOK, Close
<1> QED
  BY <1>1, <1>2, ContextsEnd DEF Close

LEMMA CancelRunStep ==
  ASSUME IInv, NEW c \in Clients, NEW w \in WorkflowIds, NEW e \in 1 .. madeEx,
         CancelRun(c, w, e)
  PROVE  IInv'
<1>1. e \in ExecIds
  BY ConstantsAssumption DEF IInv, TypeOK, ExecIds
<1>2. ctx' \in [ExecIds -> Contexts] /\ \A d \in ExecIds : ctx'[d] = "none" <=> ctx[d] = "none"
  BY DEF IInv, TypeOK, CancelRun, Contexts
<1>3. cancels' \in [Clients -> Cancel \cup {None}] /\ open' \in BOOLEAN
  BY <1>1 DEF IInv, TypeOK, CancelRun, Cancel
<1> QED
  BY <1>2, <1>3, ContextsEnd DEF CancelRun

\* Executions are cancelled or go, and nothing else of them changes.
LEMMA ExecutionsEnd ==
  ASSUME IInv, TypeOK', UNCHANGED <<revisions, exec, madeWf, madeEx>>,
         \A e \in ExecIds : executions'[e] # None =>
            /\ executions[e] # None /\ executions'[e].wf = executions[e].wf
            /\ histories'[e] = histories[e]
            /\ workflows'[executions[e].wf] = workflows[executions[e].wf]
            /\ \/ executions'[e] = executions[e]
               \/ /\ executions[e].status \in Active
                  /\ executions'[e] = [executions[e] EXCEPT !.status = "Canceled",
                                                            !.canceledAt = TRUE],
         \A e \in ExecIds : histories'[e] \in {histories[e], << >>},
         \A w \in WorkflowIds : workflows'[w] \in {workflows[w], None}
  PROVE  IInv'
<1>1. ASSUME NEW e \in ExecIds
      PROVE  Phase(e)'
  <2>1. Phase(e) /\ Connected(e)'
    BY DEF IInv, Phase, Connected, exec
  <2>2. CASE executions'[e] = None
    BY <2>1, <2>2 DEF Phase, Recorded, Told, exec
  <2>3. CASE executions'[e] # None /\ executions'[e] = executions[e]
    BY <2>1, <2>3 DEF Phase, Recorded, Told, exec
  <2>4. CASE executions'[e] # None /\ executions'[e] # executions[e]
    <3>1. executions[e] \in Execution /\ histories'[e] = histories[e]
      <4>1. executions[e] # None /\ executions[e] \in Execution \cup {None}
        BY <2>4 DEF IInv, TypeOK
      <4> QED
        BY <2>4, <4>1
    <3>2. /\ executions[e].status \in Active
          /\ executions'[e].status = "Canceled" /\ executions'[e].runAt = executions[e].runAt
          /\ executions'[e].succeededAt = executions[e].succeededAt
          /\ executions'[e].failedAt = executions[e].failedAt
          /\ executions'[e].canceledAt
      BY <2>4, <3>1 DEF Execution
    <3>3. Recorded(executions[e], pc[e]) /\ executions[e] # None /\ pc'[e] = pc[e]
      BY <2>1, <2>4 DEF Phase, exec
    <3>4. Recorded(executions'[e], pc'[e])
      BY <3>2, <3>3 DEF Recorded, Active
    <3>5. Told(executions'[e], pc'[e], outcome'[e], histories'[e], strays'[e])
      BY <2>1, <3>1, <3>2, <3>3 DEF Phase, Told, exec
    <3> QED
      BY <2>1, <3>4, <3>5 DEF Phase, exec
  <2> QED
    BY <2>2, <2>3, <2>4
<1>2. ASSUME NEW e \in ExecIds
      PROVE  Placed(e)'
  <2>1. Placed(e) /\ UNCHANGED <<revisions, job, pc>>
    BY DEF IInv, exec
  <2> SUFFICES ASSUME executions'[e] # None
               PROVE  Placed(e)'
    BY DEF Placed, Found
  <2>2. /\ executions[e] # None /\ executions'[e].wf = executions[e].wf
        /\ workflows'[executions[e].wf] = workflows[executions[e].wf]
    OBVIOUS
  <2> QED
    BY <2>1, <2>2 DEF Placed, Found, Exists
<1>3. ASSUME NEW w \in WorkflowIds, Exists(w)'
      PROVE  w <= madeWf'
  BY <1>3 DEF IInv, Exists
<1> QED
  BY <1>1, <1>2, <1>3 DEF IInv

LEMMA CancelExecutionStep ==
  ASSUME IInv, NEW c \in Clients, CancelExecution(c)
  PROVE  IInv'
<1> DEFINE e == cancels[c].id
<1>1. /\ e \in ExecIds /\ cancels' \in [Clients -> Cancel \cup {None}]
      /\ UNCHANGED <<workflows, revisions, histories, exec, madeWf, madeEx, open>>
  BY DEF CancelExecution, IInv, TypeOK, Cancel
<1> DEFINE x == IF Found(e) /\ executions[e].wf = cancels[c].wf /\ executions[e].status \in Active
                THEN [executions[e] EXCEPT !.status = "Canceled", !.canceledAt = TRUE]
                ELSE executions[e]
<1>2. executions' = [executions EXCEPT ![e] = x]
  BY <1>1 DEF CancelExecution, IInv, TypeOK
<1>3. /\ x \in Execution \cup {None} /\ (executions[e] = None => x = None)
      /\ executions[e] # None =>
           /\ x.wf = executions[e].wf
           /\ \/ x = executions[e]
              \/ /\ executions[e].status \in Active
                 /\ x = [executions[e] EXCEPT !.status = "Canceled", !.canceledAt = TRUE]
  <2>1. executions[e] \in Execution \cup {None}
    BY <1>1 DEF IInv, TypeOK
  <2> QED
    BY <2>1 DEF Execution, Statuses, Found
<1> HIDE DEF x, e
<1>4. TypeOK' /\ \A d \in ExecIds : executions'[d] = IF d = e THEN x ELSE executions[d]
  BY <1>1, <1>2, <1>3 DEF IInv, TypeOK, exec
<1> QED
  BY <1>1, <1>3, <1>4, ExecutionsEnd

LEMMA DeleteExecutionStep ==
  ASSUME IInv, NEW e \in ExecIds, DeleteExecution(e)
  PROVE  IInv'
<1>1. /\ \A d \in ExecIds : /\ executions'[d] = IF d = e THEN None ELSE executions[d]
                            /\ histories'[d] = IF d = e THEN << >> ELSE histories[d]
      /\ UNCHANGED <<workflows, revisions, exec, cancels, madeWf, madeEx, open>>
  BY DEF DeleteExecution, IInv, TypeOK
<1>2. TypeOK'
  BY <1>1 DEF DeleteExecution, IInv, TypeOK, exec
<1> QED
  BY <1>1, <1>2, ExecutionsEnd

-----------------------------------------------------------------------------
(* Steps of the workflows *)

\* A workflow goes with its executions, and they are over.
LEMMA DeleteWorkflowStep ==
  ASSUME IInv, NEW w \in WorkflowIds, DeleteWorkflow(w)
  PROVE  IInv'
<1>1. /\ \A e \in ExecIds : /\ executions'[e] = IF e \in Of(w) THEN None ELSE executions[e]
                            /\ histories'[e] = IF e \in Of(w) THEN << >> ELSE histories[e]
      /\ \A v \in WorkflowIds : /\ workflows'[v] = IF v = w THEN None ELSE workflows[v]
                                /\ revisions'[v] = IF v = w THEN << >> ELSE revisions[v]
      /\ UNCHANGED <<exec, cancels, madeWf, madeEx, open>>
  BY DEF DeleteWorkflow, IInv, TypeOK
<1>2. TypeOK'
  <2>1. executions' \in [ExecIds -> Execution \cup {None}]
    BY DEF DeleteWorkflow, IInv, TypeOK
  <2>2. histories' \in [ExecIds -> Seq(Events)]
    BY DEF DeleteWorkflow, IInv, TypeOK
  <2>3. workflows' \in [WorkflowIds -> BOOLEAN \cup {None}]
        /\ revisions' \in [WorkflowIds -> Seq(Aliases \cup {None})]
    BY DEF DeleteWorkflow, IInv, TypeOK
  <2>4. \A v \in WorkflowIds : \A r, q \in 1 .. Len(revisions'[v]) :
          revisions'[v][r] # None /\ revisions'[v][r] = revisions'[v][q] => r = q
    BY <1>1 DEF IInv, TypeOK
  <2> QED
    BY <1>1, <2>1, <2>2, <2>3, <2>4 DEF IInv, TypeOK, exec
<1>3. \A e \in ExecIds : executions'[e] # None =>
        /\ executions[e] # None /\ executions[e] \in Execution /\ executions[e].wf # w
        /\ executions'[e] = executions[e]
  BY <1>1 DEF Of, Found, IInv, TypeOK
<1>4. ASSUME NEW e \in ExecIds
      PROVE  Phase(e)'
  BY <1>1, <1>3 DEF IInv, Phase, Recorded, Told, Connected, exec, Of, Found
<1>5. ASSUME NEW e \in ExecIds
      PROVE  Placed(e)'
  <2>1. executions'[e] # None => executions[e].wf \in WorkflowIds
    BY <1>3 DEF Execution
  <2> QED
    BY <1>1, <1>3, <2>1 DEF IInv, Placed, Found, Exists, exec
<1>6. ASSUME NEW v \in WorkflowIds, Exists(v)'
      PROVE  v <= madeWf'
  BY <1>1, <1>6 DEF IInv, Exists
<1> QED
  BY <1>2, <1>4, <1>5, <1>6 DEF IInv

\* Workflows come and change, and keep what they had.
LEMMA WorkflowsGrow ==
  ASSUME IInv, UNCHANGED <<executions, histories, exec, cancels, madeEx, open>>,
         workflows' \in [WorkflowIds -> BOOLEAN \cup {None}],
         revisions' \in [WorkflowIds -> Seq(Aliases \cup {None})],
         \A w \in WorkflowIds : \A r, q \in 1 .. Len(revisions'[w]) :
            revisions'[w][r] # None /\ revisions'[w][r] = revisions'[w][q] => r = q,
         madeWf' \in 0 .. MaxWorkflows,
         \A w \in WorkflowIds :
            /\ Exists(w) => Exists(w)' /\ Len(revisions'[w]) >= Len(revisions[w])
            /\ Exists(w)' => w <= madeWf'
  PROVE  IInv'
<1>1. TypeOK'
  BY DEF IInv, TypeOK, exec
<1>2. ASSUME NEW e \in ExecIds
      PROVE  Phase(e)'
  BY DEF IInv, Phase, Connected, exec
<1>3. ASSUME NEW e \in ExecIds, Found(e)'
      PROVE  Placed(e)'
  <2>1. executions[e] \in Execution /\ Placed(e) /\ Found(e)
    BY <1>3 DEF IInv, TypeOK, Found
  <2>2. executions[e].wf \in WorkflowIds
    BY <2>1 DEF Execution
  <2>3. Len(revisions[executions[e].wf]) \in Nat /\ Len(revisions'[executions[e].wf]) \in Nat
    BY <2>2 DEF IInv, TypeOK
  <2> QED
    BY <2>1, <2>2, <2>3 DEF Placed, Found, exec
<1>4. ASSUME NEW e \in ExecIds
      PROVE  Placed(e)'
  BY <1>3 DEF Placed
<1> QED
  BY <1>1, <1>2, <1>4 DEF IInv

LEMMA CreateWorkflowStep ==
  ASSUME IInv, NEW publish \in BOOLEAN, NEW alias \in Aliases \cup {None},
         CreateWorkflow(publish, alias)
  PROVE  IInv'
<1> DEFINE new == madeWf + 1
<1>1. /\ madeWf \in Nat /\ new \in WorkflowIds /\ madeWf' = new /\ madeWf' \in 0 .. MaxWorkflows
      /\ \A w \in WorkflowIds : w \in Nat
  BY ConstantsAssumption DEF CreateWorkflow, IInv, TypeOK, WorkflowIds
<1>2. /\ \A w \in WorkflowIds : /\ workflows'[w] = IF w = new THEN publish ELSE workflows[w]
                                /\ revisions'[w] = IF w = new THEN <<alias>> ELSE revisions[w]
      /\ UNCHANGED <<executions, histories, exec, cancels, madeEx, open>>
  BY <1>1 DEF CreateWorkflow, IInv, TypeOK
<1>3. /\ workflows' \in [WorkflowIds -> BOOLEAN \cup {None}]
      /\ revisions' \in [WorkflowIds -> Seq(Aliases \cup {None})]
  <2>1. <<alias>> \in Seq(Aliases \cup {None})
    OBVIOUS
  <2> QED
    BY <2>1 DEF CreateWorkflow, IInv, TypeOK
<1>4. \A w \in WorkflowIds : \A r, q \in 1 .. Len(revisions'[w]) :
        revisions'[w][r] # None /\ revisions'[w][r] = revisions'[w][q] => r = q
  <2> SUFFICES ASSUME NEW w \in WorkflowIds, NEW r \in 1 .. Len(revisions'[w]),
                      NEW q \in 1 .. Len(revisions'[w]),
                      revisions'[w][r] # None, revisions'[w][r] = revisions'[w][q]
               PROVE  r = q
    OBVIOUS
  <2>1. CASE w = new
    <3>1. revisions'[w] = <<alias>>
      BY <1>2, <2>1
    <3> QED
      BY <3>1
  <2>2. CASE w # new
    BY <1>2, <2>2 DEF IInv, TypeOK
  <2> QED
    BY <2>1, <2>2
<1>5. \A w \in WorkflowIds :
        /\ Exists(w) => w # new
        /\ Exists(w) => Exists(w)' /\ Len(revisions'[w]) >= Len(revisions[w])
        /\ Exists(w)' => w <= madeWf'
  <2>1. \A w \in WorkflowIds : Len(revisions[w]) \in Nat
    BY DEF IInv, TypeOK
  <2> QED
    BY <1>1, <1>2, <2>1 DEF IInv, Exists
<1> QED
  BY <1>1, <1>2, <1>3, <1>4, <1>5, WorkflowsGrow

LEMMA UpdateWorkflowStep ==
  ASSUME IInv, NEW w \in WorkflowIds, NEW publish \in BOOLEAN, UpdateWorkflow(w, publish)
  PROVE  IInv'
<1>1. /\ \A v \in WorkflowIds : workflows'[v] = IF v = w THEN publish ELSE workflows[v]
      /\ workflows' \in [WorkflowIds -> BOOLEAN \cup {None}] /\ Exists(w)
      /\ UNCHANGED <<revisions, executions, histories, exec, cancels, madeWf, madeEx, open>>
  BY DEF UpdateWorkflow, IInv, TypeOK
<1>2. publish # None
  BY NoneAssumption, <1>1 DEF IInv, TypeOK
<1> QED
  BY <1>1, <1>2, WorkflowsGrow DEF IInv, TypeOK, Exists

LEMMA CreateRevisionStep ==
  ASSUME IInv, NEW w \in WorkflowIds, NEW alias \in Aliases \cup {None}, CreateRevision(w, alias)
  PROVE  IInv'
<1> DEFINE old == revisions[w]
<1>1. /\ old \in Seq(Aliases \cup {None}) /\ Len(old) \in Nat
      /\ \A v \in WorkflowIds : revisions'[v] = IF v = w THEN Append(old, alias) ELSE revisions[v]
      /\ revisions' \in [WorkflowIds -> Seq(Aliases \cup {None})]
      /\ alias # None => \A r \in 1 .. Len(old) : r # 0 => old[r] # alias
      /\ UNCHANGED <<workflows, executions, histories, exec, cancels, madeWf, madeEx, open>>
  <2>1. old \in Seq(Aliases \cup {None}) /\ revisions \in [WorkflowIds -> Seq(Aliases \cup {None})]
    BY DEF IInv, TypeOK
  <2>2. Append(old, alias) \in Seq(Aliases \cup {None})
    BY <2>1, AppendProperties
  <2> QED
    BY <2>1, <2>2 DEF CreateRevision, Taken
<1>2. /\ Len(Append(old, alias)) = Len(old) + 1
      /\ \A r \in 1 .. Len(old) : Append(old, alias)[r] = old[r]
      /\ Append(old, alias)[Len(old) + 1] = alias
  BY <1>1, AppendProperties
<1>3. ASSUME NEW r \in 1 .. Len(old) + 1, NEW q \in 1 .. Len(old) + 1,
             Append(old, alias)[r] # None, Append(old, alias)[r] = Append(old, alias)[q]
      PROVE  r = q
  <2>1. CASE r \in 1 .. Len(old) /\ q \in 1 .. Len(old)
    BY <1>2, <1>3, <2>1 DEF IInv, TypeOK
  <2>2. CASE r \in 1 .. Len(old) /\ q = Len(old) + 1
    BY <1>1, <1>2, <1>3, <2>2
  <2>3. CASE r = Len(old) + 1 /\ q \in 1 .. Len(old)
    BY <1>1, <1>2, <1>3, <2>3
  <2> QED
    BY <1>1, <2>1, <2>2, <2>3
<1>4. \A v \in WorkflowIds : \A r, q \in 1 .. Len(revisions'[v]) :
        revisions'[v][r] # None /\ revisions'[v][r] = revisions'[v][q] => r = q
  <2> SUFFICES ASSUME NEW v \in WorkflowIds, NEW r \in 1 .. Len(revisions'[v]),
                      NEW q \in 1 .. Len(revisions'[v]),
                      revisions'[v][r] # None, revisions'[v][r] = revisions'[v][q]
               PROVE  r = q
    OBVIOUS
  <2>1. CASE v = w
    <3>1. revisions'[v] = Append(old, alias)
      BY <1>1, <2>1
    <3> QED
      BY <1>2, <1>3, <3>1
  <2>2. CASE v # w
    BY <1>1, <2>2 DEF IInv, TypeOK
  <2> QED
    BY <2>1, <2>2
<1>5. \A v \in WorkflowIds : Len(revisions'[v]) >= Len(revisions[v])
  <2>1. \A v \in WorkflowIds : Len(revisions[v]) \in Nat
    BY DEF IInv, TypeOK
  <2> QED
    BY <1>1, <1>2, <2>1
<1> QED
  BY <1>1, <1>4, <1>5, WorkflowsGrow DEF IInv, TypeOK, Exists

LEMMA SetRevisionAliasStep ==
  ASSUME IInv, NEW w \in WorkflowIds, NEW n \in 1 .. MaxRevisions,
         NEW alias \in Aliases \cup {None}, SetRevisionAlias(w, n, alias)
  PROVE  IInv'
<1> DEFINE old == revisions[w]
           new == [old EXCEPT ![n] = alias]
<1>1. /\ old \in Seq(Aliases \cup {None}) /\ n \in 1 .. Len(old)
      /\ revisions' = [revisions EXCEPT ![w] = new]
      /\ alias # None => \A r \in 1 .. Len(old) : r # n => old[r] # alias
      /\ UNCHANGED <<workflows, executions, histories, exec, cancels, madeWf, madeEx, open>>
  BY DEF SetRevisionAlias, Taken, IInv, TypeOK
<1>2. /\ new \in Seq(Aliases \cup {None}) /\ Len(new) = Len(old) /\ Len(old) \in Nat
      /\ \A r \in 1 .. Len(old) : new[r] = IF r = n THEN alias ELSE old[r]
  BY <1>1
<1> HIDE DEF new
<1>3. \A r, q \in 1 .. Len(new) : new[r] # None /\ new[r] = new[q] => r = q
  <2>1. \A r, q \in 1 .. Len(old) : old[r] # None /\ old[r] = old[q] => r = q
    BY DEF IInv, TypeOK
  <2> QED
    BY <1>1, <1>2, <2>1
<1>4. /\ \A v \in WorkflowIds : revisions'[v] = IF v = w THEN new ELSE revisions[v]
      /\ revisions' \in [WorkflowIds -> Seq(Aliases \cup {None})]
  BY <1>1, <1>2 DEF IInv, TypeOK
<1>5. \A v \in WorkflowIds : \A r, q \in 1 .. Len(revisions'[v]) :
        revisions'[v][r] # None /\ revisions'[v][r] = revisions'[v][q] => r = q
  <2> SUFFICES ASSUME NEW v \in WorkflowIds, NEW r \in 1 .. Len(revisions'[v]),
                      NEW q \in 1 .. Len(revisions'[v]),
                      revisions'[v][r] # None, revisions'[v][r] = revisions'[v][q]
               PROVE  r = q
    OBVIOUS
  <2>1. CASE v = w
    <3>1. revisions'[v] = new
      BY <1>4, <2>1
    <3> QED
      BY <1>3, <3>1
  <2>2. CASE v # w
    BY <1>4, <2>2 DEF IInv, TypeOK
  <2> QED
    BY <2>1, <2>2
<1>6. \A v \in WorkflowIds : Len(revisions'[v]) >= Len(revisions[v])
  <2>1. \A v \in WorkflowIds : Len(revisions[v]) \in Nat
    BY DEF IInv, TypeOK
  <2> QED
    BY <1>2, <1>4, <2>1
<1> QED
  BY <1>1, <1>4, <1>5, <1>6, WorkflowsGrow DEF IInv, TypeOK, Exists

\* An execution starts with nothing known of it, of a revision there is.
LEMMA CreateExecutionStep ==
  ASSUME IInv, NEW w \in WorkflowIds, NEW n \in 1 .. MaxRevisions, CreateExecution(w, n)
  PROVE  IInv'
<1> DEFINE new == madeEx + 1
           x == [wf |-> w, status |-> IF DataPlane THEN "Queued" ELSE "Succeeded",
                 rev |-> n, runAt |-> ~ DataPlane,
                 succeededAt |-> ~ DataPlane, failedAt |-> FALSE, canceledAt |-> FALSE]
           p == IF DataPlane THEN "created" ELSE "done"
           j == [wf |-> w, rev |-> n]
<1>1. /\ madeEx \in Nat /\ new \in ExecIds /\ madeEx' = new /\ madeEx' \in 0 .. MaxExecs
      /\ \A e \in ExecIds : e \in Nat
  BY ConstantsAssumption DEF CreateExecution, IInv, TypeOK, ExecIds
<1>2. /\ executions' = [executions EXCEPT ![new] = x] /\ pc' = [pc EXCEPT ![new] = p]
      /\ job' = [job EXCEPT ![new] = j] /\ Exists(w) /\ n \in 1 .. Len(revisions[w])
      /\ UNCHANGED <<workflows, revisions, histories, running, ctx, outcome, strays, cancels,
                     madeWf, open>>
  BY DEF CreateExecution
<1>3. /\ x \in Execution /\ x # None /\ j \in Job /\ p \in PCs
      /\ x.wf = w /\ j.wf = w /\ j.rev = n
  <2>1. x \in Execution
    <3>1. (~ DataPlane) \in BOOLEAN /\ (IF DataPlane THEN "Queued" ELSE "Succeeded") \in Statuses
      BY DEF Statuses
    <3> QED
      BY <3>1, Zenon DEF Execution
  <2>2. x # None
    BY <2>1, NoneAssumption
  <2>3. x.wf = w /\ j.wf = w /\ j.rev = n /\ j \in Job /\ p \in PCs
    BY DEF Job, PCs
  <2> QED
    BY <2>1, <2>2, <2>3
<1>4. Recorded(x, p) /\ p # "none" /\ p \in {"created", "done"} /\ (p = "done" => ~ DataPlane)
  BY ConstantsAssumption DEF Recorded
<1> HIDE DEF x, p, j
<1>5. \A e \in ExecIds : /\ executions'[e] = IF e = new THEN x ELSE executions[e]
                         /\ pc'[e] = IF e = new THEN p ELSE pc[e]
                         /\ job'[e] = IF e = new THEN j ELSE job[e]
  BY <1>2 DEF IInv, TypeOK
<1>6. TypeOK'
  <2>1. executions' \in [ExecIds -> Execution \cup {None}] /\ pc' \in [ExecIds -> PCs]
        /\ job' \in [ExecIds -> Job \cup {None}]
    BY <1>2, <1>3 DEF IInv, TypeOK
  <2> QED
    BY <1>1, <1>2, <2>1 DEF IInv, TypeOK
<1>7. \A e \in ExecIds : (e > madeEx' <=> e > madeEx /\ e # new)
  BY <1>1
<1>8. pc[new] = "none" /\ Phase(new)
  <2>1. new > madeEx /\ Phase(new)
    BY <1>1 DEF IInv
  <2> QED
    BY <2>1 DEF Phase
<1>9. Told(x, p, outcome[new], histories[new], strays[new])
  <2>1. histories[new] = << >> /\ strays[new] = 0
    BY <1>8 DEF Phase, Told
  <2> QED
    BY <1>4, <2>1 DEF Told
<1>10. ASSUME NEW e \in ExecIds
       PROVE  Phase(e)'
  <2>1. CASE e = new
    BY <1>1, <1>2, <1>4, <1>5, <1>8, <1>9, <2>1 DEF Phase, Connected
  <2>2. CASE e # new
    <3>1. Phase(e)
      BY DEF IInv
    <3> QED
      BY <1>2, <1>5, <1>7, <2>2, <3>1 DEF Phase, Connected
  <2> QED
    BY <2>1, <2>2
<1>11. ASSUME NEW e \in ExecIds
       PROVE  Placed(e)'
  <2>1. CASE e = new
    BY <1>2, <1>3, <1>5, <2>1 DEF Placed, Exists
  <2>2. CASE e # new
    <3>1. Placed(e)
      BY DEF IInv
    <3> QED
      BY <1>2, <1>5, <2>2, <3>1 DEF Placed, Found, Exists
  <2> QED
    BY <2>1, <2>2
<1> QED
  BY <1>2, <1>6, <1>10, <1>11 DEF IInv, Exists

-----------------------------------------------------------------------------

LEMMA InitOK == Init => IInv
<1> SUFFICES ASSUME Init
             PROVE  IInv
  OBVIOUS
<1>1. TypeOK
  BY ConstantsAssumption DEF Init, TypeOK, PCs, Contexts
<1>2. ASSUME NEW e \in ExecIds
      PROVE  Phase(e) /\ Placed(e)
  <2>1. e > madeEx
    BY <1>2, ConstantsAssumption DEF Init, ExecIds
  <2> QED
    BY <2>1 DEF Init, Phase, Recorded, Told, Connected, Placed, Found
<1> QED
  BY <1>1, <1>2 DEF Init, IInv, Exists

LEMMA StutterStep ==
  ASSUME IInv, UNCHANGED vars
  PROVE  IInv'
<1>1. cancels' \in [Clients -> Cancel \cup {None}] /\ open' \in BOOLEAN
      /\ ctx' \in [ExecIds -> Contexts]
  BY DEF IInv, TypeOK, vars, exec
<1> QED
  BY <1>1, ContextsEnd DEF vars, store, exec

LEMMA StepOK ==
  ASSUME IInv, Next
  PROVE  IInv'
<1>1. ASSUME NEW e \in ExecIds, Handler(e) \/ Goroutine(e) \/ Branches(e)
      PROVE  IInv'
  BY <1>1, GetRevisionStep, SubmitStep, BeginStep, EmitStep, EndStep, JudgeStep, FinishStep,
     LeaveStep, LeaveBranchStep, StrayStep, StrayEndStep DEF Handler, Goroutine, Branches
<1> QED
  BY <1>1, CreateWorkflowStep, CreateRevisionStep, SetRevisionAliasStep, UpdateWorkflowStep,
     DeleteWorkflowStep, CreateExecutionStep, CancelRunStep, ExpireStep, DeleteExecutionStep,
     CancelExecutionStep, CloseStep DEF Next

LEMMA Invariance == Spec => []IInv
<1>1. IInv /\ [Next]_vars => IInv'
  BY StepOK, StutterStep
<1> QED
  BY <1>1, InitOK, PTL DEF Spec

\* Every variable keeps its type, and an alias names one revision at most.
THEOREM TypeCorrect == Spec => []TypeOK
  BY Invariance, PTL DEF IInv

\* No execution is left Queued or Running with nothing that will finish it, and
\* the executor holds a cancel function for exactly the goroutines there are.
THEOREM NoneAbandoned == Spec => []ActiveOwned
<1>1. IInv => ActiveOwned
  BY DEF IInv, Phase, Recorded, Connected, ActiveOwned, IsActive, Active, Found
<1> QED
  BY <1>1, Invariance, PTL

\* However cancellation, deletion and completion race, an execution has the
\* timestamp of success just if it succeeded and that of failure just if it
\* failed, none while it waits, and its whole history if it succeeded.  CanceledAt
\* may stand beside either outcome.
THEOREM OutcomesAgree == Spec => []OutcomeAgrees
<1>1. IInv => OutcomeAgrees
  <2> SUFFICES ASSUME IInv, NEW e \in ExecIds, Found(e)
               PROVE  LET x == executions[e]
                      IN  /\ x.succeededAt <=> x.status = "Succeeded"
                          /\ x.failedAt <=> x.status = "Failed"
                          /\ x.status \in {"Running", "Succeeded", "Failed"} => x.runAt
                          /\ x.status = "Queued" => ~ x.runAt /\ ~ x.canceledAt
                          /\ x.status = "Canceled" => x.canceledAt \/ x.runAt
                          /\ DataPlane /\ x.status = "Succeeded" => TellsAll(histories[e])
    BY DEF OutcomeAgrees
  <2>1. Phase(e) /\ pc[e] \in PCs /\ executions[e] # None
    BY DEF IInv, TypeOK, Found
  <2> QED
    BY <2>1 DEF Phase, Recorded, Told, PCs
<1> QED
  BY <1>1, Invariance, PTL

-----------------------------------------------------------------------------
(* What is promised of an execution *)

\* The statuses that Lifecycle sees.
StatusOf == [e \in ExecIds |-> IF Found(e) THEN executions[e].status ELSE None]
Made     == 1 .. madeEx

\* Most steps promise nothing and pay nothing.
LEMMA NothingPromised ==
  ASSUME UNCHANGED madeEx,
         \A e \in ExecIds : /\ Found(e)' = Found(e)
                            /\ Found(e) => executions'[e].status = executions[e].status
                            /\ e \in Owed' <=> e \in Owed
  PROVE  UNCHANGED L!life
<1>1. StatusOf' = StatusOf
  BY DEF StatusOf
<1>2. Owed' = Owed
  BY DEF Owed
<1> QED
  BY <1>1, <1>2 DEF L!life, StatusOf

\* What one execution's status becomes, when the others keep theirs.
LEMMA OneStatus ==
  ASSUME NEW e \in ExecIds, NEW s,
         \A d \in ExecIds : d # e => executions'[d] = executions[d],
         (IF Found(e)' THEN executions'[e].status ELSE None) = s
  PROVE  StatusOf' = [StatusOf EXCEPT ![e] = s]
  BY DEF StatusOf, Found

\* An execution is made, with an outcome to come or with one.
LEMMA Makes ==
  ASSUME IInv, NEW w \in WorkflowIds, NEW n \in 1 .. MaxRevisions, CreateExecution(w, n)
  PROVE  L!Next
<1> DEFINE new == madeEx + 1
           x == [wf |-> w, status |-> IF DataPlane THEN "Queued" ELSE "Succeeded",
                 rev |-> n, runAt |-> ~ DataPlane,
                 succeededAt |-> ~ DataPlane, failedAt |-> FALSE, canceledAt |-> FALSE]
<1>1. madeEx \in Nat /\ new \in ExecIds /\ madeEx' = new
  BY ConstantsAssumption DEF CreateExecution, IInv, TypeOK, ExecIds
<1>2. x # None /\ x.status = IF DataPlane THEN "Queued" ELSE "Succeeded"
  <2>1. (~ DataPlane) \in BOOLEAN /\ (IF DataPlane THEN "Queued" ELSE "Succeeded") \in Statuses
    BY DEF Statuses
  <2>2. x \in Execution
    BY <2>1, Zenon DEF Execution
  <2> QED
    BY <2>2, NoneAssumption
<1>3. /\ executions' = [executions EXCEPT ![new] = x]
      /\ pc' = [pc EXCEPT ![new] = IF DataPlane THEN "created" ELSE "done"]
  BY DEF CreateExecution
<1> HIDE DEF x
<1>4. /\ \A e \in ExecIds : executions'[e] = IF e = new THEN x ELSE executions[e]
      /\ \A e \in ExecIds :
           pc'[e] = IF e = new THEN (IF DataPlane THEN "created" ELSE "done") ELSE pc[e]
  BY <1>3 DEF IInv, TypeOK
<1>5. StatusOf' = [StatusOf EXCEPT ![new] = IF DataPlane THEN "Queued" ELSE "Succeeded"]
  BY <1>1, <1>2, <1>4, OneStatus DEF Found
<1>6. new \notin Made /\ Made' = Made \cup {new}
  BY <1>1 DEF Made
<1>7. pc[new] = "none"
  BY <1>1 DEF IInv, Phase
<1>8. Owed' = IF DataPlane THEN Owed \cup {new} ELSE Owed
  BY <1>1, <1>4, <1>7 DEF Owed
<1>9. L!Make(new)
  <2>1. CASE DataPlane
    BY <1>5, <1>6, <1>8, <2>1 DEF L!Make, StatusOf, Made
  <2>2. CASE ~ DataPlane
    BY <1>5, <1>6, <1>8, <2>2 DEF L!Make, StatusOf, Made
  <2> QED
    BY <2>1, <2>2
<1> QED
  BY <1>1, <1>9 DEF L!Next, L!Make

\* It runs, though it may have been cancelled.
LEMMA Starts ==
  ASSUME IInv, NEW e \in ExecIds, Begin(e), Found(e)
  PROVE  L!Next
<1>1. /\ pc[e] = "submitted" /\ pc' = [pc EXCEPT ![e] = "begun"] /\ UNCHANGED madeEx
      /\ executions[e] \in Execution /\ executions[e] # None
      /\ executions' = [executions EXCEPT ![e].status = "Running", ![e].runAt = TRUE]
  BY DEF Begin, IInv, TypeOK, Found
<1>2. /\ executions'[e] = [executions[e] EXCEPT !.status = "Running", !.runAt = TRUE]
      /\ \A d \in ExecIds : d # e => executions'[d] = executions[d]
      /\ \A d \in ExecIds : pc'[d] = IF d = e THEN "begun" ELSE pc[d]
  BY <1>1 DEF IInv, TypeOK
<1>3. executions'[e] \in Execution /\ executions'[e].status = "Running"
  <2>1. executions[e] \in Execution
    BY <1>1
  <2>2. executions'[e] = [executions[e] EXCEPT !.status = "Running", !.runAt = TRUE]
    BY <1>2
  <2> QED
    BY <2>1, <2>2 DEF Execution, Statuses
<1>4. StatusOf' = [StatusOf EXCEPT ![e] = "Running"]
  BY <1>2, <1>3, NoneAssumption, OneStatus DEF Found
<1>5. e \in Owed /\ Owed' = Owed /\ StatusOf[e] # None /\ UNCHANGED Made
  BY <1>1, <1>2, NoneAssumption DEF Owed, StatusOf, Made, Found, Execution
<1>6. L!Start(e)
  BY <1>4, <1>5 DEF L!Start, StatusOf, Made
<1> QED
  BY <1>6 DEF L!Next

\* Its outcome is stored, if it is still there.
LEMMA Pays ==
  ASSUME IInv, NEW e \in ExecIds, e \in Owed, Owed' = Owed \ {e}, UNCHANGED madeEx,
         \A d \in ExecIds : d # e => executions'[d] = executions[d],
         \/ UNCHANGED executions /\ ~ Found(e)
         \/ /\ executions[e] \in Execution /\ executions'[e] \in Execution
            /\ executions'[e].status \in {"Succeeded", "Failed", "Canceled"}
  PROVE  L!Next
<1>1. UNCHANGED Made
  BY DEF Made
<1>2. CASE UNCHANGED executions /\ ~ Found(e)
  <2>1. StatusOf[e] = None /\ UNCHANGED StatusOf
    BY <1>2 DEF StatusOf, Found
  <2>2. L!Pay(e)
    BY <1>1, <2>1 DEF L!Pay, StatusOf, Made
  <2> QED
    BY <2>2 DEF L!Next
<1>3. CASE /\ executions[e] \in Execution /\ executions'[e] \in Execution
           /\ executions'[e].status \in {"Succeeded", "Failed", "Canceled"}
  <2> DEFINE out == executions'[e].status
  <2>1. StatusOf' = [StatusOf EXCEPT ![e] = out]
    BY <1>3, NoneAssumption, OneStatus DEF Found
  <2>2. StatusOf[e] # None /\ out \in L!Outcomes
    BY <1>3, NoneAssumption DEF StatusOf, Found, Execution, L!Outcomes
  <2> HIDE DEF out
  <2>3. L!Pay(e)
    BY <1>1, <2>1, <2>2 DEF L!Pay, StatusOf, Made
  <2> QED
    BY <2>3 DEF L!Next
<1> QED
  BY <1>2, <1>3

LEMMA FinishPays ==
  ASSUME IInv, NEW e \in ExecIds, Finish(e)
  PROVE  L!Next
<1>1. /\ pc[e] = "judged" /\ UNCHANGED madeEx
      /\ \A d \in ExecIds : pc'[d] = IF d = e THEN "leaving" ELSE pc[d]
      /\ \A d \in ExecIds : d # e => executions'[d] = executions[d]
  BY DEF Finish, IInv, TypeOK
<1>2. e \in Owed /\ Owed' = Owed \ {e}
  BY <1>1 DEF Owed
<1>3. outcome[e] \in {"Succeeded", "Failed", "Canceled"}
  BY <1>1 DEF IInv, Phase, Told
<1>4. CASE Found(e)
  <2>1. executions[e] \in Execution
    BY <1>4 DEF IInv, TypeOK, Found
  <2>2. executions'[e] = [executions[e] EXCEPT !.status = outcome[e],
                            !.succeededAt = @ \/ outcome[e] = "Succeeded",
                            !.failedAt = @ \/ outcome[e] = "Failed"]
    BY <1>4 DEF Finish, IInv, TypeOK
  <2>3. executions'[e] \in Execution /\ executions'[e].status = outcome[e]
    BY <1>3, <2>1, <2>2 DEF Execution, Statuses
  <2> QED
    BY <1>1, <1>2, <1>3, <2>1, <2>3, Pays
<1>5. CASE ~ Found(e)
  BY <1>1, <1>2, <1>5, Pays DEF Finish
<1> QED
  BY <1>4, <1>5

\* A handler or a goroutine that finds nothing to run owes nothing any more.
LEMMA GivesUp ==
  ASSUME IInv, NEW e \in ExecIds, ~ Found(e), GetRevision(e) \/ Begin(e), ~ UNCHANGED Owed
  PROVE  L!Next
<1>1. /\ pc[e] \in {"created", "submitted"} /\ UNCHANGED <<madeEx, executions>>
      /\ \A d \in ExecIds : d # e => pc'[d] = pc[d]
  BY DEF GetRevision, Begin, store, IInv, TypeOK
<1>2. e \in Owed /\ Owed' = Owed \ {e}
  BY <1>1 DEF Owed
<1> QED
  BY <1>1, <1>2, Pays

LEMMA Cancels ==
  ASSUME IInv, NEW c \in Clients, CancelExecution(c)
  PROVE  L!Next \/ UNCHANGED L!life
<1> DEFINE e == cancels[c].id
<1>1. e \in ExecIds /\ UNCHANGED <<madeEx, pc>>
  BY DEF CancelExecution, IInv, TypeOK, Cancel, exec
<1>2. Owed' = Owed /\ UNCHANGED Made
  BY <1>1 DEF Owed, Made
<1>3. CASE Found(e) /\ executions[e].wf = cancels[c].wf /\ executions[e].status \in Active
  <2>1. executions[e] \in Execution
    BY <1>1, <1>3 DEF IInv, TypeOK, Found
  <2>2. executions' = [executions EXCEPT ![e].status = "Canceled", ![e].canceledAt = TRUE]
    BY <1>3 DEF CancelExecution
  <2> HIDE DEF e
  <2>3. /\ executions'[e] = [executions[e] EXCEPT !.status = "Canceled", !.canceledAt = TRUE]
        /\ \A d \in ExecIds : d # e => executions'[d] = executions[d]
    BY <1>1, <2>2 DEF IInv, TypeOK
  <2>4. executions'[e] \in Execution /\ executions'[e].status = "Canceled"
    BY <2>1, <2>3 DEF Execution, Statuses
  <2>5. StatusOf' = [StatusOf EXCEPT ![e] = "Canceled"]
    BY <1>1, <2>3, <2>4, NoneAssumption, OneStatus DEF Found
  <2>6. StatusOf[e] \in L!Unfinished
    BY <1>1, <1>3 DEF StatusOf, Active, L!Unfinished
  <2>7. L!Cancel(e)
    BY <1>2, <2>5, <2>6 DEF L!Cancel, StatusOf, Made
  <2> QED
    BY <1>1, <2>7 DEF L!Next, L!Cancel
<1>4. CASE ~ (Found(e) /\ executions[e].wf = cancels[c].wf /\ executions[e].status \in Active)
  <2>1. UNCHANGED executions
    BY <1>4 DEF CancelExecution
  <2> QED
    BY <1>1, <1>2, <2>1, NothingPromised DEF Found
<1> QED
  BY <1>3, <1>4

\* What is deleted is over.
LEMMA Deletes ==
  ASSUME IInv, NEW D \in SUBSET ExecIds, UNCHANGED <<madeEx, pc>>,
         \A e \in D : Found(e) /\ executions[e].status \notin Active,
         \A e \in ExecIds : executions'[e] = IF e \in D THEN None ELSE executions[e]
  PROVE  L!Next \/ UNCHANGED L!life
<1>1. Owed' = Owed /\ UNCHANGED Made
  BY DEF Owed, Made
<1>2. CASE D = {}
  BY <1>1, <1>2, NothingPromised DEF Found
<1>3. CASE D # {}
  <2>1. \A e \in D : StatusOf[e] \in L!Outcomes
    <3> SUFFICES ASSUME NEW e \in D
                 PROVE  StatusOf[e] \in L!Outcomes
      OBVIOUS
    <3>1. executions[e] \in Execution /\ StatusOf[e] = executions[e].status
      BY DEF IInv, TypeOK, StatusOf, Found
    <3> QED
      BY <3>1 DEF Execution, Statuses, Active, L!Outcomes
  <2>2. StatusOf' = [e \in ExecIds |-> IF e \in D THEN None ELSE StatusOf[e]]
    BY DEF StatusOf, Found
  <2>3. L!Delete(D)
    BY <1>1, <1>3, <2>1, <2>2 DEF L!Delete, StatusOf, Made
  <2> QED
    BY <2>3 DEF L!Next
<1> QED
  BY <1>2, <1>3

LEMMA StepKeepsPromise ==
  ASSUME IInv, [Next]_vars
  PROVE  [L!Next]_(L!life)
<1>1. ASSUME NEW e \in ExecIds, Handler(e) \/ Goroutine(e)
      PROVE  L!Next \/ UNCHANGED L!life
  <2>1. CASE GetRevision(e) \/ Begin(e)
    <3>1. CASE Found(e) /\ Begin(e)
      BY <3>1, Starts
    <3>2. CASE Found(e) /\ GetRevision(e)
      <4>1. Placed(e)
        BY DEF IInv
      <4>2. /\ UNCHANGED <<madeEx, executions>>
            /\ pc[e] = "created" /\ \A d \in ExecIds : pc'[d] = IF d = e THEN "parsed" ELSE pc[d]
        BY <3>2, <4>1 DEF GetRevision, store, IInv, TypeOK, Placed
      <4> QED
        BY <4>2, NothingPromised DEF Found, Owed
    <3>3. CASE ~ Found(e) /\ Owed' # Owed
      BY <2>1, <3>3, GivesUp
    <3>4. CASE ~ Found(e) /\ Owed' = Owed
      <4>1. UNCHANGED <<madeEx, executions>>
        BY <2>1, <3>4 DEF GetRevision, Begin, store
      <4> QED
        BY <3>4, <4>1, NothingPromised DEF Found
    <3> QED
      BY <2>1, <3>1, <3>2, <3>3, <3>4
  <2>2. CASE Finish(e)
    BY <2>2, FinishPays
  <2>3. CASE Submit(e) \/ Emit(e) \/ (\E r \in {"ok", "error"} : End(e, r)) \/ Judge(e) \/ Leave(e)
    <3>1. UNCHANGED <<madeEx, executions>>
      BY <2>3 DEF Submit, Emit, End, Judge, Leave, store
    <3>2. \A d \in ExecIds : d \in Owed' <=> d \in Owed
      BY <2>3 DEF Submit, Emit, End, Judge, Leave, Owed, IInv, TypeOK
    <3> QED
      BY <3>1, <3>2, NothingPromised DEF Found
  <2> QED
    BY <1>1, <2>1, <2>2, <2>3 DEF Handler, Goroutine
<1>2. ASSUME UNCHANGED <<executions, pc, madeEx>>
      PROVE  L!Next \/ UNCHANGED L!life
  BY <1>2, NothingPromised DEF Found, Owed
<1>3. ASSUME NEW e \in ExecIds, DeleteExecution(e)
      PROVE  L!Next \/ UNCHANGED L!life
  <2>1. /\ \A d \in ExecIds : executions'[d] = IF d \in {e} THEN None ELSE executions[d]
        /\ UNCHANGED <<madeEx, pc>>
        /\ Found(e) /\ executions[e].status \notin Active
    BY <1>3 DEF DeleteExecution, IInv, TypeOK, exec
  <2> QED
    BY <2>1, Deletes
<1>4. ASSUME NEW w \in WorkflowIds, DeleteWorkflow(w)
      PROVE  L!Next \/ UNCHANGED L!life
  <2>1. /\ \A d \in ExecIds : executions'[d] = IF d \in Of(w) THEN None ELSE executions[d]
        /\ UNCHANGED <<madeEx, pc>> /\ \A e \in Of(w) : executions[e].status \notin Active
    BY <1>4 DEF DeleteWorkflow, exec
  <2>2. Of(w) \in SUBSET ExecIds /\ \A e \in Of(w) : Found(e)
    BY DEF Of
  <2> QED
    BY <2>1, <2>2, Deletes
<1>5. CASE Next
  BY <1>1, <1>2, <1>3, <1>4, <1>5, Makes, Cancels
     DEF Next, CreateWorkflow, CreateRevision, SetRevisionAlias, UpdateWorkflow, CancelRun,
         Branches, LeaveBranch, Stray, StrayEnd, Expire, Close, store, exec
<1>6. CASE UNCHANGED vars
  BY <1>2, <1>6 DEF vars, store, exec
<1> QED
  BY <1>5, <1>6

LEMMA InitPromises == Init => L!Init
<1> SUFFICES ASSUME Init
             PROVE  L!Init
  OBVIOUS
<1>1. Made = {}
  BY DEF Init, Made
<1>2. Owed = {}
  BY DEF Init, Owed
<1>3. StatusOf = [e \in ExecIds |-> None]
  BY DEF Init, StatusOf, Found
<1> QED
  BY <1>1, <1>2, <1>3 DEF L!Init, Made, StatusOf

\* Store, handlers and executor together implement Lifecycle: an execution is
\* made once, paid its outcome once, and nothing but its deletion happens to it
\* afterwards, however their steps interleave.  (That every outcome comes is
\* liveness, and model-checked.)
THEOREM ImplementsLifecycle == Spec => L!Spec
<1>1. IInv /\ [Next]_vars => [L!Next]_(L!life)
  BY StepKeepsPromise
<1> QED
  BY <1>1, InitPromises, Invariance, PTL DEF Spec, L!Spec

\* So an execution that is not over has its outcome to come.
THEOREM UnfinishedIsOwed == Spec => []L!UnfinishedOwed
<1>1. IInv => L!UnfinishedOwed
  <2> SUFFICES ASSUME IInv, NEW e \in ExecIds, StatusOf[e] \in {"Queued", "Running"}
               PROVE  e \in Owed
    BY DEF L!UnfinishedOwed, L!Unfinished, StatusOf
  <2>1. Found(e) /\ executions[e].status \in {"Queued", "Running"}
    BY NoneAssumption DEF StatusOf, Statuses
  <2>2. Phase(e) /\ pc[e] \in PCs
    BY DEF IInv, TypeOK
  <2> QED
    BY <2>1, <2>2 DEF Phase, Recorded, Found, Owed, PCs
<1> QED
  BY <1>1, Invariance, PTL
=============================================================================
