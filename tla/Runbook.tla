------------------------------- MODULE Runbook -------------------------------
(***************************************************************************)
(* The run of a runbook by one goroutine: Runner.Run, which calls          *)
(* execSteps, which calls execStep, which calls execSteps again for the    *)
(* steps inside a step.  frames is that part of the call stack.            *)
(*                                                                         *)
(* What a step computes is left out: a call returns or fails, a condition  *)
(* holds or not, a for has any number of items.  An assign is a call that  *)
(* takes no time, and a case of a switch that returns or jumps a step that *)
(* does.  Parallel steps are in Parallel.                                  *)
(***************************************************************************)
EXTENDS Naturals, Sequences, Functions

CONSTANTS
    None,
    Books,             \* the runbooks: of each its lists of steps, its own the first
    MaxRounds          \* bound on the items of a for

VARIABLES
    book,              \* the runbook that is run
    frames,            \* the calls of execSteps under way, the outermost first
    phase,             \* where the innermost of them is
    result,            \* what the step or list that just ended returned
    cancelled,         \* the context is done
    tardy,             \* ghost: the steps announced since
    noticed,           \* ghost: a look at the context found it done
    caught             \* ghost: a try caught an error since

bookVars == <<book, frames, phase, result, cancelled, tardy, noticed, caught>>

Kinds == {"call", "return", "next", "switch", "for", "try"}
Returned == {"ok", "next", "return", "error"}
Phases == {"check", "announce", "call", "item", "ended", "leave", "over"}

\* What the parser makes of a runbook: the lists of steps that a step has are there.
BooksOK ==
    \A b \in DOMAIN Books :
        /\ 1 \in DOMAIN Books[b]
        /\ \A l \in DOMAIN Books[b] :
             /\ Books[b][l] \in Seq(Range(Books[b][l]))
             /\ \A s \in Range(Books[b][l]) :
                  /\ s.kind \in Kinds
                  /\ s.kind \in {"switch", "for", "try"} => s.body \in DOMAIN Books[b]
                  /\ s.kind = "try" /\ s.except = "steps" => s.handler \in DOMAIN Books[b]

Frame == [list : DOMAIN Books[book], i : Nat,
          left : 0 .. MaxRounds,   \* of the for at i, the items to come
          excepting : BOOLEAN]     \* the try at i is in its except steps

TypeOK ==
    /\ book \in DOMAIN Books
    /\ \A l \in DOMAIN Books[book] : \A s \in Range(Books[book][l]) : s.kind \in Kinds
    /\ frames \in Seq(Frame) /\ frames # <<>>
    /\ phase \in Phases
    /\ result \in Returned
    /\ {cancelled, noticed, caught} \subseteq BOOLEAN
    /\ tardy \in Nat

Enter(l) == [list |-> l, i |-> 1, left |-> 0, excepting |-> FALSE]

Init ==
    /\ book \in DOMAIN Books
    /\ frames = <<Enter(1)>>
    /\ phase = "check"
    /\ result = "ok"
    /\ cancelled = FALSE /\ tardy = 0 /\ noticed = FALSE /\ caught = FALSE

-----------------------------------------------------------------------------

Depth == Len(frames)
Top == frames[Depth]
Steps == Books[book][Top.list]
Step == Steps[Top.i]

\* What a step that ended well returns: its next, if it has one.
GoOn == IF Step.next = None THEN "ok" ELSE "next"

Goto(p) == phase' = p /\ UNCHANGED <<frames, result>>
End(r) == phase' = "ended" /\ result' = r
Leave(r) == phase' = "leave" /\ result' = r /\ UNCHANGED frames
Push(l) == frames' = Append(frames, Enter(l)) /\ phase' = "check" /\ UNCHANGED result

\* Mutation: the context is looked at once, when execSteps is called.
CheckAtStart ==
    /\ phase = "check"
    /\ IF Top.i > Len(Steps)
       THEN Leave("ok") /\ UNCHANGED noticed
       ELSE IF cancelled /\ Top.i = 1
       THEN Leave("error") /\ noticed' = TRUE
       ELSE Goto("announce") /\ UNCHANGED noticed
    /\ UNCHANGED <<book, cancelled, tardy, caught>>

\* The head of execSteps' loop.
Check ==
    /\ phase = "check"
    /\ IF Top.i > Len(Steps)
       THEN Leave("ok") /\ UNCHANGED noticed
       ELSE IF cancelled
       THEN Leave("error") /\ noticed' = TRUE
       ELSE Goto("announce") /\ UNCHANGED noticed
    /\ UNCHANGED <<book, cancelled, tardy, caught>>

\* execStep, by the kind of the step.  A switch has a case with steps that holds,
\* or one with nothing, or none, or fails.
ExecStep ==
    \/ Step.kind = "call" /\ Goto("call")
    \/ /\ Step.kind = "return"
       /\ \E r \in {"return", "error"} : End(r)
       /\ UNCHANGED frames
    \/ Step.kind = "next" /\ End("next") /\ UNCHANGED frames
    \/ Step.kind = "switch" /\ Push(Step.body)
    \/ /\ Step.kind = "switch"
       /\ \E r \in {"ok", GoOn, "error"} : End(r)
       /\ UNCHANGED frames
    \/ /\ Step.kind = "for"
       /\ \E n \in 0 .. MaxRounds : frames' = [frames EXCEPT ![Depth].left = n]
       /\ phase' = "item" /\ UNCHANGED result
    \/ Step.kind = "for" /\ End("error") /\ UNCHANGED frames
    \/ Step.kind = "try" /\ Push(Step.body)

\* stepWillExecute, and the step itself.
Announce ==
    /\ phase = "announce"
    /\ tardy' = IF cancelled THEN tardy + 1 ELSE tardy
    /\ ExecStep
    /\ UNCHANGED <<book, cancelled, noticed, caught>>

\* A function returns, with an error if the context ended it.
Call ==
    /\ phase = "call"
    /\ \E r \in {GoOn, "error"} : End(r)
    /\ UNCHANGED <<book, frames, cancelled, tardy, noticed, caught>>

\* Mutation: a for breaks out of its loop when the context is done.
ItemBreak ==
    /\ phase = "item"
    /\ IF Top.left = 0 \/ cancelled
       THEN End(GoOn) /\ UNCHANGED frames
       ELSE /\ frames' = Append([frames EXCEPT ![Depth].left = @ - 1], Enter(Step.body))
            /\ phase' = "check" /\ UNCHANGED result
    /\ noticed' = (noticed \/ (Top.left > 0 /\ cancelled))
    /\ UNCHANGED <<book, cancelled, tardy, caught>>

\* The head of execFor's loop.
Item ==
    /\ phase = "item"
    /\ IF Top.left = 0
       THEN End(GoOn) /\ UNCHANGED <<frames, noticed>>
       ELSE IF cancelled
       THEN End("error") /\ noticed' = TRUE /\ UNCHANGED frames
       ELSE /\ frames' = Append([frames EXCEPT ![Depth].left = @ - 1], Enter(Step.body))
            /\ phase' = "check" /\ UNCHANGED <<result, noticed>>
    /\ UNCHANGED <<book, cancelled, tardy, caught>>

\* The first step of this list that has the name.
Named(name) ==
    {j \in DOMAIN Steps : Steps[j].name = name /\ \A k \in 1 .. j - 1 : Steps[k].name # name}

At(j) == [frames EXCEPT ![Depth].i = j, ![Depth].excepting = FALSE]

\* A step that ended well is followed by the one after it.  A next is looked for
\* in the list at hand and in no other; anything else leaves the list.
EndStep ==
    /\ phase = "ended"
    /\ \/ /\ result = "ok"
          /\ frames' = At(Top.i + 1) /\ phase' = "check" /\ UNCHANGED result
       \/ /\ result = "next"
          /\ IF Named(Step.next) = {}
             THEN Leave("error")
             ELSE /\ \E j \in Named(Step.next) : frames' = At(j)
                  /\ phase' = "check" /\ UNCHANGED result
       \/ result \in {"return", "error"} /\ Leave(result)
    /\ UNCHANGED <<book, cancelled, tardy, noticed, caught>>

-----------------------------------------------------------------------------
(* execSteps returns to the step that called it *)

Caller == Books[book][frames[Depth - 1].list][frames[Depth - 1].i]
Excepting == frames[Depth - 1].excepting

Back == frames' = SubSeq(frames, 1, Depth - 1)
CallerGoesOn == IF Caller.next = None THEN "ok" ELSE "next"

SwitchReturns ==
    /\ Caller.kind = "switch"
    /\ Back /\ End(result) /\ UNCHANGED caught

ForReturns ==
    /\ Caller.kind = "for"
    /\ Back
    /\ IF result = "ok" THEN phase' = "item" /\ UNCHANGED result ELSE End(result)
    /\ UNCHANGED caught

\* execTry, after its steps: what is neither done nor a return is caught.
TryReturns ==
    /\ Caller.kind = "try" /\ ~ Excepting
    /\ \/ /\ result = "ok"
          /\ Back /\ End(CallerGoesOn) /\ UNCHANGED caught
       \/ /\ result = "return"
          /\ Back /\ End("return") /\ UNCHANGED caught
       \/ /\ result = "error"
          /\ caught' = (caught \/ cancelled)
          /\ \/ /\ Caller.except = "return"
                /\ \E r \in {"return", "error"} : End(r)
                /\ Back
             \/ /\ Caller.except = "steps"
                /\ frames' = [SubSeq(frames, 1, Depth - 1) EXCEPT
                                 ![Depth - 1].excepting = TRUE]
                             \o <<Enter(Caller.handler)>>
                /\ phase' = "check" /\ UNCHANGED result
             \/ Caller.except = None /\ Back /\ End("ok")

\* The steps of an except: the next of the try is not followed.
ExceptReturns ==
    /\ Caller.kind = "try" /\ Excepting
    /\ Back /\ End(result) /\ UNCHANGED caught

LeaveSteps ==
    /\ phase = "leave" /\ Depth > 1
    /\ SwitchReturns \/ ForReturns \/ TryReturns \/ ExceptReturns
    /\ UNCHANGED <<book, cancelled, tardy, noticed>>

\* Run tells the outcome.
Finish ==
    /\ phase = "leave" /\ Depth = 1
    /\ phase' = "over"
    /\ UNCHANGED <<book, frames, result, cancelled, tardy, noticed, caught>>

Outcome ==
    IF result # "error" THEN "completed" ELSE IF cancelled THEN "canceled" ELSE "failed"

-----------------------------------------------------------------------------

\* The execution is cancelled or timed out, or its process shuts down.
Cancel ==
    /\ phase # "over" /\ ~ cancelled
    /\ cancelled' = TRUE
    /\ UNCHANGED <<book, frames, phase, result, tardy, noticed, caught>>

RunStep == Check \/ Announce \/ Call \/ Item \/ EndStep \/ LeaveSteps \/ Finish

Next == RunStep \/ Cancel

\* The goroutine is scheduled; a call carries the context, and returns.
Fairness == WF_bookVars(RunStep)

Spec == Init /\ [][Next]_bookVars /\ Fairness

-----------------------------------------------------------------------------
(* Properties *)

\* Once its context is done, a run announces no step but the one it was about
\* to, however deep in other steps it is: every way from one step to the next,
\* through jumps, items and except steps, looks at the context first.
StopsWhenCancelled == tardy <= 1

\* A run whose goroutine found its context done is told as canceled, unless a
\* try took the error for one of its own: on the way out no switch, no for and
\* no except loses it.
CancelIsTold == phase = "over" /\ noticed /\ ~ caught => Outcome = "canceled"

\* A run ends when it is cancelled, and by itself if its runbook does not jump.
Jumps == \E l \in DOMAIN Books[book] : \E s \in Range(Books[book][l]) : s.next # None
Ended == cancelled \/ ~ Jumps => phase = "over"

EndsAtLast == <>[]Ended
=============================================================================
