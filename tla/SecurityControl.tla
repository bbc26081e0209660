--------------------------- MODULE SecurityControl ---------------------------
(***************************************************************************)
(* The Security Control mock: the activation, the automated actions and    *)
(* the evaluation rules of a fixed catalog, all under one lock, and a      *)
(* client that walks the list of actions page by page.  A page token says  *)
(* where the page starts and how long it is; a token with another page     *)
(* size is refused.                                                        *)
(*                                                                         *)
(* IDs grow, so the list is in the order of creation.  What an action and  *)
(* a rule do is data.                                                      *)
(***************************************************************************)
EXTENDS Orders, FiniteSets

CONSTANTS
    RuleIDs,           \* ruleCatalog
    None,
    ActionLimit,
    PageSize,          \* page_size of the client
    MaxActions         \* bound on actions ever made

VARIABLES
    activation,        \* None, or whether it is active
    actions,           \* the list of actions, by ID
    lastAction,        \* the generator's counter
    enabledRules,
    walk               \* the client's position and what it has seen

controlVars == <<activation, actions, lastAction, enabledRules, walk>>

ActionIDs == 1 .. MaxActions
InList == {actions[i] : i \in DOMAIN actions}

\* due: what was in the part of the list this walk goes through when it began,
\* and was not deleted since; seen: what its pages have shown; deletions:
\* something was deleted on the way.
Walk == [way : {"next", "prev"}, token : Nat \cup {None}, due : SUBSET ActionIDs,
         seen : SUBSET ActionIDs, deletions : BOOLEAN]

TypeOK ==
    /\ activation \in BOOLEAN \cup {None}
    /\ actions \in Seq(ActionIDs)
    /\ lastAction \in 0 .. MaxActions
    /\ enabledRules \subseteq RuleIDs
    /\ walk \in Walk \cup {None}

BoundsOK ==
    /\ ActionLimit \in Nat /\ PageSize \in Nat /\ MaxActions \in Nat
    /\ None \notin Nat /\ None \notin BOOLEAN /\ None \notin Walk

Init ==
    /\ activation = None /\ actions = <<>> /\ lastAction = 0
    /\ enabledRules = {} /\ walk = None

-----------------------------------------------------------------------------
(* The store *)

CreateActivation ==
    /\ activation = None
    /\ activation' = TRUE
    /\ UNCHANGED <<actions, lastAction, enabledRules, walk>>

UpdateActivation(active) ==
    /\ activation # None
    /\ activation' = active
    /\ UNCHANGED <<actions, lastAction, enabledRules, walk>>

CreateAutomatedAction ==
    /\ Len(actions) < ActionLimit /\ lastAction < MaxActions
    /\ lastAction' = lastAction + 1
    /\ actions' = Append(actions, lastAction')
    /\ UNCHANGED <<activation, enabledRules, walk>>

DeleteAutomatedAction(a) ==
    /\ a \in InList
    /\ actions' = Among(actions, ActionIDs \ {a})
    /\ walk' = IF walk = None THEN None
               ELSE [walk EXCEPT !.due = @ \ {a}, !.deletions = TRUE]
    /\ UNCHANGED <<activation, lastAction, enabledRules>>

\* The rule's handler reads it before it stores it; rules are never deleted.
UpdateEvaluationRule(r, enabled) ==
    /\ enabledRules' = IF enabled THEN enabledRules \cup {r} ELSE enabledRules \ {r}
    /\ UNCHANGED <<activation, actions, lastAction, walk>>

-----------------------------------------------------------------------------
(* paginate *)

Less(m, n) == IF m <= n THEN m ELSE n

PageStart(token) == Less(token, Len(actions))
PageEnd(token)   == Less(PageStart(token) + PageSize, Len(actions))
Page(token)      == {actions[i] : i \in PageStart(token) + 1 .. PageEnd(token)}

NextPageToken(token) == IF PageEnd(token) < Len(actions) THEN PageEnd(token) ELSE None

\* Mutation: the page before ends before the item that this one starts with.
PrevTokenShort(token) ==
    IF PageStart(token) = 0 THEN None
    ELSE IF PageStart(token) > PageSize THEN PageStart(token) - PageSize - 1 ELSE 0

PrevPageToken(token) ==
    IF PageStart(token) = 0 THEN None
    ELSE IF PageStart(token) > PageSize THEN PageStart(token) - PageSize ELSE 0

\* The client begins with the first page and follows next, or turns round on a
\* page it has got and follows prev.
WalkForward ==
    /\ walk = None
    /\ walk' = [way |-> "next", token |-> 0, due |-> InList, seen |-> {}, deletions |-> FALSE]
    /\ UNCHANGED <<activation, actions, lastAction, enabledRules>>

Follow(token) == IF walk.way = "next" THEN NextPageToken(token) ELSE PrevPageToken(token)

ListAutomatedActions ==
    /\ walk # None /\ walk.token # None
    /\ walk' = [walk EXCEPT !.seen = @ \cup Page(walk.token), !.token = Follow(walk.token)]
    /\ UNCHANGED <<activation, actions, lastAction, enabledRules>>

TurnRound ==
    /\ walk # None /\ walk.way = "next" /\ walk.token # None
    /\ walk' = [way |-> "prev", token |-> PrevPageToken(walk.token), seen |-> {},
                due |-> {actions[i] : i \in 1 .. PageStart(walk.token)}, deletions |-> FALSE]
    /\ UNCHANGED <<activation, actions, lastAction, enabledRules>>

StopWalking ==
    /\ walk # None
    /\ walk' = None
    /\ UNCHANGED <<activation, actions, lastAction, enabledRules>>

ActivationOps == CreateActivation \/ \E active \in BOOLEAN : UpdateActivation(active)
ActionOps == CreateAutomatedAction \/ \E a \in ActionIDs : DeleteAutomatedAction(a)
RuleOps == \E r \in RuleIDs, enabled \in BOOLEAN : UpdateEvaluationRule(r, enabled)
WalkOps == WalkForward \/ ListAutomatedActions \/ TurnRound \/ StopWalking

Next == ActivationOps \/ ActionOps \/ RuleOps \/ WalkOps

Spec == Init /\ [][Next]_controlVars

-----------------------------------------------------------------------------
(* Properties *)

\* Who follows the tokens to the end has seen all that was there when it began
\* and still is.  Going forward that takes that nothing was deleted meanwhile,
\* for what follows would move up behind the token; going back it always holds:
\* what moves up comes again, and what is made comes at the end.
WalksComplete ==
    walk # None /\ walk.token = None /\ (walk.way = "prev" \/ ~ walk.deletions)
        => walk.due \subseteq walk.seen
=============================================================================
