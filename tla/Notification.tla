---------------------------- MODULE Notification ----------------------------
(***************************************************************************)
(* The routings of the Simple Notification mock, whose settings a          *)
(* reordering patches one after the other.  Every operation of the store   *)
(* is one critical section; a reordering looks all its routings up, and    *)
(* then reads and writes each, two calls per routing, with the requests of *)
(* others in between.                                                      *)
(*                                                                         *)
(* The settings of a routing are an edition; the rank a reordering puts in *)
(* them is data, and what counts is whose settings it was put in.          *)
(***************************************************************************)
EXTENDS Naturals

CONSTANTS
    RoutingIDs,
    Orderers,          \* reorderings in flight
    None,
    MaxEditions        \* bound on the updates of a routing

VARIABLES
    settings,          \* per routing its edition; None: no such item
    gone,              \* history: the routings that were deleted
    ordering,          \* per reordering, where it is
    accepted,          \* history: per routing the last edition a client put
    crossed            \* history: routings changed between the read and the
                       \* write of a reordering

noteVars == <<settings, gone, ordering, accepted, crossed>>

\* toCheck, toDo: what is left of the two passes; at, read: the routing whose
\* settings were read and not yet written.
Ordering == [toCheck : SUBSET RoutingIDs, toDo : SUBSET RoutingIDs,
             at : RoutingIDs \cup {None}, read : 0 .. MaxEditions]

TypeOK ==
    /\ settings \in [RoutingIDs -> 0 .. MaxEditions \cup {None}]
    /\ gone \subseteq RoutingIDs
    /\ ordering \in [Orderers -> Ordering \cup {None}]
    /\ accepted \in [RoutingIDs -> 0 .. MaxEditions]
    /\ crossed \subseteq RoutingIDs

BoundsOK ==
    /\ MaxEditions \in Nat
    /\ None \notin 0 .. MaxEditions /\ None \notin RoutingIDs /\ None \notin Ordering

Init ==
    /\ settings = [r \in RoutingIDs |-> None]
    /\ ordering = [h \in Orderers |-> None]
    /\ accepted = [r \in RoutingIDs |-> 0]
    /\ gone = {} /\ crossed = {}

-----------------------------------------------------------------------------
(* Routings *)

\* Somebody else has read the settings of r and will write them.
HeldBy(r) == {h \in Orderers : ordering[h] # None /\ ordering[h].at = r}

Cross(r, others) == crossed' = IF others = {} THEN crossed ELSE crossed \cup {r}

CreateItem(r) ==
    /\ settings[r] = None /\ r \notin gone
    /\ settings' = [settings EXCEPT ![r] = 0]
    /\ UNCHANGED <<gone, ordering, accepted, crossed>>

UpdateItem(r) ==
    /\ settings[r] # None /\ accepted[r] < MaxEditions
    /\ accepted' = [accepted EXCEPT ![r] = @ + 1]
    /\ settings' = [settings EXCEPT ![r] = accepted'[r]]
    /\ Cross(r, HeldBy(r))
    /\ UNCHANGED <<gone, ordering>>

DeleteItem(r) ==
    /\ settings[r] # None
    /\ settings' = [settings EXCEPT ![r] = None]
    /\ gone' = gone \cup {r}
    /\ UNCHANGED <<ordering, accepted, crossed>>

-----------------------------------------------------------------------------
(* handleReorderRouting *)

StartReorder(h, R) ==
    /\ ordering[h] = None
    /\ ordering' = [ordering EXCEPT ![h] = [toCheck |-> R, toDo |-> R, at |-> None, read |-> 0]]
    /\ UNCHANGED <<settings, gone, accepted, crossed>>

AnswerReorder(h) == ordering' = [ordering EXCEPT ![h] = None]

\* The first pass only looks whether they are there.
CheckRouting(h, r) ==
    /\ ordering[h] # None /\ r \in ordering[h].toCheck
    /\ IF settings[r] = None THEN AnswerReorder(h)
       ELSE ordering' = [ordering EXCEPT ![h].toCheck = @ \ {r}]
    /\ UNCHANGED <<settings, gone, accepted, crossed>>

ReadSettings(h, r) ==
    /\ ordering[h] # None /\ ordering[h].toCheck = {} /\ ordering[h].at = None
    /\ r \in ordering[h].toDo
    /\ IF settings[r] = None THEN AnswerReorder(h)
       ELSE ordering' = [ordering EXCEPT ![h].at = r, ![h].read = settings[r],
                                         ![h].toDo = @ \ {r}]
    /\ UNCHANGED <<settings, gone, accepted, crossed>>

\* Mutation: puts the settings back whether the routing is there or not.
WriteBack(h) ==
    /\ ordering[h] # None /\ ordering[h].at # None
    /\ settings' = [settings EXCEPT ![ordering[h].at] = ordering[h].read]
    /\ ordering' = [ordering EXCEPT ![h].at = None, ![h].read = 0]
    /\ Cross(ordering[h].at, HeldBy(ordering[h].at) \ {h})
    /\ UNCHANGED <<gone, accepted>>

\* Mutation: writes the rank alone, and the rest of the settings is lost.
WriteRank(h) ==
    /\ ordering[h] # None /\ ordering[h].at # None
    /\ LET r == ordering[h].at
       IN IF settings[r] = None
          THEN AnswerReorder(h) /\ UNCHANGED <<settings, crossed>>
          ELSE /\ settings' = [settings EXCEPT ![r] = 0]
               /\ ordering' = [ordering EXCEPT ![h].at = None, ![h].read = 0]
               /\ Cross(r, HeldBy(r) \ {h})
    /\ UNCHANGED <<gone, accepted>>

WriteSettings(h) ==
    /\ ordering[h] # None /\ ordering[h].at # None
    /\ LET r == ordering[h].at
       IN IF settings[r] = None
          THEN AnswerReorder(h) /\ UNCHANGED <<settings, crossed>>
          ELSE /\ settings' = [settings EXCEPT ![r] = ordering[h].read]
               /\ ordering' = [ordering EXCEPT ![h].at = None, ![h].read = 0]
               /\ Cross(r, HeldBy(r) \ {h})
    /\ UNCHANGED <<gone, accepted>>

FinishReorder(h) ==
    /\ ordering[h] # None /\ ordering[h].toCheck = {} /\ ordering[h].toDo = {}
    /\ ordering[h].at = None
    /\ AnswerReorder(h)
    /\ UNCHANGED <<settings, gone, accepted, crossed>>

RoutingOps ==
    \E r \in RoutingIDs :
       CreateItem(r) \/ UpdateItem(r) \/ DeleteItem(r)

ReorderOps ==
    \E h \in Orderers :
       \/ \E R \in SUBSET RoutingIDs \ {{}} : StartReorder(h, R)
       \/ \E r \in RoutingIDs : CheckRouting(h, r) \/ ReadSettings(h, r)
       \/ WriteSettings(h)
       \/ FinishReorder(h)

Next == RoutingOps \/ ReorderOps

Spec == Init /\ [][Next]_noteVars

-----------------------------------------------------------------------------
(* Properties *)

\* A reordering that read a routing does not bring it back after its deletion,
\* and what a client put in its settings is still there after any number of
\* reorderings, unless the settings were changed between a reordering's read
\* and its write (handleReorderRouting: two calls of the store per routing).
SettingsSurvive ==
    /\ \A r \in gone : settings[r] = None
    /\ \A r \in RoutingIDs :
         settings[r] # None /\ r \notin crossed => settings[r] = accepted[r]
=============================================================================
