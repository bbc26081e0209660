--------------------------- MODULE MonitoringSuite ---------------------------
(***************************************************************************)
(* The Monitoring Suite mock: log, metrics and trace storages with access  *)
(* keys, alert projects with rules, notification targets and routings, and *)
(* routings of logs and metrics.  A table per kind hands out the record    *)
(* itself, not a copy: a handler looks up what its path and body name, one *)
(* critical section each, and then changes a record in place, stores a new *)
(* one, or deletes.  Nothing cascades.                                     *)
(*                                                                         *)
(* A record is its ID, its parent and the records it names; publishers,    *)
(* labels, thresholds and the settings of storages are data, statistics    *)
(* and histories always empty.  IDs are never given twice.                 *)
(***************************************************************************)
EXTENDS Naturals, FiniteSets, Sequences

CONSTANTS
    Projects, LogStorages, MetricsStorages, TraceStorages,
    StorageKeys, AlertRules, LogMeasureRules, Targets, Routings,
    LogRoutings, MetricsRoutings,
    Editors,           \* requests in flight
    None

VARIABLES
    stored,            \* the records in the tables
    assigned,          \* the IDs given so far
    removed,           \* history: the records that were deleted
    owner,             \* per record, its project or storage
    names,             \* per record, the storages or target it names
    rank,              \* NotificationRouting.Order
    earlier,           \* history: per notification routing, those whose order
                       \* was settled when its creation began
    editing            \* per request, what it is about to do

suiteVars == <<stored, assigned, removed, owner, names, rank, earlier, editing>>

Roots == Projects \cup LogStorages \cup MetricsStorages \cup TraceStorages
OfProjects == AlertRules \cup LogMeasureRules \cup Targets \cup Routings
Records == Roots \cup StorageKeys \cup OfProjects \cup LogRoutings \cup MetricsRoutings

Max == Cardinality(Routings)

\* do: what follows when everything in due has been found, one after another.
Edit == [do : {"create", "rank", "update", "delete", "reorder"}, id : Records,
         of : Records \cup {None}, naming : (SUBSET Records) \cup {None}, due : Seq(Records),
         order : 0 .. Max, before : SUBSET Routings]

TypeOK ==
    /\ stored \subseteq assigned /\ assigned \subseteq Records
    /\ removed \subseteq Records
    /\ owner \in [Records -> Records \cup {None}]
    /\ names \in [Records -> SUBSET Records]
    /\ rank \in [Routings -> 0 .. Max]
    /\ earlier \in [Routings -> SUBSET Routings]
    /\ editing \in [Editors -> Edit \cup {None}]

\* An ID is of a routing of one kind, or of something else.
BoundsOK ==
    /\ IsFiniteSet(Routings)
    /\ None \notin Records /\ None \notin Edit
    /\ \A ids \in SUBSET Records : ids # None
    /\ Routings \cap (Roots \cup StorageKeys \cup AlertRules \cup LogMeasureRules \cup Targets) = {}
    /\ (LogRoutings \cup MetricsRoutings) \cap (Roots \cup StorageKeys \cup OfProjects) = {}
    /\ LogRoutings \cap MetricsRoutings = {}
    /\ OfProjects \cap (Roots \cup StorageKeys) = {}

Init ==
    /\ stored = {} /\ assigned = {} /\ removed = {}
    /\ owner = [id \in Records |-> None]
    /\ names = [id \in Records |-> {}]
    /\ rank = [r \in Routings |-> 0]
    /\ earlier = [r \in Routings |-> {}]
    /\ editing = [e \in Editors |-> None]

-----------------------------------------------------------------------------
(* What every handler does *)

NewID(id) == id \notin assigned /\ assigned' = assigned \cup {id}

SetRoot(id) ==
    /\ id \in Roots
    /\ NewID(id)
    /\ stored' = stored \cup {id}
    /\ UNCHANGED <<removed, owner, names, rank, earlier, editing>>

\* delete; nobody will see what the record says any more.
Remove(id) ==
    /\ stored' = stored \ {id}
    /\ removed' = removed \cup ({id} \cap stored)
    /\ names' = [names EXCEPT ![id] = {}]
    /\ rank' = [r \in Routings |-> IF r = id THEN 0 ELSE rank[r]]
    /\ earlier' = [r \in Routings |-> IF r = id THEN {} ELSE earlier[r] \ {id}]

DeleteNow(id) ==
    /\ id \in stored
    /\ Remove(id)
    /\ UNCHANGED <<assigned, owner, editing>>

\* A request about record id of parent of, which first looks up what due lists;
\* an update that names None leaves what the record names.
\* It names an ID that was given: a new one, or one a client was told.
Begin(e, do, id, of, naming, due) ==
    /\ editing[e] = None /\ id \in assigned'
    /\ editing' = [editing EXCEPT ![e] = [do |-> do, id |-> id, of |-> of, naming |-> naming,
            due |-> due, order |-> 0,
            before |-> IF do = "rank" THEN {r \in Routings \cap stored : owner[r] = of} ELSE {}]]
    /\ UNCHANGED <<stored, removed, owner, names, rank, earlier>>

\* A record below a project is found if it is the project's, a key if it is the
\* storage's; projects and storages have no parent.
IsThere(x, of) == x \in stored /\ owner[x] \in {None, of}

\* get, or one of the find methods: the next record, or a 400 or 404.
Find(e) ==
    /\ editing[e] # None /\ editing[e].due # <<>>
    /\ editing' = [editing EXCEPT ![e] =
            IF IsThere(Head(editing[e].due), editing[e].of)
            THEN [editing[e] EXCEPT !.due = Tail(@)] ELSE None]
    /\ UNCHANGED <<stored, assigned, removed, owner, names, rank, earlier>>

Ready(e, do) == editing[e] # None /\ editing[e].due = <<>> /\ editing[e].do = do
Answer(e) == editing' = [editing EXCEPT ![e] = None]

InProject(id) == {r \in Routings \cap stored : owner[r] = id}

\* Mutation: counts the routings there are.
OrderByCount(p) == Cardinality(InProject(p)) + 1

\* nextOrder, which reads the table once.
NextOrder(p) ==
    LET orders == {0} \cup {rank[r] : r \in InProject(p)}
    IN 1 + CHOOSE n \in orders : \A m \in orders : m <= n

ReadOrder(e) ==
    /\ Ready(e, "rank")
    /\ NextOrder(editing[e].of) <= Max
    /\ editing' = [editing EXCEPT ![e].do = "create", ![e].order = NextOrder(editing[e].of)]
    /\ UNCHANGED <<stored, assigned, removed, owner, names, rank, earlier>>

SetNew(e) ==
    /\ Ready(e, "create")
    /\ LET w == editing[e] IN
       /\ stored' = stored \cup {w.id}
       /\ owner' = [owner EXCEPT ![w.id] = w.of]
       /\ names' = [names EXCEPT ![w.id] = w.naming]
       /\ rank' = IF w.id \in Routings THEN [rank EXCEPT ![w.id] = w.order] ELSE rank
       /\ earlier' = IF w.id \in Routings THEN [earlier EXCEPT ![w.id] = w.before \cap stored]
                     ELSE earlier
    /\ Answer(e)
    /\ UNCHANGED <<assigned, removed>>

\* Mutation: the record is stored again.
SetAgain(e) ==
    /\ Ready(e, "update")
    /\ stored' = stored \cup {editing[e].id}
    /\ names' = [names EXCEPT ![editing[e].id] = editing[e].naming]
    /\ Answer(e)
    /\ UNCHANGED <<assigned, removed, owner, rank, earlier>>

\* The record is changed where it is, which nobody sees if it was deleted.
ChangeInPlace(e) ==
    /\ Ready(e, "update")
    /\ names' = IF editing[e].id \in stored /\ editing[e].naming # None
                THEN [names EXCEPT ![editing[e].id] = editing[e].naming] ELSE names
    /\ Answer(e)
    /\ UNCHANGED <<stored, assigned, removed, owner, rank, earlier>>

\* Deleting what was deleted since it was found is no error.
DeleteFound(e) ==
    /\ Ready(e, "delete")
    /\ Remove(editing[e].id)
    /\ Answer(e)
    /\ UNCHANGED <<assigned, owner>>

-----------------------------------------------------------------------------
(* Requests, per kind *)

\* Storage keys: a new key's storage is looked up; later the key alone is, and
\* must be the storage's, which may be gone.
CreateKey(e, k, s) == NewID(k) /\ Begin(e, "create", k, s, {}, <<s>>)
DeleteKey(e, k)    == UNCHANGED assigned /\ Begin(e, "delete", k, owner[k], {}, <<k>>)
UpdateKey(e, k)    == UNCHANGED assigned /\ Begin(e, "update", k, owner[k], None, <<k>>)

LogKeyOps(e)     == \E k \in StorageKeys, s \in LogStorages : CreateKey(e, k, s)
MetricsKeyOps(e) == \E k \in StorageKeys, s \in MetricsStorages : CreateKey(e, k, s)
TraceKeyOps(e)   == \E k \in StorageKeys, s \in TraceStorages : CreateKey(e, k, s)
KeyOps(e) == \E k \in StorageKeys : owner[k] # None /\ (UpdateKey(e, k) \/ DeleteKey(e, k))

\* Below a project: the project is looked up, then the record, which must be
\* the project's.
UpdateIn(e, id, p, naming, due) ==
    UNCHANGED assigned /\ Begin(e, "update", id, p, naming, <<p, id>> \o due)
DeleteIn(e, id, p) == UNCHANGED assigned /\ Begin(e, "delete", id, p, {}, <<p, id>>)

\* Whether there is the metrics storage a rule names is not looked at.
AlertRuleOps(e) ==
    \E id \in AlertRules, p \in Projects :
        \/ NewID(id) /\ Begin(e, "create", id, p, {}, <<p>>)
        \/ UpdateIn(e, id, p, {}, <<>>) \/ DeleteIn(e, id, p)

\* Both storages must be there at first; they are not looked up for an update.
LogMeasureRuleOps(e) ==
    \E id \in LogMeasureRules, p \in Projects, ls \in LogStorages, ms \in MetricsStorages :
        \/ NewID(id) /\ Begin(e, "create", id, p, {ls, ms}, <<p, ls, ms>>)
        \/ UpdateIn(e, id, p, {ls, ms}, <<>>)

\* The project is not looked at.
DeleteLogMeasureRule == \E id \in LogMeasureRules : DeleteNow(id)

TargetOps(e) ==
    \E id \in Targets, p \in Projects :
        \/ NewID(id) /\ Begin(e, "create", id, p, {}, <<p>>)
        \/ UpdateIn(e, id, p, {}, <<>>) \/ DeleteIn(e, id, p)

\* Mutation: whether the project has the target is not looked at.
RoutingOpsAnyTarget(e) ==
    \E id \in Routings, p \in Projects, t \in Targets :
        \/ NewID(id) /\ Begin(e, "rank", id, p, {t}, <<p>>)
        \/ UpdateIn(e, id, p, {t}, <<>>) \/ DeleteIn(e, id, p)

\* The target must be one of the project's; it may have been deleted when the
\* routing is stored.
RoutingOps(e) ==
    \E id \in Routings, p \in Projects, t \in Targets :
        \/ NewID(id) /\ Begin(e, "rank", id, p, {t}, <<p, t>>)
        \/ UpdateIn(e, id, p, {t}, <<t>>)
        \/ UpdateIn(e, id, p, None, <<>>)
        \/ DeleteIn(e, id, p)

\* The items of a reordering are independent: each is found, if it is the
\* project's, and changed.
Reorder(e, id, p) == UNCHANGED assigned /\ Begin(e, "reorder", id, p, {}, <<p, id>>)

SetOrder(e) ==
    /\ Ready(e, "reorder")
    /\ LET id == editing[e].id IN
       /\ \E n \in 1 .. Max : rank' = IF id \in stored THEN [rank EXCEPT ![id] = n] ELSE rank
       /\ earlier' = [r \in Routings |-> IF r = id THEN {} ELSE earlier[r] \ {id}]
       /\ editing' = [x \in Editors |->
                        IF x = e \/ editing[x] = None THEN None
                        ELSE [editing[x] EXCEPT !.before = @ \ {id}]]
    /\ UNCHANGED <<stored, assigned, removed, owner, names>>

ReorderOps(e) ==
    \/ \E id \in Routings, p \in Projects : Reorder(e, id, p)
    \/ SetOrder(e)

\* An update may name another storage, which is looked up.
StorageRoutingOps(e, id, s) ==
    \/ NewID(id) /\ Begin(e, "create", id, None, {s}, <<s>>)
    \/ UNCHANGED assigned /\ Begin(e, "update", id, None, {s}, <<id, s>>)
    \/ UNCHANGED assigned /\ Begin(e, "update", id, None, None, <<id>>)

LogRoutingOps(e) ==
    \E id \in LogRoutings, s \in LogStorages : StorageRoutingOps(e, id, s)

MetricsRoutingOps(e) ==
    \E id \in MetricsRoutings, s \in MetricsStorages : StorageRoutingOps(e, id, s)

DeleteStorageRouting == \E id \in LogRoutings \cup MetricsRoutings : DeleteNow(id)

\* Updating a project or a storage is a lookup and a change in place too.
RootOps ==
    \/ \E id \in Roots : SetRoot(id) \/ DeleteNow(id)
    \/ \E e \in Editors, id \in Roots :
         UNCHANGED assigned /\ Begin(e, "update", id, None, {}, <<id>>)

Effects(e) == Find(e) \/ ReadOrder(e) \/ SetNew(e) \/ ChangeInPlace(e) \/ DeleteFound(e)

Next ==
    \/ RootOps \/ DeleteLogMeasureRule \/ DeleteStorageRouting
    \/ \E e \in Editors :
         \/ LogKeyOps(e) \/ MetricsKeyOps(e) \/ TraceKeyOps(e) \/ KeyOps(e)
         \/ AlertRuleOps(e) \/ LogMeasureRuleOps(e) \/ TargetOps(e)
         \/ RoutingOps(e) \/ ReorderOps(e)
         \/ LogRoutingOps(e) \/ MetricsRoutingOps(e)
         \/ Effects(e)

Spec == Init /\ [][Next]_suiteVars

-----------------------------------------------------------------------------
(* Properties *)

\* What was deleted stays deleted, whatever update of it was under way: the
\* update had the record in its hands and changes that, not the table.
DeletedStaysDeleted == stored \cap removed = {}

\* A notification routing names a target of its own project, and a routing of
\* logs or metrics a storage of its kind that there is or was: a routing cannot
\* be made to name what another project has or what never was.
RoutingsNameTheirs ==
    /\ \A r \in Routings \cap stored : \A t \in names[r] : owner[t] = owner[r]
    /\ \A r \in LogRoutings \cap stored : names[r] \subseteq LogStorages \cap (stored \cup removed)
    /\ \A r \in MetricsRoutings \cap stored :
         names[r] \subseteq MetricsStorages \cap (stored \cup removed)

\* A notification routing comes after those whose creation was answered before
\* its own was asked for, deletions in between or not, until it is reordered.
NewRoutingsComeLast ==
    \A r \in Routings \cap stored : \A q \in earlier[r] : rank[q] < rank[r]
=============================================================================
