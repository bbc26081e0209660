------------------------------ MODULE EventBus ------------------------------
(***************************************************************************)
(* The data plane of the EventBus mock: schedules fire on their boundaries,*)
(* triggers on injected events, and a firing resolves a process            *)
(* configuration, forwards the job, is recorded and sets a Status.         *)
(*                                                                         *)
(* dataPlane.mu guards lastTick and deliveries, MemoryStore.mu the items.  *)
(* Nothing holds either lock across a tick: a tick claims its window, lists*)
(* the schedules, and fires boundary after boundary, each in four steps.   *)
(* The scheduler goroutine and every request to the mock-only endpoints run*)
(* ticks and events of their own, concurrently with the API requests that  *)
(* create, update and delete the items.  Each of them is a worker here.    *)
(*                                                                         *)
(* Time is in ticks, Minute of them to a minute.  A list of firings in the *)
(* order (schedule, boundary) is the set of them, consumed in that order.  *)
(***************************************************************************)
EXTENDS Integers, FiniteSets, Sequences

CONSTANTS
    Workers,    \* ticks and events that can be in flight at once
    Scheduler,  \* the worker that is the scheduler goroutine, or None
    Apis,       \* API requests that can be in flight at once
    None,       \* no item, no value
    Shapes,     \* when a schedule fires: the settings a request may give
    Sources,    \* event sources
    Minute,     \* ticks to a minute
    MaxFires,   \* maxFiresPerTick
    Linked,     \* a forwarder is configured
    MaxTime,    \* bound on the clock and on the times a tick asks for
    MaxItems,   \* bound on the items ever created
    MaxEvents,  \* bound on the events ever injected
    MaxEdits    \* bound on the updates ever requested

Times   == 1 .. MaxTime
ItemIds == 1 .. MaxItems

\* scheduleSettings: the first boundary not before start, and either the
\* minutes a Crontab matches (interval 0) or the recurring interval.
Shape == [start : Times, interval : Nat, minutes : SUBSET Nat]

ASSUME ConstantsAssumption ==
    /\ Minute \in Nat \ {0}
    /\ MaxFires \in Nat \ {0}
    /\ Linked \in BOOLEAN
    /\ MaxTime \in Nat \ {0}
    /\ MaxItems \in Nat
    /\ MaxEvents \in Nat
    /\ MaxEdits \in Nat
    /\ Shapes \subseteq Shape
    /\ None \notin ItemIds

VARIABLES
    clock,       \* dataPlane.now()
    items,       \* MemoryStore.items: id -> item
    status,      \* the Status of each item
    lastId,      \* the ids MemoryStore.ids has given out
    lastTick,    \* dataPlane.lastTick
    deliveries,  \* dataPlane.deliveries
    work,        \* one tick or event per worker
    api,         \* one request per API client, between its check and its effect
    injected,    \* events ever injected
    edits,       \* updates ever requested
    since,       \* per item, lastTick when its settings were last set (history)
    fired        \* every firing ever recorded (history)

vars == <<clock, items, status, lastId, lastTick, deliveries, work, api,
          injected, edits, since, fired>>

-----------------------------------------------------------------------------
(* Types *)

Classes      == {"process", "schedule", "trigger"}
Destinations == {"simplemq", "autoscale"}  \* simplenotification is as simplemq

\* A ServiceItem, with the settings of its class and None for the others.
Item == [class : Classes, shape : Shapes \cup {None},
         source : Sources \cup {None}, pc : ItemIds \cup {None},
         dest : Destinations \cup {None}]

Firing   == [src : ItemIds, at : Times, pc : ItemIds]
Delivery == [src : ItemIds, class : Classes, at : Times,
             dest : Destinations \cup {None}, ok : BOOLEAN]
Status   == [at : Times, ok : BOOLEAN]

ASSUME NoneAssumption ==
    None \notin Item /\ None \notin Firing /\ None \notin Status
    /\ None \notin Sources /\ None \notin Shapes /\ None \notin Destinations

Stages  == {"idle", "claimed", "firing", "forward", "record", "status"}
Work    == [stage : Stages, class : Classes, from : 0 .. MaxTime, at : 0 .. MaxTime,
            source : Sources \cup {None}, todo : SUBSET Firing,
            cur : Firing \cup {None}, dest : Destinations \cup {None}, ok : BOOLEAN]
Request == [id : ItemIds \cup {None}, item : Item]

TypeOK ==
    /\ clock \in Times
    /\ items \in [ItemIds -> Item \cup {None}]
    /\ status \in [ItemIds -> Status \cup {None}]
    /\ lastId \in 0 .. MaxItems
    /\ lastTick \in Times
    /\ deliveries \in Seq(Delivery)
    /\ work \in [Workers -> Work]
    /\ api \in [Apis -> Request \cup {None}]
    /\ injected \in 0 .. MaxEvents
    /\ edits \in 0 .. MaxEdits
    /\ since \in [ItemIds -> 0 .. MaxTime]
    /\ fired \in SUBSET Firing

-----------------------------------------------------------------------------
(* When a schedule fires *)

\* The first MaxFires members of a set of times.
FirstFires(S) == {b \in S : Cardinality({a \in S : a < b}) < MaxFires}

\* Crontab.Next, from t on: every matching minute after t, up to at.
CrontabAfter(s, t, at) ==
    {b \in Times : t < b /\ b <= at /\ b % Minute = 0 /\ b \div Minute \in s.minutes}

\* Mutations: the recurring branch steps back from the window's start instead
\* of forward; the window is open at its end.
DueBackward(s, windowStart, at) ==
    LET n     == (windowStart - s.start) \div s.interval
        first == s.start + (n - 1) * s.interval
    IN  IF s.interval = 0 THEN {} ELSE FirstFires({b \in first .. at : (b - first) % s.interval = 0})

DueOpen(s, windowStart, at) ==
    FirstFires({b \in Times : /\ windowStart < b /\ b < at /\ s.start <= b
                              /\ s.interval # 0 /\ (b - s.start) % s.interval = 0})

DueBoundaries(s, windowStart, at) ==
    IF s.interval = 0
    THEN LET from == IF s.start > windowStart THEN s.start - Minute ELSE windowStart
         IN  FirstFires({b \in CrontabAfter(s, from, at) : b >= s.start})
    ELSE LET n     == (windowStart - s.start) \div s.interval
             first == IF windowStart < s.start THEN s.start
                      ELSE s.start + (n + 1) * s.interval
         IN  FirstFires({b \in first .. at : (b - first) % s.interval = 0})

-----------------------------------------------------------------------------
(* Ticks and events *)

IdleWork == [stage |-> "idle", class |-> "schedule", from |-> 0, at |-> 0,
             source |-> None, todo |-> {}, cur |-> None, dest |-> None, ok |-> TRUE]

\* Mutation: the window is not claimed until later.
ClaimNothing(w, at) ==
    /\ work[w].stage = "idle"
    /\ at > lastTick
    /\ work' = [work EXCEPT ![w] = [IdleWork EXCEPT !.stage = "claimed",
                                                    !.from = lastTick, !.at = at]]
    /\ UNCHANGED <<clock, items, status, lastId, lastTick, deliveries, api,
                   injected, edits, since, fired>>

\* tick claims the window (lastTick, at]; an earlier time claims nothing.
Claim(w, at) ==
    /\ work[w].stage = "idle"
    /\ at > lastTick
    /\ lastTick' = at
    /\ work' = [work EXCEPT ![w] = [IdleWork EXCEPT !.stage = "claimed",
                                                    !.from = lastTick, !.at = at]]
    /\ UNCHANGED <<clock, items, status, lastId, deliveries, api, injected,
                   edits, since, fired>>

\* injectEvent reads the clock before it lists the triggers.
Inject(w, source) ==
    /\ work[w].stage = "idle"
    /\ injected < MaxEvents
    /\ injected' = injected + 1
    /\ work' = [work EXCEPT ![w] = [IdleWork EXCEPT !.stage = "claimed",
                                      !.class = "trigger", !.at = clock,
                                      !.source = source]]
    /\ UNCHANGED <<clock, items, status, lastId, lastTick, deliveries, api,
                   edits, since, fired>>

Of(class) == {i \in ItemIds : items[i] # None /\ items[i].class = class}

\* The firings of a window, or of an event, given the items as they are now.
ToFire(k) ==
    IF k.class = "schedule"
    THEN UNION {{[src |-> i, at |-> b, pc |-> items[i].pc] :
                    b \in DueBoundaries(items[i].shape, k.from, k.at)} :
                i \in Of("schedule")}
    ELSE {[src |-> i, at |-> k.at, pc |-> items[i].pc] :
             i \in {t \in Of("trigger") : items[t].source = k.source}}

List(w) ==
    /\ work[w].stage = "claimed"
    /\ work' = [work EXCEPT ![w].stage = "firing", ![w].todo = ToFire(work[w])]
    /\ UNCHANGED <<clock, items, status, lastId, lastTick, deliveries, api,
                   injected, edits, since, fired>>

\* Mutation: the boundaries of a schedule come latest first.
BeforeReversed(f, g) == f.src < g.src \/ (f.src = g.src /\ f.at >= g.at)

\* ListItems sorts by id, and the boundaries of a schedule come in order.
Before(f, g) == f.src < g.src \/ (f.src = g.src /\ f.at <= g.at)

\* fire takes the next firing and reads its process configuration.
Resolve(w) ==
    /\ work[w].stage = "firing"
    /\ \E f \in work[w].todo :
         /\ \A g \in work[w].todo : Before(f, g)
         /\ LET found == items[f.pc] # None /\ items[f.pc].class = "process"
            IN  work' = [work EXCEPT
                  ![w].todo = @ \ {f}, ![w].cur = f, ![w].ok = found,
                  ![w].dest = IF found THEN items[f.pc].dest ELSE None,
                  ![w].stage = IF found /\ Linked THEN "forward" ELSE "record"]
    /\ UNCHANGED <<clock, items, status, lastId, lastTick, deliveries, api,
                   injected, edits, since, fired>>

\* forward answers within its timeout; only simplemq jobs can fail there.
Forward(w, ok) ==
    /\ work[w].stage = "forward"
    /\ ok \/ work[w].dest = "simplemq"
    /\ work' = [work EXCEPT ![w].ok = ok, ![w].stage = "record"]
    /\ UNCHANGED <<clock, items, status, lastId, lastTick, deliveries, api,
                   injected, edits, since, fired>>

Record(w) ==
    LET k == work[w]
    IN  /\ k.stage = "record"
        /\ deliveries' = Append(deliveries,
                           [src |-> k.cur.src, class |-> k.class, at |-> k.cur.at,
                            dest |-> k.dest, ok |-> k.ok])
        /\ fired' = fired \cup {k.cur}
        /\ work' = [work EXCEPT ![w].stage = "status"]
        /\ UNCHANGED <<clock, items, status, lastId, lastTick, api, injected,
                       edits, since>>

\* Mutation: a failed firing ends the tick.
SetStatusOrStop(w) ==
    LET k == work[w]
    IN  /\ k.stage = "status"
        /\ status' = IF items[k.cur.src] # None
                     THEN [status EXCEPT ![k.cur.src] = [at |-> k.cur.at, ok |-> k.ok]]
                     ELSE status
        /\ work' = IF k.ok THEN [work EXCEPT ![w].stage = "firing", ![w].cur = None]
                           ELSE [work EXCEPT ![w] = IdleWork]
        /\ UNCHANGED <<clock, items, lastId, lastTick, deliveries, api,
                       injected, edits, since, fired>>

\* SetStatus does nothing to an item that has gone.
SetStatus(w) ==
    LET k == work[w]
    IN  /\ k.stage = "status"
        /\ status' = IF items[k.cur.src] # None
                     THEN [status EXCEPT ![k.cur.src] = [at |-> k.cur.at, ok |-> k.ok]]
                     ELSE status
        /\ work' = [work EXCEPT ![w].stage = "firing", ![w].cur = None]
        /\ UNCHANGED <<clock, items, lastId, lastTick, deliveries, api,
                       injected, edits, since, fired>>

Finish(w) ==
    /\ work[w].stage = "firing"
    /\ work[w].todo = {}
    /\ work' = [work EXCEPT ![w] = IdleWork]
    /\ UNCHANGED <<clock, items, status, lastId, lastTick, deliveries, api,
                   injected, edits, since, fired>>

ClearDeliveries ==
    /\ deliveries' = << >>
    /\ UNCHANGED <<clock, items, status, lastId, lastTick, work, api, injected,
                   edits, since, fired>>

-----------------------------------------------------------------------------
(* The API *)

NewItem(class) == [class |-> class, shape |-> None, source |-> None,
                   pc |-> None, dest |-> None]

\* Mutation: any item will do.
ExistingAny(id) == items[id] # None

\* checkProcessConfiguration.
Existing(id) == items[id] # None /\ items[id].class = "process"

\* The settings that validateSettings accepts now.
ValidItem ==
    {[NewItem("process") EXCEPT !.dest = d] : d \in Destinations}
    \cup UNION {{[NewItem("schedule") EXCEPT !.shape = s, !.pc = p] : s \in Shapes}
                 \cup {[NewItem("trigger") EXCEPT !.source = s, !.pc = p] : s \in Sources} :
               p \in {i \in ItemIds : Existing(i)}}

\* handleCreateItem and handleUpdateItem validate first ...
Validate(c, id, item) ==
    /\ api[c] = None
    /\ item \in ValidItem
    /\ IF id = None
       THEN lastId < MaxItems /\ UNCHANGED edits
       ELSE /\ items[id] # None /\ items[id].class = item.class
            /\ edits < MaxEdits
            /\ edits' = edits + 1
    /\ api' = [api EXCEPT ![c] = [id |-> id, item |-> item]]
    /\ UNCHANGED <<clock, items, status, lastId, lastTick, deliveries, work,
                   injected, since, fired>>

\* ... and store afterwards, under a lock taken anew.
CreateItem(c) ==
    /\ api[c] # None
    /\ api[c].id = None
    /\ lastId < MaxItems
    /\ lastId' = lastId + 1
    /\ items' = [items EXCEPT ![lastId + 1] = api[c].item]
    /\ since' = [since EXCEPT ![lastId + 1] = lastTick]
    /\ api' = [api EXCEPT ![c] = None]
    /\ UNCHANGED <<clock, status, lastTick, deliveries, work, injected, edits, fired>>

UpdateItem(c) ==
    /\ api[c] # None
    /\ api[c].id # None
    /\ LET id == api[c].id
       IN  IF items[id] = None
           THEN UNCHANGED <<items, since>>
           ELSE /\ items' = [items EXCEPT ![id] = api[c].item]
                /\ since' = [since EXCEPT ![id] = lastTick]
    /\ api' = [api EXCEPT ![c] = None]
    /\ UNCHANGED <<clock, status, lastId, lastTick, deliveries, work, injected,
                   edits, fired>>

DeleteItem(id) ==
    /\ items[id] # None
    /\ items' = [items EXCEPT ![id] = None]
    /\ status' = [status EXCEPT ![id] = None]
    /\ UNCHANGED <<clock, lastId, lastTick, deliveries, work, api, injected,
                   edits, since, fired>>

Pass ==
    /\ clock < MaxTime
    /\ clock' = clock + 1
    /\ UNCHANGED <<items, status, lastId, lastTick, deliveries, work, api,
                   injected, edits, since, fired>>

-----------------------------------------------------------------------------
Init ==
    /\ clock = 1
    /\ items = [i \in ItemIds |-> None]
    /\ status = [i \in ItemIds |-> None]
    /\ lastId = 0
    /\ lastTick = 1
    /\ deliveries = << >>
    /\ work = [w \in Workers |-> IdleWork]
    /\ api = [c \in Apis |-> None]
    /\ injected = 0 /\ edits = 0
    /\ since = [i \in ItemIds |-> 0]
    /\ fired = {}

\* The scheduler ticks at the current time, a request at any time it likes.
Start(w) ==
    IF w = Scheduler
    THEN Claim(w, clock)
    ELSE \/ \E at \in Times : Claim(w, at)
         \/ \E s \in Sources : Inject(w, s)

Step(w) == List(w) \/ Resolve(w) \/ (\E ok \in BOOLEAN : Forward(w, ok))
           \/ Record(w) \/ SetStatus(w) \/ Finish(w)

Api(c) ==
    \/ \E id \in ItemIds \cup {None}, item \in ValidItem : Validate(c, id, item)
    \/ CreateItem(c) \/ UpdateItem(c)

Next ==
    \/ \E w \in Workers : Start(w) \/ Step(w)
    \/ \E c \in Apis : Api(c)
    \/ \E i \in ItemIds : DeleteItem(i)
    \/ ClearDeliveries
    \/ Pass

Spec == Init /\ [][Next]_vars

\* The scheduler's goroutine ticks every minute, and a tick it began goes on:
\* the only wait in it, forwarding a job, ends at its timeout.  A request's
\* goroutine goes on for the same reason.
FairSpec == /\ Spec
            /\ \A w \in Workers : WF_vars(Step(w))
            /\ Scheduler \in Workers => WF_vars(Claim(Scheduler, clock))

-----------------------------------------------------------------------------
(* Safety *)

\* What a schedule's settings say: the times it is to fire at.
Boundary(s, b) ==
    /\ b >= s.start
    /\ IF s.interval = 0 THEN b % Minute = 0 /\ b \div Minute \in s.minutes
                         ELSE (b - s.start) % s.interval = 0

\* "Advancing lastTick makes a boundary fire exactly once across successive
\* ticks": however ticks overlap, no schedule is recorded as having fired
\* twice for one boundary.
FiredOnce ==
    \A i, j \in 1 .. Len(deliveries) :
        /\ deliveries[i].class = "schedule"
        /\ deliveries[j].class = "schedule"
        /\ deliveries[i].src = deliveries[j].src
        /\ deliveries[i].at = deliveries[j].at
        => i = j

\* The boundary b of schedule i is in hand: some tick has it still to fire.
InHand(i, b) ==
    \E w \in Workers :
        LET k == work[w]
        IN  /\ k.class = "schedule"
            /\ \/ k.stage = "claimed" /\ k.from < b /\ b <= k.at
               \/ \E f \in k.todo \cup ({k.cur} \ {None}) : f.src = i /\ f.at = b

Fired(i, b) == \E f \in fired : f.src = i /\ f.at = b

\* "Each tick fires every boundary in (last tick, now], never missing one":
\* what lastTick has moved past since the schedule got its settings has fired
\* or is in the hands of a tick.
NoneMissed ==
    \A i \in Of("schedule") : \A b \in Times :
        since[i] < b /\ b <= lastTick /\ Boundary(items[i].shape, b)
            => Fired(i, b) \/ InHand(i, b)

\* A schedule or trigger always refers to an item that is a process
\* configuration, or to nothing: its id never comes to mean another item.
ReferencesKeepClass ==
    \A i \in Of("schedule") \cup Of("trigger") :
        LET p == items[i].pc
        IN  p \in ItemIds /\ p <= lastId /\ (items[p] # None => items[p].class = "process")

\* "Its Status is unset until it fires, then reflects the latest firing": no
\* recorded firing of a live schedule is later than its Status, but the one
\* whose Status is being set.
StatusIsLatest ==
    \A i \in 1 .. Len(deliveries) :
        LET d == deliveries[i]
        IN  /\ d.class = "schedule"
            /\ items[d.src] # None
            /\ \A w \in Workers : work[w].cur # None => work[w].cur.src # d.src
            => status[d.src] # None /\ status[d.src].at >= d.at

-----------------------------------------------------------------------------
(* Liveness *)

\* Every boundary of a schedule that stays as it is fires in the end.
EveryBoundaryFires ==
    \A i \in ItemIds, b \in Times :
        (/\ i \in Of("schedule") /\ Boundary(items[i].shape, b)
         /\ since[i] < b /\ b <= clock)
        ~> (\/ Fired(i, b)
            \/ i \notin Of("schedule")
            \/ b <= since[i] \/ ~ Boundary(items[i].shape, b))
=============================================================================
