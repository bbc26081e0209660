--------------------------- MODULE EventBus_proofs ---------------------------
(***************************************************************************)
(* Proofs about the data plane of EventBus, for any number of workers, API *)
(* requests, items and events, and any schedules.                          *)
(*                                                                         *)
(* FiredOnce rests on the windows that ticks claim: each begins where the  *)
(* one before it ended, so no two ticks in flight share a time, and what a *)
(* tick has in hand lies in its own window and was not recorded (Windows,  *)
(* AllFresh).  NoneMissed needs no more than that a tick lists the         *)
(* schedules as they are, and ReferencesKeepClass that ids are never given *)
(* again.  StatusIsLatest holds when ticks and events do not overlap: a    *)
(* tick then fires nothing earlier than what has been delivered            *)
(* (StatusInv).                                                            *)
(***************************************************************************)
EXTENDS EventBus, FiniteSetTheorems, SequenceTheorems, TLAPS

\* What a tick or event has in hand, stage by stage.
InStage(k) ==
    /\ k.stage \in {"forward", "record", "status"} <=> k.cur # None
    /\ k.stage \in {"idle", "claimed"} => k.todo = {}
    /\ k.stage = "status" => k.cur \in fired
    /\ k.class = "schedule" \/ (k.class = "trigger" /\ k.at \in Times)

Ticking(k) == k.stage # "idle" /\ k.class = "schedule"

\* The firings a worker has still to record.
Unrecorded(k) == k.todo \cup (IF k.stage \in {"forward", "record"} THEN {k.cur} ELSE {})

\* A tick fires no boundary twice, and all of them in the window it has claimed.
InWindow(k) ==
    Ticking(k) =>
        /\ k.from < k.at /\ k.at <= lastTick
        /\ \A f \in k.todo \cup ({k.cur} \ {None}) : k.from < f.at /\ f.at <= k.at
        /\ \A f, g \in Unrecorded(k) : f.src = g.src /\ f.at = g.at => f = g
        /\ k.cur \notin k.todo

\* A delivery is of no boundary a worker has in hand, listed or not.
Fresh(k) ==
    Ticking(k) =>
        \A i \in 1 .. Len(deliveries) : deliveries[i].class = "schedule" =>
            /\ k.stage = "claimed" =>
                 ~ (k.from < deliveries[i].at /\ deliveries[i].at <= k.at)
            /\ \A f \in Unrecorded(k) : ~ (f.src = deliveries[i].src /\ f.at = deliveries[i].at)

WorkOK(k) == InStage(k) /\ InWindow(k) /\ Fresh(k)

\* Windows do not overlap.
Apart(k, j) == Ticking(k) /\ Ticking(j) => k.at <= j.from \/ j.at <= k.from

Windows == \A v, w \in Workers : v # w => Apart(work[v], work[w])

DeliveredBefore ==
    \A i \in 1 .. Len(deliveries) :
        deliveries[i].class = "schedule" => deliveries[i].at <= lastTick

\* An id names one item for good, of one class, and what refers to it, or is
\* about to, was checked against that.
Settled(item) ==
    /\ item.class = "schedule" => item.shape \in Shapes
    /\ item.class # "process" =>
         /\ item.pc \in ItemIds /\ item.pc <= lastId
         /\ items[item.pc] # None => items[item.pc].class = "process"

Stored == \A i \in ItemIds : items[i] # None => i <= lastId /\ Settled(items[i])

Pending(r) ==
    /\ Settled(r.item)
    /\ r.id # None =>
         /\ r.id <= lastId
         /\ items[r.id] # None => items[r.id].class = r.item.class

WorkersOK  == \A w \in Workers : WorkOK(work[w])
RequestsOK == \A c \in Apis : api[c] # None => Pending(api[c])

TickInv == WorkersOK /\ Windows /\ DeliveredBefore /\ FiredOnce
ItemInv == Stored /\ RequestsOK

IInv == TypeOK /\ TickInv /\ ItemInv

-----------------------------------------------------------------------------
(* When a schedule fires *)

\* A recurring schedule's boundaries after a time begin with the next multiple
\* of its interval: the next one of the division is after it, and there is none
\* before.
LEMMA NextMultiple ==
  ASSUME NEW a \in Nat, NEW d \in Nat \ {0}
  PROVE  /\ a \div d \in Nat
         /\ a < (a \div d + 1) * d
         /\ \A b \in Nat : b > a /\ b % d = 0 => b >= (a \div d + 1) * d
                                             /\ (b - (a \div d + 1) * d) % d = 0
<1> DEFINE n == a \div d
<1>1. n \in Nat /\ a = d * n + (a % d) /\ a % d \in 0 .. d - 1
  OBVIOUS
<1>2. a < (n + 1) * d
  BY <1>1
<1>3. ASSUME NEW b \in Nat, b > a, b % d = 0
      PROVE  b >= (n + 1) * d /\ (b - (n + 1) * d) % d = 0
  <2> DEFINE k == b \div d
  <2>1. k \in Nat /\ b = d * k
    BY <1>3
  <2> HIDE DEF n, k
  <2>2. n < k
    BY <1>1, <1>3, <2>1
  <2>3. k - (n + 1) \in Nat
    BY <1>1, <2>1, <2>2
  <2>4. b - (n + 1) * d = (k - (n + 1)) * d
    BY <1>1, <2>1
  <2>5. \A m \in Nat : (m * d) % d = 0 /\ m * d >= 0
    OBVIOUS
  <2> QED
    BY <1>1, <2>1, <2>3, <2>4, <2>5
<1> QED
  BY <1>1, <1>2, <1>3

\* The boundaries in a window, before any are left out.
InReach(s, from, at) ==
    IF s.interval = 0
    THEN LET start == IF s.start > from THEN s.start - Minute ELSE from
         IN  {b \in CrontabAfter(s, start, at) : b >= s.start}
    ELSE LET n     == (from - s.start) \div s.interval
             first == IF from < s.start THEN s.start ELSE s.start + (n + 1) * s.interval
         IN  {b \in first .. at : (b - first) % s.interval = 0}

LEMMA DueIsFirst ==
  ASSUME NEW s, NEW from, NEW at
  PROVE  DueBoundaries(s, from, at) = FirstFires(InReach(s, from, at))
  BY DEF DueBoundaries, InReach

\* They are the times in the window that the settings say, all of them and no
\* other.
LEMMA ReachIsWindow ==
  ASSUME NEW s \in Shapes, NEW from \in 0 .. MaxTime, NEW at \in 0 .. MaxTime
  PROVE  InReach(s, from, at) = {b \in Times : from < b /\ b <= at /\ Boundary(s, b)}
<1>1. /\ s.start \in Times /\ s.start \in Nat /\ s.start >= 1 /\ s.interval \in Nat
      /\ MaxTime \in Nat /\ Minute \in Nat \ {0} /\ from \in Nat /\ at \in Nat /\ at <= MaxTime
  BY ConstantsAssumption DEF Shape, Times
<1>2. CASE s.interval = 0
  BY <1>1, <1>2 DEF InReach, CrontabAfter, Boundary, Times
<1>3. CASE s.interval # 0
  <2> DEFINE d == s.interval
             n == (from - s.start) \div d
             first == IF from < s.start THEN s.start ELSE s.start + (n + 1) * d
  <2>1. d \in Nat \ {0}
    BY <1>1, <1>3
  <2>2. /\ first \in Nat /\ first >= s.start /\ first > from
        /\ \A b \in Nat : (b - first) % d = 0 /\ b >= first => (b - s.start) % d = 0
        /\ \A b \in Nat : b >= s.start /\ b > from /\ (b - s.start) % d = 0
                         => b >= first /\ (b - first) % d = 0
    <3>1. CASE from < s.start
      BY <1>1, <3>1
    <3>2. CASE from >= s.start
      <4> DEFINE a == from - s.start
                 m == (n + 1) * d
      <4>1. a \in Nat /\ n = a \div d
        BY <1>1, <3>2
      <4>2. n \in Nat /\ a < m
        BY <2>1, <4>1, NextMultiple
      <4>3. \A b \in Nat : b > a /\ b % d = 0 => b >= m /\ (b - m) % d = 0
        BY <2>1, <4>1, NextMultiple
      <4>4. m \in Nat /\ m = (n + 1) * d
        BY <2>1, <4>2
      <4>5. first = s.start + m
        BY <1>1, <3>2
      <4>6. \A b \in Nat : b % d = 0 => (b + m) % d = 0
        <5> SUFFICES ASSUME NEW b \in Nat, b % d = 0
                     PROVE  (b + m) % d = 0
          OBVIOUS
        <5> HIDE DEF d, n, m
        <5>1. \A x \in Nat : (x * d) % d = 0
          BY <2>1
        <5>2. b = (b \div d) * d /\ b \div d \in Nat
          BY <2>1
        <5>3. b + m = (b \div d + n + 1) * d
          BY <2>1, <4>2, <4>4, <5>2
        <5>4. b \div d + n + 1 \in Nat
          BY <4>2, <5>2
        <5> QED
          BY <5>1, <5>3, <5>4
      <4> HIDE DEF d, n, m
      <4>7. ASSUME NEW b \in Nat, (b - first) % d = 0, b >= first
            PROVE  (b - s.start) % d = 0
        <5>1. b - first \in Nat /\ b - s.start = (b - first) + m
          BY <1>1, <4>4, <4>5, <4>7
        <5> QED
          BY <4>6, <4>7, <5>1
      <4>8. ASSUME NEW b \in Nat, b >= s.start, b > from, (b - s.start) % d = 0
            PROVE  b >= first /\ (b - first) % d = 0
        <5>1. b - s.start \in Nat /\ b - s.start > a
          BY <1>1, <4>8
        <5>2. b - s.start >= m /\ ((b - s.start) - m) % d = 0
          BY <4>3, <4>8, <5>1
        <5>3. b - first = (b - s.start) - m
          BY <1>1, <4>4, <4>5
        <5> QED
          BY <1>1, <4>4, <4>5, <5>2, <5>3
      <4>9. first \in Nat /\ first >= s.start /\ first > from
        BY <1>1, <4>2, <4>4, <4>5
      <4> QED
        BY <4>7, <4>8, <4>9
    <3> QED
      BY <1>1, <3>1, <3>2
  <2>3. InReach(s, from, at) = {b \in first .. at : (b - first) % d = 0}
    BY <1>3 DEF InReach
  <2>4. \A b : Boundary(s, b) <=> b >= s.start /\ (b - s.start) % d = 0
    BY <1>3 DEF Boundary
  <2> HIDE DEF d, first
  <2> QED
    BY <1>1, <2>2, <2>3, <2>4 DEF Times
<1> QED
  BY <1>2, <1>3

LEMMA DueInWindow ==
  ASSUME NEW s \in Shapes, NEW from \in 0 .. MaxTime, NEW at \in 0 .. MaxTime,
         NEW b \in DueBoundaries(s, from, at)
  PROVE  b \in Times /\ from < b /\ b <= at
<1>1. b \in InReach(s, from, at)
  BY DueIsFirst DEF FirstFires
<1> QED
  BY <1>1, ReachIsWindow

\* No schedule has more boundaries than a tick fires of one.
CapSuffices == \A s \in Shapes : Cardinality({b \in Times : Boundary(s, b)}) <= MaxFires

LEMMA AllDue ==
  ASSUME CapSuffices,
         NEW s \in Shapes, NEW from \in 0 .. MaxTime, NEW at \in 0 .. MaxTime,
         NEW b \in Times, Boundary(s, b), from < b, b <= at
  PROVE  b \in DueBoundaries(s, from, at)
<1> DEFINE S == InReach(s, from, at)
           B == {x \in Times : Boundary(s, x)}
<1>1. b \in S /\ S \subseteq B
  BY ReachIsWindow
<1>2. IsFiniteSet(B) /\ Cardinality(B) \in Nat
  <2>1. IsFiniteSet(Times)
    BY FS_Interval, ConstantsAssumption DEF Times
  <2> QED
    BY <2>1, FS_Subset, FS_CardinalityType
<1>3. /\ {a \in S : a < b} \subseteq B \ {b}
      /\ IsFiniteSet(B \ {b}) /\ Cardinality(B \ {b}) = Cardinality(B) - 1
  <2>1. b \in B /\ ~ (b < b)
    BY <1>1 DEF Times
  <2> QED
    BY <1>1, <1>2, <2>1, FS_RemoveElement
<1>4. /\ Cardinality({a \in S : a < b}) <= Cardinality(B) - 1
      /\ Cardinality({a \in S : a < b}) \in Nat
  BY <1>3, FS_Subset, FS_CardinalityType
<1>5. Cardinality({a \in S : a < b}) < MaxFires
  BY <1>2, <1>4, ConstantsAssumption DEF CapSuffices
<1> QED
  BY <1>1, <1>5, DueIsFirst DEF FirstFires

-----------------------------------------------------------------------------
(* Steps of a worker *)

\* The item invariants rest on the items, the ids given out and the requests.
LEMMA ItemsKept ==
  ASSUME ItemInv, UNCHANGED <<items, lastId, api>>
  PROVE  ItemInv'
  BY DEF ItemInv, Stored, RequestsOK, Settled, Pending

\* A worker goes on with what it has in hand, or leaves off.
LEMMA WorkerMoves ==
  ASSUME IInv, UNCHANGED <<clock, items, lastId, lastTick, deliveries, api, edits, since, fired>>,
         NEW w \in Workers, NEW k \in Work, WorkOK(k),
         work' = [work EXCEPT ![w] = k],
         Ticking(k) => Ticking(work[w]) /\ k.from = work[w].from /\ k.at = work[w].at,
         status' \in [ItemIds -> Status \cup {None}],
         injected' \in 0 .. MaxEvents
  PROVE  IInv'
<1>1. work \in [Workers -> Work] /\ \A v \in Workers : work'[v] = IF v = w THEN k ELSE work[v]
  BY DEF IInv, TypeOK
<1>2. TypeOK'
  BY <1>1 DEF IInv, TypeOK
<1>3. WorkersOK'
  <2> SUFFICES ASSUME NEW v \in Workers
               PROVE  WorkOK(work[v])'
    BY DEF WorkersOK
  <2>1. WorkOK(work'[v])
    BY <1>1 DEF IInv, TickInv, WorkersOK
  <2> QED
    BY <2>1 DEF WorkOK, InStage, InWindow, Fresh, Ticking, Unrecorded
<1>4. Windows'
  BY <1>1 DEF IInv, TickInv, Windows, Apart, Ticking
<1>5. DeliveredBefore' /\ FiredOnce'
  BY DEF IInv, TickInv, DeliveredBefore, FiredOnce
<1> QED
  BY <1>2, <1>3, <1>4, <1>5, ItemsKept DEF IInv, TickInv

LEMMA IdleOK ==
  IdleWork \in Work /\ ~ Ticking(IdleWork) /\ WorkOK(IdleWork)
  BY ConstantsAssumption
     DEF IdleWork, Work, Stages, Classes, WorkOK, InStage, InWindow, Fresh, Ticking

\* A tick claims the times since the last one, which no other tick has.
LEMMA ClaimStep ==
  ASSUME IInv, NEW w \in Workers, NEW at \in Times, Claim(w, at)
  PROVE  IInv'
<1> DEFINE k == [IdleWork EXCEPT !.stage = "claimed", !.from = lastTick, !.at = at]
<1>1. /\ k \in Work /\ k.stage = "claimed" /\ k.class = "schedule"
      /\ k.from = lastTick /\ k.at = at /\ k.todo = {} /\ k.cur = None
      /\ lastTick \in Times /\ at \in Nat /\ lastTick \in Nat
  <2>1. /\ lastTick \in Times /\ lastTick \in Nat /\ lastTick \in 0 .. MaxTime
        /\ at \in Nat /\ at \in 0 .. MaxTime
    BY ConstantsAssumption DEF IInv, TypeOK, Times
  <2>2. IdleWork \in Work /\ "claimed" \in Stages
    BY IdleOK DEF Stages
  <2>3. IdleWork.class = "schedule" /\ IdleWork.todo = {} /\ IdleWork.cur = None
    BY DEF IdleWork
  <2> QED
    BY <2>1, <2>2, <2>3 DEF Work
<1>2. /\ work' = [work EXCEPT ![w] = k]
      /\ lastTick' = at /\ at > lastTick
      /\ UNCHANGED <<clock, items, status, lastId, deliveries, api, injected, edits, since, fired>>
  BY DEF Claim
<1> HIDE DEF k
<1>3. work \in [Workers -> Work] /\ \A v \in Workers : work'[v] = IF v = w THEN k ELSE work[v]
  BY <1>2 DEF IInv, TypeOK
<1>4. TypeOK'
  BY <1>1, <1>2, <1>3 DEF IInv, TypeOK
<1>5. DeliveredBefore'
  <2>1. \A i \in 1 .. Len(deliveries) : deliveries[i] \in Delivery
    BY DEF IInv, TypeOK
  <2> QED
    BY <1>1, <1>2, <2>1 DEF IInv, TickInv, DeliveredBefore, Delivery, Times
<1>6. WorkersOK'
  <2> SUFFICES ASSUME NEW v \in Workers
               PROVE  WorkOK(work[v])'
    BY DEF WorkersOK
  <2>1. CASE v = w
    <3>1. work'[v] = k
      BY <1>3, <2>1
    <3>2. InStage(work[v])'
      BY <1>1, <3>1 DEF InStage
    <3>3. InWindow(work[v])'
      BY <1>1, <1>2, <3>1 DEF InWindow, Unrecorded
    <3>4. Fresh(work[v])'
      <4>1. \A i \in 1 .. Len(deliveries) : deliveries[i] \in Delivery
        BY DEF IInv, TypeOK
      <4> QED
        BY <1>1, <1>2, <3>1, <4>1
           DEF Fresh, Unrecorded, IInv, TickInv, DeliveredBefore, Delivery, Times
    <3> QED
      BY <3>2, <3>3, <3>4 DEF WorkOK
  <2>2. CASE v # w
    <3>1. work'[v] = work[v] /\ WorkOK(work[v]) /\ work[v] \in Work
      BY <1>3, <2>2 DEF IInv, TickInv, WorkersOK
    <3>2. InStage(work[v])' /\ Fresh(work[v])'
      BY <1>2, <3>1 DEF WorkOK, InStage, Fresh, Ticking, Unrecorded
    <3>3. work[v].at \in Int
      BY <3>1, ConstantsAssumption DEF Work
    <3>4. InWindow(work[v])'
      BY <1>1, <1>2, <3>1, <3>3 DEF WorkOK, InWindow, Ticking, Unrecorded
    <3> QED
      BY <3>2, <3>4 DEF WorkOK
  <2> QED
    BY <2>1, <2>2
<1>7. Windows'
  <2> SUFFICES ASSUME NEW v \in Workers, NEW u \in Workers, v # u
               PROVE  Apart(work[v], work[u])'
    BY DEF Windows
  <2>1. \A x \in Workers : x # w /\ Ticking(work[x]) => work[x].at <= k.from
    BY <1>1 DEF IInv, TickInv, WorkersOK, WorkOK, InWindow
  <2>2. v # w /\ u # w => Apart(work[v], work[u])
    BY DEF IInv, TickInv, Windows
  <2> QED
    BY <1>3, <2>1, <2>2 DEF Apart, Ticking
<1>8. FiredOnce'
  BY <1>2 DEF IInv, TickInv, FiredOnce
<1> QED
  BY <1>2, <1>4, <1>5, <1>6, <1>7, <1>8, ItemsKept DEF IInv, TickInv

LEMMA InjectStep ==
  ASSUME IInv, NEW w \in Workers, NEW source \in Sources, Inject(w, source)
  PROVE  IInv'
<1> DEFINE k == [IdleWork EXCEPT !.stage = "claimed", !.class = "trigger", !.at = clock,
                                 !.source = source]
<1>1. /\ k \in Work /\ k.stage = "claimed" /\ k.class = "trigger"
      /\ k.todo = {} /\ k.cur = None /\ k.at \in Times
  <2>1. clock \in Times /\ clock \in 0 .. MaxTime
    BY ConstantsAssumption DEF IInv, TypeOK, Times
  <2>2. IdleWork \in Work /\ "claimed" \in Stages /\ "trigger" \in Classes
    BY IdleOK DEF Stages, Classes
  <2>3. IdleWork.todo = {} /\ IdleWork.cur = None
    BY DEF IdleWork
  <2> QED
    BY <2>1, <2>2, <2>3 DEF Work
<1>2. /\ work' = [work EXCEPT ![w] = k]
      /\ injected' \in 0 .. MaxEvents
      /\ UNCHANGED <<clock, items, status, lastId, lastTick, deliveries, api, edits, since, fired>>
  BY ConstantsAssumption DEF Inject, IInv, TypeOK
<1> HIDE DEF k
<1>3. WorkOK(k) /\ ~ Ticking(k)
  BY <1>1 DEF WorkOK, InStage, InWindow, Fresh, Ticking
<1>4. status' \in [ItemIds -> Status \cup {None}]
  BY <1>2 DEF IInv, TypeOK
<1> QED
  BY <1>1, <1>2, <1>3, <1>4, WorkerMoves

\* What a tick or event lists are firings of items there are, in its window, and
\* each boundary of a schedule once.
LEMMA ToFireOK ==
  ASSUME IInv, NEW w \in Workers, work[w].stage = "claimed"
  PROVE  /\ ToFire(work[w]) \subseteq Firing
         /\ \A f, g \in ToFire(work[w]) : f.src = g.src /\ f.at = g.at => f = g
         /\ \A f \in ToFire(work[w]) : f.src \in Of(work[w].class)
         /\ work[w].class = "schedule" =>
              \A f \in ToFire(work[w]) :
                /\ work[w].from < f.at /\ f.at <= work[w].at
                /\ f.at \in DueBoundaries(items[f.src].shape, work[w].from, work[w].at)
<1> DEFINE k == work[w]
<1>1. k \in Work /\ k.from \in 0 .. MaxTime /\ k.at \in 0 .. MaxTime
  BY DEF IInv, TypeOK, Work
<1>2. \A i \in Of("schedule") : i \in ItemIds /\ items[i].pc \in ItemIds /\ items[i].shape \in Shapes
  BY DEF IInv, ItemInv, Stored, Settled, Of
<1>3. \A i \in Of("trigger") : i \in ItemIds /\ items[i].pc \in ItemIds
  BY DEF IInv, ItemInv, Stored, Settled, Of
<1>4. CASE k.class = "schedule"
  <2>1. ASSUME NEW f \in ToFire(k)
        PROVE  \E i \in Of("schedule"), b \in DueBoundaries(items[f.src].shape, k.from, k.at) :
                 f = [src |-> i, at |-> b, pc |-> items[i].pc]
    BY <1>4, <2>1 DEF ToFire
  <2>2. ASSUME NEW f \in ToFire(k)
        PROVE  /\ f.src \in Of("schedule") /\ f = [src |-> f.src, at |-> f.at, pc |-> items[f.src].pc]
               /\ f.at \in Times /\ k.from < f.at /\ f.at <= k.at
               /\ f.at \in DueBoundaries(items[f.src].shape, k.from, k.at)
    BY <1>1, <1>2, <2>1, <2>2, DueInWindow
  <2> QED
    BY <1>2, <1>4, <2>2 DEF Firing
<1>5. CASE k.class # "schedule"
  <2>1. k.class = "trigger" /\ k.at \in Times
    BY <1>5 DEF IInv, TickInv, WorkersOK, WorkOK, InStage
  <2> QED
    BY <1>3, <1>5, <2>1 DEF ToFire, Firing
<1> QED
  BY <1>4, <1>5

LEMMA ListStep ==
  ASSUME IInv, NEW w \in Workers, List(w)
  PROVE  IInv'
<1> DEFINE k == [work[w] EXCEPT !.stage = "firing", !.todo = ToFire(work[w])]
<1>1. /\ work[w].stage = "claimed" /\ work[w] \in Work /\ WorkOK(work[w])
      /\ work' = [work EXCEPT ![w] = k]
      /\ UNCHANGED <<clock, items, status, lastId, lastTick, deliveries, api, injected,
                     edits, since, fired>>
  BY DEF List, IInv, TypeOK, TickInv, WorkersOK
<1>2. work[w].cur = None /\ work[w].todo = {}
  BY <1>1 DEF WorkOK, InStage
<1>3. /\ k \in Work /\ k.stage = "firing" /\ k.class = work[w].class /\ k.from = work[w].from
      /\ k.at = work[w].at /\ k.todo = ToFire(work[w]) /\ k.cur = None
  BY <1>1, <1>2, ToFireOK DEF Work, Stages
<1> HIDE DEF k
<1>4. InStage(k)
  BY <1>1, <1>3 DEF InStage, WorkOK
<1>9. Unrecorded(k) = ToFire(work[w])
  BY <1>3 DEF Unrecorded
<1>10. ASSUME Ticking(k)
       PROVE  /\ work[w].class = "schedule" /\ work[w].from < work[w].at
              /\ work[w].at <= lastTick
              /\ \A f \in ToFire(work[w]) : work[w].from < f.at /\ f.at <= work[w].at
              /\ \A i \in 1 .. Len(deliveries) : deliveries[i].class = "schedule" =>
                   ~ (work[w].from < deliveries[i].at /\ deliveries[i].at <= work[w].at)
  <2>1. work[w].class = "schedule" /\ Ticking(work[w])
    BY <1>1, <1>3, <1>10 DEF Ticking
  <2> QED
    BY <1>1, <2>1, ToFireOK DEF WorkOK, InWindow, Fresh
<1>5. InWindow(k)
  <2>1. None \notin ToFire(work[w])
    BY <1>1, ToFireOK, NoneAssumption
  <2>2. k.todo \cup ({k.cur} \ {None}) = ToFire(work[w])
    BY <1>3
  <2>3. \A f, g \in Unrecorded(k) : f.src = g.src /\ f.at = g.at => f = g
    BY <1>1, <1>9, ToFireOK
  <2> QED
    BY <1>3, <1>10, <2>1, <2>2, <2>3 DEF InWindow
<1>6. Fresh(k)
  BY <1>3, <1>9, <1>10 DEF Fresh
<1>7. status' \in [ItemIds -> Status \cup {None}] /\ injected' \in 0 .. MaxEvents
  BY <1>1 DEF IInv, TypeOK
<1>8. Ticking(k) => Ticking(work[w])
  BY <1>1, <1>3 DEF Ticking
<1> QED
  BY <1>1, <1>3, <1>4, <1>5, <1>6, <1>7, <1>8, WorkerMoves DEF WorkOK

\* Going on with a firing: what was in hand stays in hand, or less of it.
LEMMA GoesOn ==
  ASSUME IInv, UNCHANGED <<clock, items, lastId, lastTick, deliveries, api, injected, edits,
                           since, fired>>,
         NEW w \in Workers, NEW k \in Work,
         work' = [work EXCEPT ![w] = k], status' \in [ItemIds -> Status \cup {None}],
         work[w].stage \notin {"idle", "claimed"}, k.stage \notin {"idle", "claimed"},
         k.class = work[w].class, k.from = work[w].from, k.at = work[w].at,
         InStage(k), Unrecorded(k) \subseteq Unrecorded(work[w]),
         k.todo \subseteq work[w].todo, Ticking(k) => k.cur \notin k.todo,
         k.cur \in {None, work[w].cur} \cup work[w].todo
  PROVE  IInv'
<1>1. WorkOK(work[w]) /\ (Ticking(k) <=> Ticking(work[w]))
  BY DEF IInv, TickInv, WorkersOK, Ticking
<1>2. InWindow(k)
  BY <1>1 DEF WorkOK, InWindow
<1>3. Fresh(k)
  BY <1>1 DEF WorkOK, Fresh
<1>4. injected' \in 0 .. MaxEvents
  BY DEF IInv, TypeOK
<1> QED
  BY <1>1, <1>2, <1>3, <1>4, WorkerMoves DEF WorkOK

LEMMA ResolveStep ==
  ASSUME IInv, NEW w \in Workers, Resolve(w)
  PROVE  IInv'
<1>1. /\ work[w] \in Work /\ work[w].stage = "firing" /\ InStage(work[w])
      /\ UNCHANGED <<clock, items, status, lastId, lastTick, deliveries, api, injected,
                     edits, since, fired>>
  BY DEF Resolve, IInv, TypeOK, TickInv, WorkersOK, WorkOK
<1>2. PICK f \in work[w].todo :
        LET found == items[f.pc] # None /\ items[f.pc].class = "process"
        IN  work' = [work EXCEPT
                  ![w].todo = @ \ {f}, ![w].cur = f, ![w].ok = found,
                  ![w].dest = IF found THEN items[f.pc].dest ELSE None,
                  ![w].stage = IF found /\ Linked THEN "forward" ELSE "record"]
  BY DEF Resolve
<1> DEFINE found == items[f.pc] # None /\ items[f.pc].class = "process"
           dest  == IF found THEN items[f.pc].dest ELSE None
           stage == IF found /\ Linked THEN "forward" ELSE "record"
           k == [work[w] EXCEPT !.todo = @ \ {f}, !.cur = f, !.ok = found, !.dest = dest,
                                !.stage = stage]
<1>3. f \in Firing /\ f # None
  BY <1>1, NoneAssumption DEF Work
<1>4. found \in BOOLEAN /\ dest \in Destinations \cup {None} /\ stage \in {"forward", "record"}
  <2>1. f.pc \in ItemIds
    BY <1>3 DEF Firing
  <2> QED
    BY <2>1 DEF IInv, TypeOK, Item
<1>5. work' = [work EXCEPT ![w] = k]
  BY <1>2 DEF IInv, TypeOK
<1> HIDE DEF found, dest, stage
<1>6. /\ k \in Work /\ k.stage \in {"forward", "record"} /\ k.todo = work[w].todo \ {f}
      /\ k.cur = f /\ k.class = work[w].class /\ k.from = work[w].from /\ k.at = work[w].at
  BY <1>1, <1>3, <1>4 DEF Work, Stages
<1> HIDE DEF k
<1>7. InStage(k)
  BY <1>1, <1>3, <1>6 DEF InStage
<1>8. Unrecorded(k) \subseteq Unrecorded(work[w])
  BY <1>6 DEF Unrecorded
<1>9. status' \in [ItemIds -> Status \cup {None}]
  BY <1>1 DEF IInv, TypeOK
<1> QED
  BY <1>1, <1>5, <1>6, <1>7, <1>8, <1>9, GoesOn

LEMMA ForwardStep ==
  ASSUME IInv, NEW w \in Workers, NEW ok \in BOOLEAN, Forward(w, ok)
  PROVE  IInv'
<1> DEFINE k == [work[w] EXCEPT !.ok = ok, !.stage = "record"]
<1>1. /\ work[w] \in Work /\ work[w].stage = "forward" /\ WorkOK(work[w])
      /\ work' = [work EXCEPT ![w] = k]
      /\ UNCHANGED <<clock, items, status, lastId, lastTick, deliveries, api, injected,
                     edits, since, fired>>
  BY DEF Forward, IInv, TypeOK, TickInv, WorkersOK
<1>2. /\ k \in Work /\ k.stage = "record" /\ k.todo = work[w].todo /\ k.cur = work[w].cur
      /\ k.class = work[w].class /\ k.from = work[w].from /\ k.at = work[w].at
  BY <1>1 DEF Work, Stages
<1> HIDE DEF k
<1>3. InStage(k) /\ Unrecorded(k) = Unrecorded(work[w])
  BY <1>1, <1>2 DEF WorkOK, InStage, Unrecorded
<1>4. Ticking(k) => k.cur \notin k.todo
  BY <1>1, <1>2 DEF WorkOK, InWindow, Ticking
<1>5. status' \in [ItemIds -> Status \cup {None}]
  BY <1>1 DEF IInv, TypeOK
<1> QED
  BY <1>1, <1>2, <1>3, <1>4, <1>5, GoesOn

\* The firing in hand is recorded, and is nobody else's.
LEMMA RecordStep ==
  ASSUME IInv, NEW w \in Workers, Record(w)
  PROVE  IInv'
<1> DEFINE k == [work[w] EXCEPT !.stage = "status"]
           f == work[w].cur
           d == [src |-> f.src, class |-> work[w].class, at |-> f.at,
                 dest |-> work[w].dest, ok |-> work[w].ok]
<1>1. /\ work[w] \in Work /\ work[w].stage = "record" /\ WorkOK(work[w])
      /\ work' = [work EXCEPT ![w] = k]
      /\ deliveries' = Append(deliveries, d)
      /\ fired' = fired \cup {f}
      /\ UNCHANGED <<clock, items, status, lastId, lastTick, api, injected, edits, since>>
  BY DEF Record, IInv, TypeOK, TickInv, WorkersOK
<1>2. f \in Firing /\ f # None /\ f \in Unrecorded(work[w])
  BY <1>1 DEF WorkOK, InStage, Work, Unrecorded
<1>3. d \in Delivery /\ d.src = f.src /\ d.at = f.at /\ d.class = work[w].class
  BY <1>1, <1>2 DEF Delivery, Firing, Work
<1>4. /\ k \in Work /\ k.stage = "status" /\ k.todo = work[w].todo /\ k.cur = f
      /\ k.class = work[w].class /\ k.from = work[w].from /\ k.at = work[w].at
  BY <1>1 DEF Work, Stages
<1> HIDE DEF k, d, f
<1>5. work \in [Workers -> Work] /\ \A v \in Workers : work'[v] = IF v = w THEN k ELSE work[v]
  BY <1>1 DEF IInv, TypeOK
<1>6. /\ deliveries \in Seq(Delivery) /\ deliveries' \in Seq(Delivery)
      /\ Len(deliveries') = Len(deliveries) + 1
      /\ \A i \in 1 .. Len(deliveries) : deliveries'[i] = deliveries[i]
      /\ deliveries'[Len(deliveries) + 1] = d
  BY <1>1, <1>3, AppendProperties DEF IInv, TypeOK
<1>7. TypeOK'
  BY <1>1, <1>2, <1>4, <1>5, <1>6 DEF IInv, TypeOK
<1>8. \A i \in 1 .. Len(deliveries') : i \in 1 .. Len(deliveries) \/ deliveries'[i] = d
  BY <1>6
\* A tick records within its window, and once.
<1>9. work[w].class = "schedule" =>
        /\ Ticking(work[w]) /\ work[w].from < f.at /\ f.at <= work[w].at
        /\ work[w].at <= lastTick
        /\ \A g \in work[w].todo : ~ (g.src = f.src /\ g.at = f.at)
        /\ \A i \in 1 .. Len(deliveries) : deliveries[i].class = "schedule" =>
             ~ (f.src = deliveries[i].src /\ f.at = deliveries[i].at)
  <2> SUFFICES ASSUME work[w].class = "schedule"
               PROVE  /\ Ticking(work[w]) /\ work[w].from < f.at /\ f.at <= work[w].at
                      /\ work[w].at <= lastTick
                      /\ \A g \in work[w].todo : ~ (g.src = f.src /\ g.at = f.at)
                      /\ \A i \in 1 .. Len(deliveries) : deliveries[i].class = "schedule" =>
                           ~ (f.src = deliveries[i].src /\ f.at = deliveries[i].at)
    OBVIOUS
  <2>1. Ticking(work[w])
    BY <1>1 DEF Ticking
  <2>2. f \in work[w].todo \cup ({work[w].cur} \ {None})
    BY <1>2 DEF f
  <2>3. f \notin work[w].todo /\ work[w].todo \subseteq Unrecorded(work[w])
    BY <1>1, <2>1 DEF WorkOK, InWindow, Unrecorded, f
  <2> QED
    BY <1>1, <1>2, <2>1, <2>2, <2>3 DEF WorkOK, InWindow, Fresh
<1>10. DeliveredBefore'
  <2>1. f.at \in Int /\ work[w].at \in Int /\ lastTick \in Int
    BY <1>1, <1>2 DEF Firing, Work, Times, IInv, TypeOK
  <2>2. d.class = "schedule" => d.at <= lastTick
    BY <1>3, <1>9, <2>1
  <2> QED
    BY <1>1, <1>6, <1>8, <2>2 DEF IInv, TickInv, DeliveredBefore
<1>11. FiredOnce'
  <2> SUFFICES ASSUME NEW i \in 1 .. Len(deliveries'), NEW j \in 1 .. Len(deliveries'),
                      deliveries'[i].class = "schedule", deliveries'[j].class = "schedule",
                      deliveries'[i].src = deliveries'[j].src,
                      deliveries'[i].at = deliveries'[j].at
               PROVE  i = j
    BY DEF FiredOnce
  <2>1. CASE i \in 1 .. Len(deliveries) /\ j \in 1 .. Len(deliveries)
    BY <1>6, <2>1 DEF IInv, TickInv, FiredOnce
  <2>2. CASE i \in 1 .. Len(deliveries) /\ j = Len(deliveries) + 1
    BY <1>3, <1>6, <1>9, <2>2
  <2>3. CASE j \in 1 .. Len(deliveries) /\ i = Len(deliveries) + 1
    BY <1>3, <1>6, <1>9, <2>3
  <2> QED
    BY <1>6, <2>1, <2>2, <2>3
<1>12. Windows'
  BY <1>1, <1>4, <1>5 DEF IInv, TickInv, Windows, Apart, Ticking
<1>13. WorkersOK'
  <2> SUFFICES ASSUME NEW v \in Workers
               PROVE  WorkOK(work[v])'
    BY DEF WorkersOK
  <2>1. CASE v = w
    <3>1. work'[v] = k /\ Unrecorded(k) = work[w].todo
      BY <1>4, <1>5, <2>1 DEF Unrecorded
    <3>2. InStage(work[v])'
      BY <1>1, <1>2, <1>4, <3>1 DEF WorkOK, InStage, f
    <3>3. InWindow(work[v])'
      <4>1. Unrecorded(work[v])' = work[w].todo /\ work[w].todo \subseteq Unrecorded(work[w])
        BY <3>1 DEF Unrecorded
      <4> QED
        BY <1>1, <1>4, <3>1, <4>1 DEF WorkOK, InWindow, Ticking, f
    <3>4. Fresh(work[v])'
      <4>1. Unrecorded(work[v])' = work[w].todo /\ work[w].todo \subseteq Unrecorded(work[w])
        BY <3>1 DEF Unrecorded
      <4>2. ASSUME Ticking(work[w]), NEW i \in 1 .. Len(deliveries'),
                   deliveries'[i].class = "schedule", NEW g \in work[w].todo
            PROVE  ~ (g.src = deliveries'[i].src /\ g.at = deliveries'[i].at)
        <5>1. CASE i \in 1 .. Len(deliveries)
          BY <1>1, <1>6, <4>1, <4>2, <5>1 DEF WorkOK, Fresh
        <5>2. CASE deliveries'[i] = d
          BY <1>3, <1>9, <4>2, <5>2 DEF Ticking
        <5> QED
          BY <1>8, <5>1, <5>2
      <4>3. Ticking(k) => Ticking(work[w])
        BY <1>1, <1>4 DEF Ticking
      <4> QED
        BY <1>4, <3>1, <4>1, <4>2, <4>3 DEF Fresh, Ticking
    <3> QED
      BY <3>2, <3>3, <3>4 DEF WorkOK
  <2>2. CASE v # w
    <3>1. work'[v] = work[v] /\ WorkOK(work[v]) /\ work[v] \in Work
      BY <1>5, <2>2 DEF IInv, TickInv, WorkersOK
    <3>2. InStage(work[v])' /\ InWindow(work[v])'
      BY <1>1, <3>1 DEF WorkOK, InStage, InWindow, Ticking, Unrecorded
    <3>3. ASSUME Ticking(work[v]), work[w].class = "schedule"
          PROVE  ~ (work[v].from < f.at /\ f.at <= work[v].at)
      <4>1. Apart(work[v], work[w])
        BY <2>2 DEF IInv, TickInv, Windows
      <4>2. f.at \in Int /\ work[w].at \in Int /\ work[w].from \in Int
            /\ work[v].at \in Int /\ work[v].from \in Int
        <5>1. f.at \in Int
          BY <1>2, ConstantsAssumption DEF Firing, Times
        <5>2. \A k2 \in Work : k2.at \in Int /\ k2.from \in Int
          BY ConstantsAssumption DEF Work, Times
        <5> QED
          BY <1>1, <3>1, <5>1, <5>2
      <4> QED
        BY <1>9, <3>3, <4>1, <4>2 DEF Apart
    <3>4. \A g \in Unrecorded(work[v]) : Ticking(work[v]) => work[v].from < g.at /\ g.at <= work[v].at
      BY <3>1, NoneAssumption DEF WorkOK, InWindow, InStage, Unrecorded
    <3>5. Unrecorded(work[v])' = Unrecorded(work[v]) /\ Ticking(work[v])' = Ticking(work[v])
      BY <3>1 DEF Unrecorded, Ticking
    <3>6. ASSUME Ticking(work[v]), NEW i \in 1 .. Len(deliveries'),
                 deliveries'[i].class = "schedule"
          PROVE  /\ work[v].stage = "claimed" =>
                      ~ (work[v].from < deliveries'[i].at /\ deliveries'[i].at <= work[v].at)
                 /\ \A g \in Unrecorded(work[v]) :
                      ~ (g.src = deliveries'[i].src /\ g.at = deliveries'[i].at)
      <4>1. CASE i \in 1 .. Len(deliveries)
        BY <1>6, <3>1, <3>6, <4>1 DEF WorkOK, Fresh
      <4>2. CASE deliveries'[i] = d
        BY <1>3, <3>3, <3>4, <3>6, <4>2
      <4> QED
        BY <1>8, <4>1, <4>2
    <3>7. Fresh(work[v])'
      BY <3>1, <3>5, <3>6 DEF Fresh
    <3> QED
      BY <3>2, <3>7 DEF WorkOK
  <2> QED
    BY <2>1, <2>2
<1> QED
  BY <1>1, <1>7, <1>10, <1>11, <1>12, <1>13, ItemsKept DEF IInv, TickInv

LEMMA SetStatusStep ==
  ASSUME IInv, NEW w \in Workers, SetStatus(w)
  PROVE  IInv'
<1> DEFINE k == [work[w] EXCEPT !.stage = "firing", !.cur = None]
<1>1. /\ work[w] \in Work /\ work[w].stage = "status" /\ WorkOK(work[w])
      /\ work' = [work EXCEPT ![w] = k]
      /\ UNCHANGED <<clock, items, lastId, lastTick, deliveries, api, injected,
                     edits, since, fired>>
  BY DEF SetStatus, IInv, TypeOK, TickInv, WorkersOK
<1>2. /\ k \in Work /\ k.stage = "firing" /\ k.todo = work[w].todo /\ k.cur = None
      /\ k.class = work[w].class /\ k.from = work[w].from /\ k.at = work[w].at
  BY <1>1 DEF Work, Stages
<1>3. status' \in [ItemIds -> Status \cup {None}]
  <2>1. work[w].cur \in Firing /\ work[w].ok \in BOOLEAN
    BY <1>1 DEF WorkOK, InStage, Work
  <2>2. work[w].cur.src \in ItemIds /\ [at |-> work[w].cur.at, ok |-> work[w].ok] \in Status
    BY <2>1 DEF Firing, Status
  <2> QED
    BY <2>2 DEF SetStatus, IInv, TypeOK
<1> HIDE DEF k
<1>4. InStage(k) /\ Unrecorded(k) \subseteq Unrecorded(work[w])
  BY <1>1, <1>2 DEF WorkOK, InStage, Unrecorded
<1>5. k.cur \notin k.todo
  BY <1>1, <1>2, NoneAssumption DEF Work
<1> QED
  BY <1>1, <1>2, <1>3, <1>4, <1>5, GoesOn

LEMMA FinishStep ==
  ASSUME IInv, NEW w \in Workers, Finish(w)
  PROVE  IInv'
<1>1. status' \in [ItemIds -> Status \cup {None}] /\ injected' \in 0 .. MaxEvents
  BY DEF Finish, IInv, TypeOK
<1> QED
  BY <1>1, IdleOK, WorkerMoves DEF Finish

LEMMA ClearDeliveriesStep ==
  ASSUME IInv, ClearDeliveries
  PROVE  IInv'
<1>1. Len(deliveries') = 0 /\ deliveries' \in Seq(Delivery)
  BY DEF ClearDeliveries
<1>2. TypeOK' /\ Windows' /\ DeliveredBefore' /\ FiredOnce'
  BY <1>1 DEF ClearDeliveries, IInv, TypeOK, TickInv, Windows, Apart, Ticking,
              DeliveredBefore, FiredOnce
<1>3. WorkersOK'
  BY <1>1 DEF ClearDeliveries, IInv, TickInv, WorkersOK, WorkOK, InStage, InWindow, Fresh,
              Ticking, Unrecorded
<1> QED
  BY <1>2, <1>3, ItemsKept DEF IInv, TickInv, ClearDeliveries

-----------------------------------------------------------------------------
(* Steps of the API *)

LEMMA TicksKept ==
  ASSUME TickInv, UNCHANGED <<work, deliveries, lastTick, fired>>
  PROVE  TickInv'
  BY DEF TickInv, WorkersOK, WorkOK, InStage, InWindow, Fresh, Ticking, Unrecorded, Windows,
         Apart, DeliveredBefore, FiredOnce

LEMMA NewItemTyped ==
  ASSUME NEW class \in Classes
  PROVE  NewItem(class) \in Item /\ NewItem(class).class = class
  BY DEF NewItem, Item

\* What a request may set refers to a process configuration there is.
LEMMA ValidIsSettled ==
  ASSUME IInv, NEW item \in ValidItem
  PROVE  item \in Item /\ Settled(item)
<1>1. CASE \E d \in Destinations : item = [NewItem("process") EXCEPT !.dest = d]
  BY <1>1, NewItemTyped DEF Item, Classes, Settled
<1>2. ASSUME NEW p \in ItemIds, Existing(p),
             \/ \E s \in Shapes : item = [NewItem("schedule") EXCEPT !.shape = s, !.pc = p]
             \/ \E s \in Sources : item = [NewItem("trigger") EXCEPT !.source = s, !.pc = p]
      PROVE  item \in Item /\ Settled(item)
  <2>1. p <= lastId /\ items[p].class = "process"
    BY <1>2 DEF Existing, IInv, ItemInv, Stored
  <2> QED
    BY <1>2, <2>1, NewItemTyped DEF Item, Classes, Settled
<1> QED
  BY <1>1, <1>2 DEF ValidItem

LEMMA ValidateStep ==
  ASSUME IInv, NEW c \in Apis, NEW id \in ItemIds \cup {None}, NEW item \in ValidItem,
         Validate(c, id, item)
  PROVE  IInv'
<1> DEFINE r == [id |-> id, item |-> item]
<1>1. item \in Item /\ Settled(item) /\ r \in Request
  BY ValidIsSettled DEF Request
<1>2. /\ api' = [api EXCEPT ![c] = r]
      /\ UNCHANGED <<clock, items, status, lastId, lastTick, deliveries, work, injected,
                     since, fired>>
      /\ id # None => items[id] # None /\ items[id].class = item.class
  BY DEF Validate
<1>3. edits' \in 0 .. MaxEdits
  BY ConstantsAssumption DEF Validate, IInv, TypeOK
<1>4. TypeOK'
  BY <1>1, <1>2, <1>3 DEF IInv, TypeOK
<1>5. Pending(r)
  BY <1>1, <1>2 DEF Pending, IInv, ItemInv, Stored
<1> HIDE DEF r
<1>6. ItemInv'
  <2>1. \A d \in Apis : api'[d] = IF d = c THEN r ELSE api[d]
    BY <1>2 DEF IInv, TypeOK
  <2>2. \A d \in Apis : api'[d] # None => Pending(api'[d])
    BY <1>5, <2>1 DEF IInv, ItemInv, RequestsOK
  <2> QED
    BY <1>2, <2>2 DEF IInv, ItemInv, Stored, Settled, RequestsOK, Pending
<1> QED
  BY <1>2, <1>4, <1>6, TicksKept DEF IInv

LEMMA CreateItemStep ==
  ASSUME IInv, NEW c \in Apis, CreateItem(c)
  PROVE  IInv'
<1> DEFINE new == lastId + 1
           item == api[c].item
<1>1. /\ api[c] # None /\ api[c] \in Request /\ item \in Item /\ Pending(api[c])
      /\ lastId \in Nat /\ new \in ItemIds /\ lastId' = new
      /\ items' = [items EXCEPT ![new] = item] /\ api' = [api EXCEPT ![c] = None]
      /\ UNCHANGED <<clock, status, lastTick, deliveries, work, injected, edits, fired>>
  BY ConstantsAssumption DEF CreateItem, IInv, TypeOK, ItemInv, RequestsOK, Request, ItemIds
<1>2. since' \in [ItemIds -> 0 .. MaxTime]
  <2>1. lastTick \in 0 .. MaxTime /\ since \in [ItemIds -> 0 .. MaxTime]
    BY ConstantsAssumption DEF IInv, TypeOK, Times
  <2> QED
    BY <2>1 DEF CreateItem
<1>3. TypeOK'
  BY <1>1, <1>2, ConstantsAssumption DEF IInv, TypeOK, ItemIds
<1>4. \A i \in ItemIds : items'[i] = IF i = new THEN item ELSE items[i]
  BY <1>1 DEF IInv, TypeOK
<1>5. \A i \in ItemIds : i \in Nat
  BY DEF ItemIds
<1> HIDE DEF new, item
<1>6. ASSUME NEW x, Settled(x)
      PROVE  Settled(x)'
  <2>1. new = lastId + 1
    BY DEF new
  <2> QED
    BY <1>1, <1>4, <1>5, <1>6, <2>1 DEF Settled
<1>7. Stored'
  <2>1. new = lastId + 1 /\ item = api[c].item
    BY DEF new, item
  <2>2. Settled(item)
    BY <1>1, <2>1 DEF Pending
  <2> SUFFICES ASSUME NEW i \in ItemIds, items'[i] # None
               PROVE  i <= lastId' /\ Settled(items[i])'
    BY DEF Stored
  <2>3. Settled(items'[i])
    BY <1>4, <2>2 DEF IInv, ItemInv, Stored
  <2>4. i <= lastId'
    BY <1>1, <1>4, <1>5, <2>1 DEF IInv, ItemInv, Stored
  <2> QED
    BY <1>6, <2>3, <2>4
<1>8. RequestsOK'
  <2> SUFFICES ASSUME NEW d \in Apis, api'[d] # None
               PROVE  Pending(api[d])'
    BY DEF RequestsOK
  <2>1. api'[d] = api[d] /\ Pending(api[d]) /\ api[d] \in Request
    BY <1>1 DEF IInv, TypeOK, ItemInv, RequestsOK
  <2>2. Settled(api[d].item)'
    BY <1>6, <2>1 DEF Pending
  <2>3. ASSUME api[d].id # None
        PROVE  /\ api[d].id \in ItemIds /\ api[d].id <= lastId /\ api[d].id # new
               /\ items[api[d].id] # None => items[api[d].id].class = api[d].item.class
    BY <1>1, <1>5, <2>1, <2>3 DEF Pending, Request, new
  <2>4. ASSUME api[d].id # None
        PROVE  /\ api[d].id <= lastId'
               /\ items'[api[d].id] # None => items'[api[d].id].class = api[d].item.class
    <3>1. items'[api[d].id] = items[api[d].id]
      BY <1>4, <2>3, <2>4
    <3>2. lastId' = lastId + 1 /\ api[d].id \in Nat
      BY <1>1, <1>5, <2>3, <2>4 DEF new
    <3> QED
      BY <1>1, <2>3, <2>4, <3>1, <3>2
  <2> QED
    BY <2>1, <2>2, <2>4 DEF Pending
<1> QED
  BY <1>1, <1>3, <1>7, <1>8, TicksKept DEF IInv, ItemInv

LEMMA UpdateItemStep ==
  ASSUME IInv, NEW c \in Apis, UpdateItem(c)
  PROVE  IInv'
<1> DEFINE id == api[c].id
           item == api[c].item
<1>1. /\ id \in ItemIds /\ item \in Item /\ Pending(api[c]) /\ id # None
      /\ api' = [api EXCEPT ![c] = None]
      /\ UNCHANGED <<clock, status, lastId, lastTick, deliveries, work, injected, edits, fired>>
  BY DEF UpdateItem, IInv, TypeOK, ItemInv, RequestsOK, Request
<1>2. since' \in [ItemIds -> 0 .. MaxTime]
  BY ConstantsAssumption DEF UpdateItem, IInv, TypeOK, Times
<1>3. items' = IF items[id] = None THEN items ELSE [items EXCEPT ![id] = item]
  BY DEF UpdateItem
<1>4. TypeOK'
  BY <1>1, <1>2, <1>3 DEF IInv, TypeOK
<1>5. \A i \in ItemIds : items'[i] = IF i = id /\ items[id] # None THEN item ELSE items[i]
  BY <1>3 DEF IInv, TypeOK
<1>6. \A i \in ItemIds : items'[i] # None => items[i] # None /\ items'[i].class = items[i].class
  BY <1>1, <1>5 DEF Pending
<1> HIDE DEF id, item
<1>7. ASSUME NEW x, Settled(x)
      PROVE  Settled(x)'
  BY <1>1, <1>6, <1>7 DEF Settled
<1>8. Stored'
  <2>1. Settled(item)
    BY <1>1 DEF Pending, item
  <2> QED
    BY <1>1, <1>5, <1>7, <2>1 DEF Stored, IInv, ItemInv
<1>9. RequestsOK'
  <2> SUFFICES ASSUME NEW d \in Apis, api'[d] # None
               PROVE  Pending(api[d])'
    BY DEF RequestsOK
  <2>1. api'[d] = api[d] /\ Pending(api[d]) /\ api[d] \in Request
    BY <1>1 DEF IInv, TypeOK, ItemInv, RequestsOK
  <2>2. api[d].id # None => api[d].id \in ItemIds
    BY <2>1 DEF Request
  <2> QED
    BY <1>1, <1>6, <1>7, <2>1, <2>2 DEF Pending
<1> QED
  BY <1>1, <1>4, <1>8, <1>9, TicksKept DEF IInv, ItemInv

LEMMA DeleteItemStep ==
  ASSUME IInv, NEW id \in ItemIds, DeleteItem(id)
  PROVE  IInv'
<1>1. TypeOK'
  BY DEF DeleteItem, IInv, TypeOK
<1>2. \A i \in ItemIds : items'[i] = IF i = id THEN None ELSE items[i]
  BY DEF DeleteItem, IInv, TypeOK
<1>3. UNCHANGED <<lastId, api, work, deliveries, lastTick, fired>>
  BY DEF DeleteItem
<1>4. \A x : Settled(x) => Settled(x)'
  BY <1>2, <1>3 DEF Settled
<1>5. Stored'
  BY <1>2, <1>3, <1>4 DEF Stored, IInv, ItemInv
<1>6. RequestsOK'
  <2> SUFFICES ASSUME NEW d \in Apis, api'[d] # None
               PROVE  Pending(api[d])'
    BY DEF RequestsOK
  <2>1. api'[d] = api[d] /\ Pending(api[d]) /\ api[d] \in Request
    BY <1>3 DEF IInv, TypeOK, ItemInv, RequestsOK
  <2>2. api[d].id # None => api[d].id \in ItemIds
    BY <2>1 DEF Request
  <2> QED
    BY <1>2, <1>3, <1>4, <2>1, <2>2 DEF Pending
<1> QED
  BY <1>1, <1>3, <1>5, <1>6, TicksKept DEF IInv, ItemInv

LEMMA PassStep ==
  ASSUME IInv, Pass
  PROVE  IInv'
<1>1. TypeOK'
  BY ConstantsAssumption DEF Pass, IInv, TypeOK, Times
<1> QED
  BY <1>1, TicksKept, ItemsKept DEF Pass, IInv

-----------------------------------------------------------------------------

LEMMA InitOK == Init => IInv
<1> SUFFICES ASSUME Init
             PROVE  IInv
  OBVIOUS
<1>1. TypeOK
  BY IdleOK, ConstantsAssumption DEF Init, TypeOK, Times
<1>2. TickInv
  BY IdleOK DEF Init, TickInv, WorkersOK, Windows, Apart, DeliveredBefore, FiredOnce
<1>3. ItemInv
  BY DEF Init, ItemInv, Stored, RequestsOK
<1> QED
  BY <1>1, <1>2, <1>3 DEF IInv

LEMMA StutterStep ==
  ASSUME IInv, UNCHANGED vars
  PROVE  IInv'
<1>1. TypeOK'
  BY DEF IInv, TypeOK, vars
<1> QED
  BY <1>1, TicksKept, ItemsKept DEF IInv, vars

LEMMA StepOK ==
  ASSUME IInv, Next
  PROVE  IInv'
<1>1. ASSUME NEW w \in Workers, Start(w)
      PROVE  IInv'
  <2>1. clock \in Times
    BY DEF IInv, TypeOK
  <2> QED
    BY <1>1, <2>1, ClaimStep, InjectStep DEF Start
<1>2. ASSUME NEW w \in Workers, Step(w)
      PROVE  IInv'
  BY <1>2, ListStep, ResolveStep, ForwardStep, RecordStep, SetStatusStep, FinishStep DEF Step
<1>3. ASSUME NEW c \in Apis, Api(c)
      PROVE  IInv'
  BY <1>3, ValidateStep, CreateItemStep, UpdateItemStep DEF Api
<1> QED
  BY <1>1, <1>2, <1>3, DeleteItemStep, ClearDeliveriesStep, PassStep DEF Next

LEMMA Invariance == Spec => []IInv
<1>1. IInv /\ [Next]_vars => IInv'
  BY StepOK, StutterStep
<1> QED
  BY <1>1, InitOK, PTL DEF Spec

\* Every variable keeps its type.
THEOREM TypeCorrect == Spec => []TypeOK
  BY Invariance, PTL DEF IInv

\* No schedule is recorded as having fired twice for one boundary, however many
\* ticks overlap, and whatever becomes of the items meanwhile.
THEOREM FiresOnce == Spec => []FiredOnce
  BY Invariance, PTL DEF IInv, TickInv

\* A schedule or trigger refers to a process configuration or to nothing, though
\* what it refers to is checked before it is stored.
THEOREM ReferencesSound == Spec => []ReferencesKeepClass
<1>1. IInv => ReferencesKeepClass
  BY DEF IInv, ItemInv, Stored, Settled, ReferencesKeepClass, Of
<1> QED
  BY <1>1, Invariance, PTL

-----------------------------------------------------------------------------
(* No boundary is missed *)

\* A tick has the boundary b of schedule i still to fire.
Has(k, i, b) ==
    /\ k.class = "schedule"
    /\ \/ k.stage = "claimed" /\ k.from < b /\ b <= k.at
       \/ \E f \in k.todo \cup ({k.cur} \ {None}) : f.src = i /\ f.at = b

LEMMA HandsHave ==
  ASSUME NEW i, NEW b
  PROVE  InHand(i, b) <=> \E w \in Workers : Has(work[w], i, b)
  BY DEF InHand, Has

\* An item is set anew, and owes only what comes later, or stays as it is.
LEMMA MissesNothing ==
  ASSUME IInv, NoneMissed, UNCHANGED lastTick,
         \A i \in Of("schedule")' :
            \/ since'[i] = lastTick
            \/ i \in Of("schedule") /\ items'[i] = items[i] /\ since'[i] = since[i],
         \A i \in Of("schedule"), b \in Times :
            Boundary(items[i].shape, b) /\ (Fired(i, b) \/ InHand(i, b))
                => (Fired(i, b) \/ InHand(i, b))'
  PROVE  NoneMissed'
<1> SUFFICES ASSUME NEW i \in Of("schedule")', NEW b \in Times,
                    since'[i] < b, b <= lastTick', Boundary(items'[i].shape, b)
             PROVE  (Fired(i, b) \/ InHand(i, b))'
  BY DEF NoneMissed, Boundary
<1>1. lastTick \in Int /\ b \in Int
  BY DEF IInv, TypeOK, Times
<1>2. since'[i] # lastTick
  BY <1>1
<1>3. i \in Of("schedule") /\ items'[i] = items[i] /\ since'[i] = since[i]
  BY <1>2
<1>4. Fired(i, b) \/ InHand(i, b)
  BY <1>3 DEF NoneMissed
<1> QED
  BY <1>3, <1>4

\* A worker goes on: what it had to fire it has still, or it has fired.
LEMMA WorkerMisses ==
  ASSUME IInv, NoneMissed, UNCHANGED <<items, lastTick, since>>,
         NEW w \in Workers, NEW k, work' = [work EXCEPT ![w] = k], fired \subseteq fired',
         \A i \in Of("schedule"), b \in Times :
            Boundary(items[i].shape, b) /\ Has(work[w], i, b) => Has(k, i, b) \/ Fired(i, b)'
  PROVE  NoneMissed'
<1>1. \A v \in Workers : work'[v] = IF v = w THEN k ELSE work[v]
  BY DEF IInv, TypeOK
<1>2. ASSUME NEW i \in Of("schedule"), NEW b \in Times, Boundary(items[i].shape, b)
      PROVE  /\ Fired(i, b) => Fired(i, b)'
             /\ InHand(i, b) => (Fired(i, b) \/ InHand(i, b))'
  <2>1. Fired(i, b) => Fired(i, b)'
    BY DEF Fired
  <2>2. ASSUME NEW v \in Workers, Has(work[v], i, b)
        PROVE  (\E u \in Workers : Has(work'[u], i, b)) \/ Fired(i, b)'
    BY <1>1, <1>2, <2>2
  <2>3. (\E u \in Workers : Has(work'[u], i, b)) => InHand(i, b)'
    BY DEF Has, InHand
  <2> QED
    BY <2>1, <2>2, <2>3, HandsHave
<1>3. Of("schedule")' = Of("schedule")
  BY DEF Of
<1> QED
  BY <1>2, <1>3, MissesNothing

LEMMA MissedStep ==
  ASSUME CapSuffices, IInv, NoneMissed, [Next]_vars
  PROVE  NoneMissed'
<1>1. \A w \in Workers : work[w] \in Work /\ WorkOK(work[w])
  BY DEF IInv, TypeOK, TickInv, WorkersOK
\* What a tick claims is in its hands at once.
<1>2. ASSUME NEW w \in Workers, NEW at \in Times, Claim(w, at)
      PROVE  NoneMissed'
  <2> DEFINE k == [IdleWork EXCEPT !.stage = "claimed", !.from = lastTick, !.at = at]
  <2>1. /\ work[w].stage = "idle" /\ lastTick' = at
        /\ work' = [work EXCEPT ![w] = k] /\ UNCHANGED <<items, since, fired>>
    BY <1>2 DEF Claim
  <2>2. k.stage = "claimed" /\ k.class = "schedule" /\ k.from = lastTick /\ k.at = at
    BY DEF IdleWork
  <2> HIDE DEF k
  <2>3. \A v \in Workers : work'[v] = IF v = w THEN k ELSE work[v]
    BY <2>1 DEF IInv, TypeOK
  <2> SUFFICES ASSUME NEW i \in Of("schedule"), NEW b \in Times,
                      since[i] < b, b <= at, Boundary(items[i].shape, b)
               PROVE  (Fired(i, b) \/ InHand(i, b))'
    BY <2>1 DEF NoneMissed, Of, Boundary
  <2>4. CASE b <= lastTick
    <3>1. Fired(i, b) \/ InHand(i, b)
      BY <2>4 DEF NoneMissed
    <3>2. ~ Has(work[w], i, b)
      BY <1>1, <2>1 DEF Has, WorkOK, InStage
    <3>3. InHand(i, b) => \E v \in Workers : Has(work'[v], i, b)
      BY <2>3, <3>2, HandsHave
    <3> QED
      BY <2>1, <3>1, <3>3 DEF Fired, Has, InHand
  <2>5. CASE lastTick < b
    <3>1. Has(work'[w], i, b)
      BY <2>2, <2>3, <2>5 DEF Has
    <3> QED
      BY <3>1 DEF Has, InHand
  <2>6. b \in Int /\ lastTick \in Int
    BY DEF IInv, TypeOK, Times
  <2> QED
    BY <2>4, <2>5, <2>6
<1>3. ASSUME NEW w \in Workers, NEW source \in Sources, Inject(w, source)
      PROVE  NoneMissed'
  <2>1. \A i, b : ~ Has(work[w], i, b)
    BY <1>1, <1>3 DEF Inject, Has, WorkOK, InStage
  <2> QED
    BY <1>3, <2>1, WorkerMisses DEF Inject
\* It lists the schedules as they are, and all their boundaries.
<1>4. ASSUME NEW w \in Workers, List(w)
      PROVE  NoneMissed'
  <2> DEFINE k == [work[w] EXCEPT !.stage = "firing", !.todo = ToFire(work[w])]
  <2>1. /\ work[w].stage = "claimed" /\ work' = [work EXCEPT ![w] = k]
        /\ UNCHANGED <<items, lastTick, since, fired>>
    BY <1>1, <1>4 DEF List, IInv, TypeOK
  <2>2. k.class = work[w].class /\ k.todo = ToFire(work[w])
    BY <1>1 DEF Work
  <2> HIDE DEF k
  <2>3. ASSUME NEW i \in Of("schedule"), NEW b \in Times, Boundary(items[i].shape, b),
               Has(work[w], i, b)
        PROVE  Has(k, i, b)
    <3>1. work[w].class = "schedule" /\ work[w].from < b /\ b <= work[w].at
      BY <1>1, <2>1, <2>3 DEF Has, WorkOK, InStage
    <3>2. items[i].shape \in Shapes /\ work[w].from \in 0 .. MaxTime /\ work[w].at \in 0 .. MaxTime
      BY <1>1 DEF IInv, ItemInv, Stored, Settled, Of, Work
    <3>3. b \in DueBoundaries(items[i].shape, work[w].from, work[w].at)
      BY <2>3, <3>1, <3>2, AllDue
    <3> DEFINE f == [src |-> i, at |-> b, pc |-> items[i].pc]
    <3>4. f \in ToFire(work[w])
      BY <3>1, <3>3 DEF ToFire
    <3>5. f \in k.todo /\ f.src = i /\ f.at = b
      BY <2>2, <3>4
    <3> QED
      BY <2>2, <3>1, <3>5 DEF Has
  <2> QED
    BY <2>1, <2>3, WorkerMisses
<1>5. ASSUME NEW w \in Workers, Resolve(w)
      PROVE  NoneMissed'
  <2>1. PICK f \in work[w].todo :
          LET found == items[f.pc] # None /\ items[f.pc].class = "process"
          IN  work' = [work EXCEPT
                    ![w].todo = @ \ {f}, ![w].cur = f, ![w].ok = found,
                    ![w].dest = IF found THEN items[f.pc].dest ELSE None,
                    ![w].stage = IF found /\ Linked THEN "forward" ELSE "record"]
    BY <1>5 DEF Resolve
  <2>2. work[w].stage = "firing" /\ f # None /\ work[w].cur = None
    BY <1>1, <1>5, NoneAssumption DEF Resolve, Work, WorkOK, InStage
  <2>3. /\ work' = [work EXCEPT ![w] = work'[w]]
        /\ work'[w].todo = work[w].todo \ {f} /\ work'[w].cur = f
        /\ work'[w].class = work[w].class
    <3>1. work \in [Workers -> Work]
      BY <1>1 DEF IInv, TypeOK
    <3>2. work[w] \in Work
      BY <3>1
    <3> QED
      BY <2>1, <3>1, <3>2 DEF Work
  <2>4. \A i, b : Has(work[w], i, b) => Has(work'[w], i, b)
    BY <2>2, <2>3 DEF Has
  <2> QED
    BY <1>5, <2>3, <2>4, WorkerMisses DEF Resolve
<1>6. ASSUME NEW w \in Workers, NEW ok \in BOOLEAN, Forward(w, ok)
      PROVE  NoneMissed'
  <2>1. /\ work' = [work EXCEPT ![w] = work'[w]]
        /\ work[w].stage = "forward" /\ work'[w].todo = work[w].todo
        /\ work'[w].cur = work[w].cur /\ work'[w].class = work[w].class
    BY <1>1, <1>6 DEF Forward, IInv, TypeOK, Work
  <2>2. \A i, b : Has(work[w], i, b) => Has(work'[w], i, b)
    BY <2>1 DEF Has
  <2> QED
    BY <1>6, <2>1, <2>2, WorkerMisses DEF Forward
<1>7. ASSUME NEW w \in Workers, Record(w)
      PROVE  NoneMissed'
  <2>1. /\ work' = [work EXCEPT ![w] = work'[w]]
        /\ work[w].stage = "record" /\ work'[w].todo = work[w].todo
        /\ work'[w].cur = work[w].cur /\ work'[w].class = work[w].class
    BY <1>1, <1>7 DEF Record, IInv, TypeOK, Work
  <2>2. \A i, b : Has(work[w], i, b) => Has(work'[w], i, b)
    BY <2>1 DEF Has
  <2> QED
    BY <1>7, <2>1, <2>2, WorkerMisses DEF Record
\* A tick lets go of a firing when it has been recorded.
<1>8. ASSUME NEW w \in Workers, SetStatus(w)
      PROVE  NoneMissed'
  <2>1. /\ work' = [work EXCEPT ![w] = work'[w]]
        /\ work[w].stage = "status" /\ work'[w].todo = work[w].todo
        /\ work'[w].cur = None /\ work'[w].class = work[w].class
        /\ UNCHANGED fired
    BY <1>1, <1>8 DEF SetStatus, IInv, TypeOK, Work
  <2>2. work[w].cur \in fired /\ None \notin work[w].todo
    BY <1>1, <2>1, NoneAssumption DEF WorkOK, InStage, Work
  <2>3. \A i, b : Has(work[w], i, b) => Has(work'[w], i, b) \/ Fired(i, b)'
    BY <2>1, <2>2 DEF Has, Fired
  <2> QED
    BY <1>8, <2>1, <2>3, WorkerMisses DEF SetStatus
<1>9. ASSUME NEW w \in Workers, Finish(w)
      PROVE  NoneMissed'
  <2>1. \A i, b : ~ Has(work[w], i, b)
    BY <1>1, <1>9 DEF Finish, Has, WorkOK, InStage
  <2> QED
    BY <1>9, <2>1, WorkerMisses DEF Finish
\* Settings that are changed begin to count after the last tick.
<1>10. ASSUME NEW c \in Apis, CreateItem(c) \/ UpdateItem(c)
       PROVE  NoneMissed'
  <2>1. UNCHANGED <<lastTick, work, fired>>
    BY <1>10 DEF CreateItem, UpdateItem
  <2>2. \A i \in ItemIds : \/ items'[i] = items[i] /\ since'[i] = since[i]
                          \/ since'[i] = lastTick
    BY <1>10 DEF CreateItem, UpdateItem, IInv, TypeOK
  <2>3. \A i, b : (Fired(i, b) \/ InHand(i, b)) => (Fired(i, b) \/ InHand(i, b))'
    BY <2>1 DEF Fired, InHand
  <2> QED
    BY <2>1, <2>2, <2>3, MissesNothing DEF Of
<1>11. ASSUME NEW i \in ItemIds, DeleteItem(i)
       PROVE  NoneMissed'
  <2>1. UNCHANGED <<lastTick, work, fired, since>>
    BY <1>11 DEF DeleteItem
  <2>2. \A j \in ItemIds : items'[j] \in {items[j], None}
    BY <1>11 DEF DeleteItem, IInv, TypeOK
  <2>3. \A j, b : (Fired(j, b) \/ InHand(j, b)) => (Fired(j, b) \/ InHand(j, b))'
    BY <2>1 DEF Fired, InHand
  <2> QED
    BY <2>1, <2>2, <2>3, MissesNothing DEF Of
<1>12. ASSUME UNCHANGED <<items, lastTick, since, work, fired>>
       PROVE  NoneMissed'
  BY <1>12 DEF NoneMissed, Of, Fired, InHand
<1>13. clock \in Times
  BY DEF IInv, TypeOK
<1>14. ASSUME NEW w \in Workers, Start(w) \/ Step(w)
       PROVE  NoneMissed'
  BY <1>2, <1>3, <1>4, <1>5, <1>6, <1>7, <1>8, <1>9, <1>13, <1>14 DEF Start, Step
<1>15. ASSUME NEW c \in Apis, Api(c)
       PROVE  NoneMissed'
  BY <1>10, <1>12, <1>15 DEF Api, Validate
<1> QED
  BY <1>11, <1>12, <1>14, <1>15 DEF Next, ClearDeliveries, Pass, vars

\* As long as no schedule has more boundaries than maxFiresPerTick, none is
\* missed, however many ticks overlap and whatever requests do to the schedules:
\* what lastTick has moved past has fired or is in the hands of a tick.
THEOREM MissesNone ==
  ASSUME CapSuffices
  PROVE  Spec => []NoneMissed
<1>1. Init => NoneMissed
  BY DEF Init, NoneMissed, Of
<1>2. IInv /\ NoneMissed /\ [Next]_vars => NoneMissed'
  BY MissedStep
<1> QED
  BY <1>1, <1>2, Invariance, PTL DEF Spec

-----------------------------------------------------------------------------
(* The Status of a schedule, when ticks and events do not overlap *)

\* What a firing or a delivery is of keeps its class as long as it is there.
Own(x, class) ==
    x.src <= lastId /\ (items[x.src] # None => items[x.src].class = class)

Held(k) == k.todo \cup ({k.cur} \ {None})

SourcesOwn ==
    /\ \A w \in Workers : \A f \in Held(work[w]) : Own(f, work[w].class)
    /\ \A i \in 1 .. Len(deliveries) : Own(deliveries[i], deliveries[i].class)

\* A tick fires nothing that comes before what has been delivered, or before
\* what it fires first.
InOrder(k) ==
    Ticking(k) =>
        /\ \A i \in 1 .. Len(deliveries) : deliveries[i].class = "schedule" =>
             /\ k.stage = "claimed" => deliveries[i].at <= k.from
             /\ \A f \in Held(k) : f.src = deliveries[i].src => deliveries[i].at <= f.at
        /\ k.cur # None => \A g \in k.todo : g.src = k.cur.src => k.cur.at <= g.at

\* A Status is behind the deliveries only while it is being set.
Reflected(d) ==
    d.class = "schedule" /\ items[d.src] # None =>
        \/ status[d.src] # None /\ status[d.src].at >= d.at
        \/ \E w \in Workers : work[w].stage = "status" /\ work[w].cur.src = d.src

StatusInv ==
    /\ SourcesOwn
    /\ \A w \in Workers : InOrder(work[w])
    /\ \A i \in 1 .. Len(deliveries) : Reflected(deliveries[i])

\* Items and their Status change for requests, but no item its class.
LEMMA RequestReflects ==
  ASSUME IInv, StatusInv, UNCHANGED <<work, deliveries>>, lastId' \in Nat, lastId' >= lastId,
         \A i \in ItemIds : i <= lastId /\ items'[i] # None =>
            /\ items[i] # None /\ items'[i].class = items[i].class
            /\ status'[i] = status[i]
  PROVE  StatusInv'
<1>1. lastId \in Int /\ lastId' \in Int /\ \A i \in ItemIds : i \in Int
  BY ConstantsAssumption DEF IInv, TypeOK, ItemIds
<1>2. ASSUME NEW x, NEW class, x.src \in ItemIds, Own(x, class)
      PROVE  Own(x, class)'
  BY <1>1, <1>2 DEF Own
<1>3. /\ \A w \in Workers : \A f \in Held(work[w]) : f.src \in ItemIds
      /\ \A i \in 1 .. Len(deliveries) : deliveries[i].src \in ItemIds
  <2>1. \A w \in Workers : work[w] \in Work
    BY DEF IInv, TypeOK
  <2>2. \A w \in Workers : \A f \in Held(work[w]) : f \in Firing
    BY <2>1 DEF Work, Held
  <2>3. \A i \in 1 .. Len(deliveries) : deliveries[i] \in Delivery
    BY DEF IInv, TypeOK
  <2> QED
    BY <2>2, <2>3 DEF Firing, Delivery
<1>4. SourcesOwn'
  BY <1>2, <1>3 DEF StatusInv, SourcesOwn, Held
<1>5. ASSUME NEW i \in 1 .. Len(deliveries)
      PROVE  Reflected(deliveries[i])'
  <2>1. deliveries[i].src \in ItemIds /\ deliveries[i].src <= lastId /\ Reflected(deliveries[i])
    BY <1>3 DEF StatusInv, SourcesOwn, Own
  <2> QED
    BY <2>1 DEF Reflected
<1>6. (\A w \in Workers : InOrder(work[w]))'
  BY DEF StatusInv, InOrder, Ticking, Held
<1> QED
  BY <1>4, <1>5, <1>6 DEF StatusInv

\* A worker that is not setting a Status goes on.
LEMMA WorkerReflects ==
  ASSUME IInv, StatusInv, \A v, u \in Workers : v = u,
         UNCHANGED <<items, lastId, deliveries, status>>,
         NEW w \in Workers, NEW k, work' = [work EXCEPT ![w] = k], work[w].stage # "status",
         \A f \in Held(k) : Own(f, k.class), InOrder(k)
  PROVE  StatusInv'
<1>1. \A v \in Workers : work'[v] = k /\ v = w
  BY DEF IInv, TypeOK
<1>2. SourcesOwn'
  BY <1>1 DEF StatusInv, SourcesOwn, Own, Held
<1>3. (\A v \in Workers : InOrder(work[v]))'
  BY <1>1 DEF InOrder, Ticking, Held
<1>4. \A i \in 1 .. Len(deliveries) : Reflected(deliveries[i])'
  BY <1>1 DEF StatusInv, Reflected
<1> QED
  BY <1>2, <1>3, <1>4 DEF StatusInv

LEMMA RecordReflects ==
  ASSUME IInv, StatusInv, \A v, u \in Workers : v = u, NEW w \in Workers, Record(w)
  PROVE  StatusInv'
<1> DEFINE k == [work[w] EXCEPT !.stage = "status"]
           f == work[w].cur
           d == [src |-> f.src, class |-> work[w].class, at |-> f.at,
                 dest |-> work[w].dest, ok |-> work[w].ok]
<1>1. /\ work[w] \in Work /\ work[w].stage = "record" /\ WorkOK(work[w])
      /\ work' = [work EXCEPT ![w] = k]
      /\ deliveries' = Append(deliveries, d)
      /\ UNCHANGED <<items, lastId, status>>
  BY DEF Record, IInv, TypeOK, TickInv, WorkersOK
<1>2. f \in Firing /\ f # None /\ f \in Held(work[w])
  BY <1>1 DEF WorkOK, InStage, Work, Held
<1>3. d \in Delivery /\ d.src = f.src /\ d.at = f.at /\ d.class = work[w].class
  BY <1>1, <1>2 DEF Delivery, Firing, Work
<1>4. /\ k.stage = "status" /\ k.todo = work[w].todo /\ k.cur = f
      /\ k.class = work[w].class
  BY <1>1 DEF Work
<1>5. /\ \A i \in 1 .. Len(deliveries) : deliveries'[i] = deliveries[i]
      /\ \A i \in 1 .. Len(deliveries') : i \in 1 .. Len(deliveries) \/ deliveries'[i] = d
  <2>1. deliveries \in Seq(Delivery)
    BY DEF IInv, TypeOK
  <2> HIDE DEF d
  <2> QED
    BY <1>1, <1>3, <2>1, AppendProperties
<1> HIDE DEF k, d, f
<1>6. \A v \in Workers : work'[v] = k /\ v = w
  BY <1>1 DEF IInv, TypeOK
<1>7. SourcesOwn'
  <2>2. Held(k) = Held(work[w])
    BY <1>4 DEF Held, f
  <2>3. Own(d, d.class)
    BY <1>2, <1>3 DEF StatusInv, SourcesOwn, Own
  <2>4. \A g \in Held(k) : Own(g, k.class)
    BY <1>4, <2>2 DEF StatusInv, SourcesOwn
  <2>5. \A i \in 1 .. Len(deliveries') : Own(deliveries'[i], deliveries'[i].class)
    BY <1>5, <2>3 DEF StatusInv, SourcesOwn
  <2> QED
    BY <1>1, <1>6, <2>4, <2>5 DEF SourcesOwn, Held, Own
<1>8. (\A v \in Workers : InOrder(work[v]))'
  <2>1. Held(work[w]) = Held(k) /\ (Ticking(k) => Ticking(work[w]))
    BY <1>1, <1>4 DEF Held, Ticking, f
  <2>2. ASSUME Ticking(k), NEW g \in Held(k), g.src = d.src
        PROVE  d.at <= g.at
    <3>1. g = f \/ g \in work[w].todo
      BY <1>4 DEF Held
    <3>2. f.at \in Int
      BY <1>2 DEF Firing, Times
    <3> QED
      BY <1>2, <1>3, <2>1, <2>2, <3>1, <3>2 DEF StatusInv, InOrder, f
  <2>3. ASSUME Ticking(k), NEW i \in 1 .. Len(deliveries'), deliveries'[i].class = "schedule",
               NEW g \in Held(k), g.src = deliveries'[i].src
        PROVE  deliveries'[i].at <= g.at
    BY <1>5, <2>1, <2>2, <2>3 DEF StatusInv, InOrder
  <2>4. Ticking(k) => \A g \in k.todo : g.src = f.src => f.at <= g.at
    BY <1>2, <1>4, <2>1 DEF StatusInv, InOrder, f
  <2> QED
    BY <1>4, <1>6, <2>3, <2>4 DEF InOrder, Ticking, Held
<1>9. (\A i \in 1 .. Len(deliveries) : Reflected(deliveries[i]))'
  <2>1. \A i \in 1 .. Len(deliveries) :
          Reflected(deliveries[i]) /\ (\A v \in Workers : work[v].stage # "status")
    BY <1>1, <1>6 DEF StatusInv
  <2>2. \A i \in 1 .. Len(deliveries') : deliveries'[i] = d \/
          (i \in 1 .. Len(deliveries) /\ deliveries'[i] = deliveries[i])
    BY <1>5
  <2> QED
    BY <1>1, <1>3, <1>4, <1>6, <2>1, <2>2 DEF Reflected
<1> QED
  BY <1>7, <1>8, <1>9 DEF StatusInv

LEMMA SetStatusReflects ==
  ASSUME IInv, StatusInv, \A v, u \in Workers : v = u, NEW w \in Workers, SetStatus(w)
  PROVE  StatusInv'
<1> DEFINE k == [work[w] EXCEPT !.stage = "firing", !.cur = None]
           f == work[w].cur
<1>1. /\ work[w] \in Work /\ work[w].stage = "status" /\ WorkOK(work[w])
      /\ work' = [work EXCEPT ![w] = k]
      /\ UNCHANGED <<items, lastId, deliveries>>
  BY DEF SetStatus, IInv, TypeOK, TickInv, WorkersOK
<1>2. f \in Firing /\ f # None /\ f \in Held(work[w])
  BY <1>1 DEF WorkOK, InStage, Work, Held
<1>3. k.stage = "firing" /\ k.todo = work[w].todo /\ k.cur = None /\ k.class = work[w].class
  BY <1>1 DEF Work
<1> DEFINE s == [at |-> f.at, ok |-> work[w].ok]
<1>4. \A i \in ItemIds : status'[i] = IF i = f.src /\ items[f.src] # None THEN s ELSE status[i]
  BY DEF SetStatus, IInv, TypeOK
<1>5. s # None /\ s.at = f.at
  <2>1. s \in Status
    BY <1>1, <1>2 DEF Firing, Work, Status
  <2> QED
    BY <2>1, NoneAssumption
<1> HIDE DEF k, s
<1>6. \A v \in Workers : work'[v] = k /\ v = w
  BY <1>1 DEF IInv, TypeOK
<1>7. SourcesOwn'
  BY <1>1, <1>3, <1>6 DEF StatusInv, SourcesOwn, Own, Held
<1>8. InOrder(k)
  BY <1>1, <1>3 DEF StatusInv, InOrder, Ticking, Held
<1>9. ASSUME NEW i \in 1 .. Len(deliveries), deliveries[i].class = "schedule",
             items[deliveries[i].src] # None
      PROVE  status'[deliveries[i].src] # None /\ status'[deliveries[i].src].at >= deliveries[i].at
  <2>1. deliveries[i] \in Delivery /\ deliveries[i].src \in ItemIds
    <3>1. deliveries[i] \in Delivery
      BY DEF IInv, TypeOK
    <3> QED
      BY <3>1 DEF Delivery
  <2>2. CASE deliveries[i].src = f.src
    <3>1. Ticking(work[w])
      BY <1>1, <1>2, <1>9, <2>2 DEF StatusInv, SourcesOwn, Own, Ticking
    <3>2. deliveries[i].at <= f.at
      BY <1>2, <1>9, <2>2, <3>1 DEF StatusInv, InOrder
    <3>3. deliveries[i].at \in Int /\ f.at \in Int
      BY <1>2, <2>1 DEF Delivery, Firing, Times
    <3> QED
      BY <1>4, <1>5, <1>9, <2>1, <2>2, <3>2, <3>3
  <2>3. CASE deliveries[i].src # f.src
    BY <1>4, <1>6, <1>9, <2>1, <2>3 DEF StatusInv, Reflected
  <2> QED
    BY <2>2, <2>3
<1>10. (\A v \in Workers : InOrder(work[v]))'
  BY <1>1, <1>6, <1>8 DEF InOrder, Ticking, Held
<1> QED
  BY <1>1, <1>7, <1>9, <1>10 DEF StatusInv, Reflected

LEMMA ReflectedStep ==
  ASSUME IInv, StatusInv, \A v, u \in Workers : v = u, [Next]_vars
  PROVE  StatusInv'
<1>1. \A w \in Workers : work[w] \in Work /\ WorkOK(work[w])
  BY DEF IInv, TypeOK, TickInv, WorkersOK
\* Every delivery came before the window that a tick claims.
<1>2. ASSUME NEW w \in Workers, NEW at \in Times, Claim(w, at)
      PROVE  StatusInv'
  <2> DEFINE k == [IdleWork EXCEPT !.stage = "claimed", !.from = lastTick, !.at = at]
  <2>1. k.stage = "claimed" /\ k.from = lastTick /\ k.todo = {} /\ k.cur = None
    BY DEF IdleWork
  <2>2. /\ work[w].stage = "idle" /\ work' = [work EXCEPT ![w] = k]
        /\ UNCHANGED <<items, lastId, deliveries, status>>
    BY <1>2 DEF Claim
  <2> HIDE DEF k
  <2>3. Held(k) = {}
    BY <2>1 DEF Held
  <2>4. InOrder(k)
    BY <2>1, <2>3 DEF InOrder, IInv, TickInv, DeliveredBefore
  <2> QED
    BY <2>2, <2>3, <2>4, WorkerReflects
<1>3. ASSUME NEW w \in Workers, NEW source \in Sources, Inject(w, source)
      PROVE  StatusInv'
  <2> DEFINE k == [IdleWork EXCEPT !.stage = "claimed", !.class = "trigger", !.at = clock,
                                   !.source = source]
  <2>1. k.class = "trigger" /\ k.todo = {} /\ k.cur = None
    BY DEF IdleWork
  <2>2. /\ work[w].stage = "idle" /\ work' = [work EXCEPT ![w] = k]
        /\ UNCHANGED <<items, lastId, deliveries, status>>
    BY <1>3 DEF Inject
  <2> HIDE DEF k
  <2>3. Held(k) = {} /\ InOrder(k)
    BY <2>1 DEF Held, InOrder, Ticking
  <2> QED
    BY <2>2, <2>3, WorkerReflects
<1>4. ASSUME NEW w \in Workers, List(w)
      PROVE  StatusInv'
  <2> DEFINE k == [work[w] EXCEPT !.stage = "firing", !.todo = ToFire(work[w])]
  <2>1. /\ work[w].stage = "claimed" /\ work' = [work EXCEPT ![w] = k]
        /\ UNCHANGED <<items, lastId, deliveries, status>>
    BY <1>4 DEF List, IInv, TypeOK
  <2>2. work[w].cur = None
    BY <1>1, <2>1 DEF WorkOK, InStage
  <2>3. /\ k.stage = "firing" /\ k.class = work[w].class /\ k.todo = ToFire(work[w])
        /\ k.cur = None
    BY <1>1, <2>2 DEF Work
  <2> HIDE DEF k
  <2>4. Held(k) = ToFire(work[w])
    BY <2>3 DEF Held
  <2>5. ASSUME NEW f \in Held(k)
        PROVE  Own(f, k.class)
    <3>1. f.src \in Of(work[w].class)
      BY <2>1, <2>4, ToFireOK
    <3> QED
      BY <2>3, <3>1 DEF Of, Own, IInv, ItemInv, Stored
  <2>6. ASSUME Ticking(k), NEW f \in Held(k), NEW i \in 1 .. Len(deliveries),
               deliveries[i].class = "schedule"
        PROVE  deliveries[i].at <= f.at
    <3>1. work[w].from < f.at /\ deliveries[i].at <= work[w].from
      BY <2>1, <2>3, <2>4, <2>6, ToFireOK DEF Ticking, StatusInv, InOrder
    <3>2. deliveries[i] \in Delivery /\ f \in Firing /\ work[w].from \in 0 .. MaxTime
      BY <1>1, <2>1, <2>4, ToFireOK DEF IInv, TypeOK, Work
    <3> QED
      BY <3>1, <3>2, ConstantsAssumption DEF Delivery, Firing, Times
  <2>7. InOrder(k)
    BY <2>3, <2>6 DEF InOrder
  <2> QED
    BY <2>1, <2>5, <2>7, WorkerReflects
\* It takes the firings of a schedule in the order of their times.
<1>5. ASSUME NEW w \in Workers, Resolve(w)
      PROVE  StatusInv'
  <2>1. PICK f \in work[w].todo :
          /\ \A g \in work[w].todo : Before(f, g)
          /\ LET found == items[f.pc] # None /\ items[f.pc].class = "process"
             IN  work' = [work EXCEPT
                    ![w].todo = @ \ {f}, ![w].cur = f, ![w].ok = found,
                    ![w].dest = IF found THEN items[f.pc].dest ELSE None,
                    ![w].stage = IF found /\ Linked THEN "forward" ELSE "record"]
    BY <1>5 DEF Resolve
  <2> DEFINE k == work'[w]
  <2>2. /\ work' = [work EXCEPT ![w] = k]
        /\ k.todo = work[w].todo \ {f} /\ k.cur = f /\ k.class = work[w].class
        /\ k.stage \in {"forward", "record"}
    <3>1. work \in [Workers -> Work]
      BY <1>1 DEF IInv, TypeOK
    <3>2. work[w] \in Work
      BY <3>1
    <3> QED
      BY <2>1, <3>1, <3>2 DEF Work
  <2>3. work[w].stage = "firing" /\ UNCHANGED <<items, lastId, deliveries, status>>
    BY <1>5 DEF Resolve
  <2> HIDE DEF k
  <2>4. Held(k) \subseteq Held(work[w]) /\ (Ticking(k) => Ticking(work[w]))
    BY <1>1, <2>2, <2>3, NoneAssumption DEF Held, Ticking, Work
  <2>5. \A g \in k.todo : g.src = f.src => f.at <= g.at
    <3>1. work[w].todo \subseteq Firing /\ f \in Firing
      BY <1>1 DEF Work
    <3> QED
      BY <2>1, <2>2, <3>1 DEF Before, Firing, ItemIds, Times
  <2>6. InOrder(k)
    BY <2>2, <2>4, <2>5 DEF StatusInv, InOrder
  <2>7. \A g \in Held(k) : Own(g, k.class)
    BY <2>2, <2>4 DEF StatusInv, SourcesOwn
  <2> QED
    BY <2>2, <2>6, <2>7, <2>3, WorkerReflects
<1>6. ASSUME NEW w \in Workers, NEW ok \in BOOLEAN, Forward(w, ok)
      PROVE  StatusInv'
  <2> DEFINE k == work'[w]
  <2>1. /\ work' = [work EXCEPT ![w] = k]
        /\ k.stage = "record" /\ work[w].stage = "forward" /\ k.todo = work[w].todo
        /\ k.cur = work[w].cur /\ k.class = work[w].class
        /\ UNCHANGED <<items, lastId, deliveries, status>>
    BY <1>1, <1>6 DEF Forward, IInv, TypeOK, Work
  <2> HIDE DEF k
  <2>2. Held(k) = Held(work[w]) /\ (Ticking(k) => Ticking(work[w]))
    BY <2>1 DEF Held, Ticking
  <2>3. InOrder(k) /\ \A g \in Held(k) : Own(g, k.class)
    BY <2>1, <2>2 DEF StatusInv, InOrder, SourcesOwn
  <2> QED
    BY <2>1, <2>3, WorkerReflects
<1>7. ASSUME NEW w \in Workers, Finish(w)
      PROVE  StatusInv'
  <2>1. Held(IdleWork) = {} /\ InOrder(IdleWork)
    BY IdleOK DEF Held, InOrder, IdleWork
  <2> QED
    BY <1>7, <2>1, WorkerReflects DEF Finish
<1>8. ASSUME NEW c \in Apis, CreateItem(c) \/ UpdateItem(c)
      PROVE  StatusInv'
  <2>1. /\ api[c] \in Request /\ api[c] # None /\ Pending(api[c])
        /\ lastId \in Nat /\ \A i \in ItemIds : i \in Nat
    BY <1>8, ConstantsAssumption
       DEF CreateItem, UpdateItem, IInv, TypeOK, ItemInv, RequestsOK, ItemIds
  <2>2. CASE CreateItem(c)
    <3>1. /\ lastId' = lastId + 1 /\ UNCHANGED <<work, deliveries, status>>
          /\ \A i \in ItemIds : i <= lastId => items'[i] = items[i]
      BY <2>1, <2>2 DEF CreateItem, IInv, TypeOK
    <3> QED
      BY <2>1, <3>1, RequestReflects
  <2>3. CASE UpdateItem(c)
    <3>1. UNCHANGED <<work, deliveries, status, lastId>> /\ api[c].id # None
      BY <2>3 DEF UpdateItem
    <3>2. \A i \in ItemIds : items'[i] # None =>
            items[i] # None /\ items'[i].class = items[i].class
      BY <2>1, <2>3, <3>1 DEF UpdateItem, IInv, TypeOK, Pending
    <3> QED
      BY <2>1, <3>1, <3>2, RequestReflects
  <2> QED
    BY <1>8, <2>2, <2>3
<1>9. ASSUME NEW i \in ItemIds, DeleteItem(i)
      PROVE  StatusInv'
  <2>1. /\ \A j \in ItemIds : /\ items'[j] = IF j = i THEN None ELSE items[j]
                              /\ status'[j] = IF j = i THEN None ELSE status[j]
        /\ UNCHANGED <<work, deliveries, lastId>> /\ lastId \in Nat
    BY <1>9 DEF DeleteItem, IInv, TypeOK
  <2> QED
    BY <2>1, RequestReflects
<1>10. ASSUME ClearDeliveries
       PROVE  StatusInv'
  BY <1>10 DEF ClearDeliveries, StatusInv, SourcesOwn, Own, Held, InOrder, Ticking
<1>11. ASSUME UNCHANGED <<items, status, lastId, work, deliveries>>
       PROVE  StatusInv'
  BY <1>11 DEF StatusInv, SourcesOwn, Own, Held, InOrder, Ticking, Reflected
<1>12. clock \in Times
  BY DEF IInv, TypeOK
<1>13. ASSUME NEW w \in Workers, Start(w) \/ Step(w)
       PROVE  StatusInv'
  BY <1>2, <1>3, <1>4, <1>5, <1>6, <1>7, <1>12, <1>13, RecordReflects, SetStatusReflects
     DEF Start, Step
<1>14. ASSUME NEW c \in Apis, Api(c)
       PROVE  StatusInv'
  BY <1>8, <1>11, <1>14 DEF Api, Validate
<1> QED
  BY <1>9, <1>10, <1>11, <1>13, <1>14 DEF Next, Pass, vars

\* When ticks and events come one after another, the Status of a schedule
\* reflects its latest firing, whatever requests do meanwhile to the items.
\* With two ticks at a time it need not: a run shows that.
THEOREM ShowsLatest ==
  ASSUME \A v, w \in Workers : v = w
  PROVE  Spec => []StatusIsLatest
<1>1. Init => StatusInv
  <2>1. Held(IdleWork) = {} /\ InOrder(IdleWork)
    BY IdleOK DEF Held, InOrder, IdleWork
  <2> QED
    BY <2>1 DEF Init, StatusInv, SourcesOwn
<1>2. IInv /\ StatusInv /\ [Next]_vars => StatusInv'
  BY ReflectedStep
<1>3. IInv /\ StatusInv => StatusIsLatest
  <2>1. ASSUME IInv, StatusInv, NEW w \in Workers, work[w].stage = "status"
        PROVE  work[w].cur # None
    BY <2>1 DEF IInv, TickInv, WorkersOK, WorkOK, InStage
  <2> QED
    BY <2>1 DEF StatusInv, Reflected, StatusIsLatest
<1> QED
  BY <1>1, <1>2, <1>3, Invariance, PTL DEF Spec
=============================================================================
