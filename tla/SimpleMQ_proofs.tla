--------------------------- MODULE SimpleMQ_proofs ---------------------------
(***************************************************************************)
(* Proofs about the SimpleMQ memory store, for any number of queues,       *)
(* requests and messages and every setting.                                *)
(*                                                                         *)
(* IInv is the inductive invariant.  TypeOK alone is not inductive: Send    *)
(* reads the settings of the queue the request holds, so its preservation  *)
(* needs that every handle in a map or in a request has been made, which   *)
(* is what HandlesMade says; IndexesAgree and HandleGenerations need that  *)
(* the counters are ahead of everything allocated from them.               *)
(***************************************************************************)
EXTENDS SimpleMQ, TLAPS

\* Everything allocated so far lies at or below its counter.
Allocated ==
    /\ \A n \in Names : queueByName[n] # None => queueByName[n] <= created
    /\ \A id \in QueueIds : queueResources[id] # None => id <= created
    /\ \A m \in MsgIds : messages[m] # None => m <= sent /\ messages[m].handle <= made

\* Handles in the map or in a request have been made.
HandlesMade ==
    /\ \A n \in Names : queues[n] # None =>
         queues[n] <= made /\ handles[queues[n]] # None
    /\ \A c \in Clients : req[c].handle # None =>
         req[c].handle <= made /\ handles[req[c].handle] # None

\* What a request has done so far determines what it knows.
RequestShape ==
    \A c \in Clients :
        /\ req[c].pc = "gotQueue" <=> req[c].handle # None
        /\ req[c].pc # "idle" => req[c].name \in Names /\ req[c].result = None
        /\ req[c].pc # "idle" => req[c].gen <= gen[req[c].name]

\* A live queue was made in its name's current generation, and only there.
HandleGenerations ==
    /\ \A n \in Names : queues[n] # None => handles[queues[n]].gen = gen[n]
    /\ \A n, k \in Names : queues[n] # None /\ queues[n] = queues[k] => n = k

\* A running lease is the visibility timeout of a stored message.
LeasesStored ==
    \A m \in MsgIds : lease[m] # 0 =>
        messages[m] # None /\ messages[m].visibleAt = lease[m]

IInv ==
    /\ TypeOK
    /\ IndexesAgree
    /\ Allocated
    /\ HandlesMade
    /\ RequestShape
    /\ HandleGenerations
    /\ NoStaleIncarnation
    /\ LeasesStored

-----------------------------------------------------------------------------
(* Effects of the operators the actions share *)

\* The request a finished client is left with holds no queue.
LEMMA IdleRequest ==
  ASSUME NEW m \in MsgIds \cup {None}
  PROVE  Idle(m) \in Request /\ Idle(m).pc = "idle" /\ Idle(m).handle = None
BY DEF Idle, Request, PCs, Ops, ZeroTime

\* Respond: the client is idle again and the others are where they were.
LEMMA RespondEffect ==
  ASSUME TypeOK, NEW c \in Clients, NEW m \in MsgIds \cup {None}, Respond(c, m)
  PROVE  /\ req' \in [Clients -> Request]
         /\ req'[c].pc = "idle" /\ req'[c].handle = None
         /\ \A d \in Clients : d # c => req'[d] = req[d]
<1>1. req' = [req EXCEPT ![c] = Idle(m)]
  BY DEF Respond
<1>2. Idle(m) \in Request /\ Idle(m).pc = "idle" /\ Idle(m).handle = None
  BY IdleRequest
<1>3. req \in [Clients -> Request]
  BY DEF TypeOK
<1> QED
  BY <1>1, <1>2, <1>3

\* A response keeps what the invariant says of requests, when the queues stay
\* as they are.
LEMMA RespondKeeps ==
  ASSUME IInv, NEW c \in Clients, NEW m \in MsgIds \cup {None}, Respond(c, m),
         UNCHANGED <<queues, handles, made, gen>>
  PROVE  HandlesMade' /\ RequestShape' /\ NoStaleIncarnation'
<1>1. /\ req'[c].pc = "idle" /\ req'[c].handle = None
      /\ \A d \in Clients : d # c => req'[d] = req[d]
  BY RespondEffect DEF IInv
<1>2. HandlesMade'
  BY <1>1 DEF IInv, HandlesMade
<1>3. RequestShape'
  BY <1>1 DEF IInv, RequestShape
<1>4. NoStaleIncarnation'
  BY <1>1 DEF IInv, NoStaleIncarnation
<1> QED
  BY <1>2, <1>3, <1>4

\* Remove: the messages that stay are as they were.
LEMMA RemoveKeeps ==
  ASSUME IInv, NEW S, Remove(S), UNCHANGED <<queueByName, queueResources, created, sent, made>>
  PROVE  /\ messages' \in [MsgIds -> Message \cup {None}]
         /\ lease' \in [MsgIds -> Nat]
         /\ Allocated' /\ LeasesStored'
<1>1. \A m \in MsgIds : /\ messages'[m] = IF m \in S THEN None ELSE messages[m]
                        /\ lease'[m] = IF m \in S THEN 0 ELSE lease[m]
  BY DEF Remove
<1>2. Allocated'
  BY <1>1 DEF IInv, Allocated
<1>3. LeasesStored'
  BY <1>1 DEF IInv, LeasesStored
<1>4. /\ messages' \in [MsgIds -> Message \cup {None}]
      /\ lease' \in [MsgIds -> Nat]
  BY DEF IInv, TypeOK, Remove
<1> QED
  BY <1>2, <1>3, <1>4

\* New settings leave a queue what it is and in its generation.
LEMMA SettingsEffect ==
  ASSUME handles \in [Handles -> Queue \cup {None}],
         NEW h \in Handles, handles[h] # None, NEW v \in Nat, NEW e \in Nat,
         handles' = [handles EXCEPT ![h].vt = v, ![h].me = e]
  PROVE  /\ handles' \in [Handles -> Queue \cup {None}]
         /\ handles'[h] # None
         /\ handles'[h].vt = v /\ handles'[h].me = e /\ handles'[h].gen = handles[h].gen
         /\ \A g \in Handles : g # h => handles'[g] = handles[g]
<1>1. handles[h] \in Queue
  OBVIOUS
<1>2. handles' = [handles EXCEPT ![h] = [[handles[h] EXCEPT !.vt = v] EXCEPT !.me = e]]
  BY <1>1 DEF Queue
<1> DEFINE q == [[handles[h] EXCEPT !.vt = v] EXCEPT !.me = e]
<1>3. q \in Queue /\ q.vt = v /\ q.me = e /\ q.gen = handles[h].gen
  BY <1>1 DEF Queue
<1>4. q # None
  BY <1>3, NoneAssumption
<1> HIDE DEF q
<1> QED
  BY <1>2, <1>3, <1>4 DEF q

\* A change of the settings of one live queue, or of none, keeps what the
\* invariant says of handles.
LEMMA SettingsKeep ==
  ASSUME IInv, NEW h \in Handles \cup {None}, NEW v \in Nat, NEW e \in Nat,
         h # None => handles[h] # None,
         handles' = IF h # None
                    THEN [handles EXCEPT ![h].vt = v, ![h].me = e] ELSE handles,
         UNCHANGED <<queues, req, made, gen>>
  PROVE  /\ handles' \in [Handles -> Queue \cup {None}]
         /\ h # None => handles'[h].vt = v /\ handles'[h].me = e
         /\ \A g \in Handles : g # h => handles'[g] = handles[g]
         /\ HandlesMade' /\ HandleGenerations' /\ NoStaleIncarnation'
<1>1. handles \in [Handles -> Queue \cup {None}]
  BY DEF IInv, TypeOK
<1>2. /\ handles' \in [Handles -> Queue \cup {None}]
      /\ \A g \in Handles : handles[g] # None =>
            handles'[g] # None /\ handles'[g].gen = handles[g].gen
      /\ h # None => handles'[h].vt = v /\ handles'[h].me = e
      /\ \A g \in Handles : g # h => handles'[g] = handles[g]
  <2>1. CASE h = None
    BY <1>1, <2>1
  <2>2. CASE h # None
    <3>1. /\ handles' \in [Handles -> Queue \cup {None}]
          /\ handles'[h] # None
          /\ handles'[h].vt = v /\ handles'[h].me = e /\ handles'[h].gen = handles[h].gen
          /\ \A g \in Handles : g # h => handles'[g] = handles[g]
      BY <1>1, <2>2, SettingsEffect
    <3> QED
      BY <2>2, <3>1
  <2> QED
    BY <2>1, <2>2
<1>3. queues \in [Names -> Handles \cup {None}] /\ req \in [Clients -> Request]
  BY DEF IInv, TypeOK
<1>4. \A c \in Clients : req[c].handle \in Handles \cup {None}
  BY <1>3 DEF Request
<1>5. HandlesMade'
  BY <1>2, <1>3, <1>4 DEF IInv, HandlesMade
<1>6. HandleGenerations'
  BY <1>2, <1>3 DEF IInv, HandlesMade, HandleGenerations
<1>7. NoStaleIncarnation'
  BY <1>2, <1>4 DEF IInv, HandlesMade, NoStaleIncarnation
<1> QED
  BY <1>2, <1>5, <1>6, <1>7

-----------------------------------------------------------------------------
(* One lemma per action: the step keeps the invariant *)

LEMMA AdmitStep ==
  ASSUME IInv, NEW c \in Clients, NEW op \in Ops, NEW n \in Names,
         NEW target \in MsgIds \cup {None}, Admit(c, op, n, target)
  PROVE  IInv'
<1> DEFINE r == [pc |-> IF op = "delete" THEN "entered" ELSE "admitted",
                 op |-> op, name |-> n, target |-> target, now |-> ZeroTime,
                 handle |-> None, gen |-> gen[n], result |-> None]
<1>1. r \in Request /\ r.handle = None /\ r.pc # "gotQueue"
      /\ r.name = n /\ r.gen = gen[n]
  BY DEF IInv, TypeOK, Request, PCs, ZeroTime
<1>2. req' = [req EXCEPT ![c] = r]
  BY DEF Admit
<1> HIDE DEF r
<1>3. TypeOK'
  BY <1>1, <1>2 DEF IInv, TypeOK, Admit, storeVars, counters
<1>4. HandlesMade' /\ NoStaleIncarnation'
  BY <1>1, <1>2 DEF IInv, TypeOK, HandlesMade, NoStaleIncarnation, Admit, storeVars, counters
<1>5. RequestShape'
  BY <1>1, <1>2 DEF IInv, TypeOK, RequestShape, Admit
<1>6. IndexesAgree' /\ Allocated' /\ HandleGenerations' /\ LeasesStored'
  BY DEF IInv, IndexesAgree, Allocated, HandleGenerations, LeasesStored,
         Admit, storeVars, counters
<1> QED
  BY <1>3, <1>4, <1>5, <1>6 DEF IInv

LEMMA EnterStep ==
  ASSUME IInv, NEW c \in Clients, Enter(c)
  PROVE  IInv'
<1>1. /\ req \in [Clients -> Request] /\ clock \in Times
      /\ req[c].pc = "admitted"
      /\ req' = [req EXCEPT ![c] = [[req[c] EXCEPT !.pc = "entered"] EXCEPT !.now = clock]]
  BY DEF IInv, TypeOK, Enter, Request
<1> DEFINE r == [[req[c] EXCEPT !.pc = "entered"] EXCEPT !.now = clock]
<1>2. r \in Request /\ r.pc = "entered"
      /\ r.handle = req[c].handle /\ r.name = req[c].name /\ r.gen = req[c].gen
  BY <1>1 DEF Request, PCs
<1> HIDE DEF r
<1>3. req' \in [Clients -> Request] /\ req'[c] = r
      /\ \A d \in Clients : d # c => req'[d] = req[d]
  BY <1>1, <1>2 DEF r
<1>4. TypeOK'
  BY <1>3 DEF IInv, TypeOK, Enter, storeVars, counters
<1>5. RequestShape'
  BY <1>1, <1>2, <1>3 DEF IInv, RequestShape, Enter
<1>6. HandlesMade' /\ NoStaleIncarnation'
  BY <1>2, <1>3 DEF IInv, HandlesMade, NoStaleIncarnation, Enter, storeVars, counters
<1>7. IndexesAgree' /\ Allocated' /\ HandleGenerations' /\ LeasesStored'
  BY DEF IInv, IndexesAgree, Allocated, HandleGenerations, LeasesStored,
         Enter, storeVars, counters
<1> QED
  BY <1>4, <1>5, <1>6, <1>7 DEF IInv

\* The settings of a queue made on demand, and its generation.
LEMMA NewQueueType ==
  ASSUME IInv, NEW n \in Names
  PROVE  NewQueue(n) \in Queue /\ NewQueue(n).gen = gen[n]
<1>1. ASSUME NEW id \in QueueIds, queueResources[id] # None
      PROVE  /\ Ticks(queueResources[id].vtSecs) \in Nat
             /\ Ticks(queueResources[id].expSecs) \in Nat
  BY <1>1, ConfigAssumption DEF IInv, TypeOK, Resource, Ticks
<1>2. gen[n] \in Nat /\ queueByName[n] \in QueueIds \cup {None}
  BY DEF IInv, TypeOK
<1> QED
  BY <1>1, <1>2, ConfigAssumption DEF NewQueue, Queue

LEMMA GetQueueStep ==
  ASSUME IInv, NEW c \in Clients, GetQueue(c)
  PROVE  IInv'
<1> DEFINE n == req[c].name
           h == IF queues[n] # None THEN queues[n] ELSE made + 1
           r == [[req[c] EXCEPT !.pc = "gotQueue"] EXCEPT !.handle = h]
<1>1. /\ req \in [Clients -> Request] /\ queues \in [Names -> Handles \cup {None}]
      /\ handles \in [Handles -> Queue \cup {None}] /\ made \in 0 .. MaxHandles
      /\ gen \in [Names -> Nat]
  BY DEF IInv, TypeOK
<1>2. n \in Names /\ req[c].gen <= gen[n] /\ req[c].result = None
  BY DEF IInv, RequestShape, GetQueue
<1>3. h \in Handles /\ h # None
  BY <1>1, <1>2, BoundAssumption, NoneAssumption DEF GetQueue, Handles
<1>4. req' = [req EXCEPT ![c] = r]
  BY <1>1, <1>2 DEF GetQueue, Request
<1>5. r \in Request /\ r.pc = "gotQueue" /\ r.handle = h /\ r.name = n /\ r.gen = req[c].gen
      /\ r.result = req[c].result
  <2>1. req[c] \in Request
    BY <1>1
  <2> HIDE DEF h
  <2> QED
    BY <1>3, <2>1 DEF Request, PCs
<1> HIDE DEF r
<1>6. req' \in [Clients -> Request] /\ req'[c] = r
      /\ \A d \in Clients : d # c => req'[d] = req[d]
  BY <1>1, <1>4, <1>5
\* Whether it was there or had to be made, the queue is now the name's queue,
\* of the current generation, and nothing else has changed.
<1>7. /\ queues' \in [Names -> Handles \cup {None}]
      /\ queues'[n] = h /\ \A k \in Names : k # n => queues'[k] = queues[k]
      /\ handles' \in [Handles -> Queue \cup {None}]
      /\ handles'[h] # None /\ handles'[h].gen = gen[n]
      /\ \A g \in Handles : g <= made => handles'[g] = handles[g]
      /\ made' \in 0 .. MaxHandles /\ h <= made' /\ made <= made'
      /\ \A k \in Names : k # n => queues[k] # h
  <2>1. CASE queues[n] # None
    <3>1. UNCHANGED <<queues, handles, made>>
      BY <2>1 DEF GetQueue
    <3>2. h <= made /\ handles[h] # None /\ handles[h].gen = gen[n]
          /\ \A k \in Names : k # n => queues[k] # h
      BY <1>2, <2>1 DEF IInv, HandlesMade, HandleGenerations
    <3> QED
      BY <1>1, <1>2, <2>1, <3>1, <3>2
  <2>2. CASE queues[n] = None
    <3>1. /\ made < MaxHandles /\ made' = made + 1 /\ h = made + 1
          /\ handles' = [handles EXCEPT ![h] = NewQueue(n)]
          /\ queues' = [queues EXCEPT ![n] = h]
      BY <2>2 DEF GetQueue
    <3>2. NewQueue(n) \in Queue /\ NewQueue(n).gen = gen[n] /\ NewQueue(n) # None
      BY <1>2, NewQueueType, NoneAssumption
    <3>3. \A k \in Names : queues[k] # h
      BY <1>1, <1>3, <3>1, BoundAssumption DEF IInv, HandlesMade, Handles
    <3>4. \A g \in Handles : g <= made => g # h
      BY <1>1, <3>1, BoundAssumption DEF Handles
    <3> QED
      BY <1>1, <1>2, <1>3, <3>1, <3>2, <3>3, <3>4, BoundAssumption
  <2> QED
    BY <2>1, <2>2
<1>8. /\ UNCHANGED <<clock, queueByName, queueResources, messages, sent,
                     created, issued, gen, lease>>
  BY DEF GetQueue
<1>9. \A d \in Clients : req[d].handle \in Handles \cup {None}
  BY <1>1 DEF Request
<1> HIDE DEF h, n
<1>10. TypeOK'
  BY <1>6, <1>7, <1>8 DEF IInv, TypeOK
<1>11. HandlesMade'
  <2>1. ASSUME NEW k \in Names, queues'[k] # None
        PROVE  queues'[k] <= made' /\ handles'[queues'[k]] # None
    BY <1>1, <1>7, <2>1 DEF IInv, HandlesMade, Handles
  <2>2. ASSUME NEW d \in Clients, req'[d].handle # None
        PROVE  req'[d].handle <= made' /\ handles'[req'[d].handle] # None
    <3>1. CASE d = c
      BY <1>5, <1>6, <1>7, <3>1
    <3>2. CASE d # c
      <4>1. /\ req'[d] = req[d] /\ req[d].handle \in Handles
            /\ req[d].handle <= made /\ handles[req[d].handle] # None
        BY <1>6, <1>9, <2>2, <3>2 DEF IInv, HandlesMade
      <4> QED
        BY <1>1, <1>7, <4>1 DEF Handles
    <3> QED
      BY <3>1, <3>2
  <2> QED
    BY <2>1, <2>2 DEF HandlesMade
<1>12. RequestShape'
  BY <1>2, <1>3, <1>5, <1>6, <1>8 DEF IInv, RequestShape
<1>13. HandleGenerations'
  BY <1>1, <1>7, <1>8 DEF IInv, HandlesMade, HandleGenerations
<1>14. NoStaleIncarnation'
  <2>1. ASSUME NEW d \in Clients, req'[d].handle # None
        PROVE  /\ handles'[req'[d].handle].gen >= req'[d].gen
               /\ \A k \in Names : queues'[k] = req'[d].handle => k = req'[d].name
    <3>1. CASE d = c
      BY <1>1, <1>2, <1>5, <1>6, <1>7, <3>1 DEF Request
    <3>2. CASE d # c
      <4>1. req'[d] = req[d] /\ req[d].handle \in Handles /\ req[d].handle <= made
        BY <1>6, <1>9, <2>1, <3>2 DEF IInv, HandlesMade
      <4>2. handles'[req[d].handle] = handles[req[d].handle]
        BY <1>7, <4>1
      <4>3. queues[n] # None => h = queues[n]
        BY DEF h
      <4>4. queues[n] = None => h = made + 1
        BY DEF h
      <4>5. queues'[n] = req[d].handle => n = req[d].name
        BY <1>1, <1>2, <1>7, <2>1, <4>1, <4>3, <4>4 DEF IInv, NoStaleIncarnation, Handles
      <4> QED
        BY <1>7, <2>1, <4>1, <4>2, <4>5 DEF IInv, NoStaleIncarnation
    <3> QED
      BY <3>1, <3>2
  <2> QED
    BY <2>1 DEF NoStaleIncarnation
<1>15. IndexesAgree' /\ LeasesStored'
  BY <1>8 DEF IInv, IndexesAgree, LeasesStored
<1>16. Allocated'
  BY <1>1, <1>7, <1>8 DEF IInv, TypeOK, Allocated, Message, Handles
<1> QED
  BY <1>10, <1>11, <1>12, <1>13, <1>14, <1>15, <1>16 DEF IInv

LEMMA SendStep ==
  ASSUME IInv, NEW c \in Clients, Send(c)
  PROVE  IInv'
<1> DEFINE h == req[c].handle
           msg == [handle |-> h, expiresAt |-> req[c].now + handles[h].me,
                   visibleAt |-> ZeroTime]
<1>1. /\ sent < MaxMsgs /\ sent' = sent + 1 /\ sent + 1 \in MsgIds
      /\ messages' = [messages EXCEPT ![sent + 1] = msg]
      /\ Respond(c, sent + 1)
      /\ UNCHANGED <<clock, queues, queueByName, queueResources, handles,
                     made, created, issued, gen, lease>>
  BY BoundAssumption DEF Send, IInv, TypeOK, MsgIds, storeVars
<1>2. h \in Handles /\ h <= made /\ handles[h] \in Queue /\ req[c].now \in Nat
  <2>1. h # None
    BY DEF Send, Holds, IInv, RequestShape
  <2>2. h \in Handles /\ req[c].now \in Nat
    BY <2>1 DEF IInv, TypeOK, Request, Times, ZeroTime
  <2> QED
    BY <2>1, <2>2 DEF IInv, TypeOK, HandlesMade
<1>3. msg \in Message /\ msg # None /\ msg.handle = h
  BY <1>2, NoneAssumption DEF Message, Queue, ZeroTime
<1> HIDE DEF h, msg
<1>4. HandlesMade' /\ RequestShape' /\ NoStaleIncarnation'
  BY <1>1, RespondKeeps
<1>5. TypeOK'
  BY <1>1, <1>3, RespondEffect, BoundAssumption DEF IInv, TypeOK
<1>6. Allocated'
  BY <1>1, <1>2, <1>3 DEF IInv, TypeOK, Allocated, MsgIds
<1>7. lease[sent + 1] = 0
  BY <1>1 DEF IInv, TypeOK, Allocated, LeasesStored
<1>8. LeasesStored'
  BY <1>1, <1>3, <1>7 DEF IInv, TypeOK, LeasesStored
<1>9. IndexesAgree' /\ HandleGenerations'
  BY <1>1 DEF IInv, IndexesAgree, HandleGenerations
<1> QED
  BY <1>4, <1>5, <1>6, <1>8, <1>9 DEF IInv

\* A new visibility timeout on one stored message.
LEMMA HideStep ==
  ASSUME IInv, NEW c \in Clients, NEW m \in MsgIds, messages[m] # None,
         NEW t \in Nat, NEW l \in {0, t}, NEW res \in MsgIds \cup {None},
         messages' = [messages EXCEPT ![m].visibleAt = t],
         lease' = [lease EXCEPT ![m] = l],
         Respond(c, res),
         UNCHANGED <<clock, storeVars, handles, counters, gen>>
  PROVE  IInv'
<1> DEFINE msg == [messages[m] EXCEPT !.visibleAt = t]
<1>1. /\ messages \in [MsgIds -> Message \cup {None}] /\ lease \in [MsgIds -> Nat]
      /\ messages[m] \in Message
  BY DEF IInv, TypeOK
<1>2. /\ msg \in Message /\ msg # None
      /\ msg.handle = messages[m].handle /\ msg.visibleAt = t
  BY <1>1, NoneAssumption DEF Message
<1>3. messages' = [messages EXCEPT ![m] = msg]
  OBVIOUS
<1> HIDE DEF msg
<1>4. HandlesMade' /\ RequestShape' /\ NoStaleIncarnation'
  BY RespondKeeps DEF storeVars, counters
<1>5. TypeOK'
  BY <1>1, <1>2, <1>3, RespondEffect DEF IInv, TypeOK, storeVars, counters
<1>6. Allocated'
  BY <1>1, <1>2, <1>3 DEF IInv, Allocated, storeVars, counters
<1>7. LeasesStored'
  BY <1>1, <1>2, <1>3 DEF IInv, LeasesStored
<1>8. IndexesAgree' /\ HandleGenerations'
  BY DEF IInv, IndexesAgree, HandleGenerations, storeVars
<1> QED
  BY <1>4, <1>5, <1>6, <1>7, <1>8 DEF IInv

\* A response that changes nothing else.
LEMMA NothingStep ==
  ASSUME IInv, NEW c \in Clients, NEW res \in MsgIds \cup {None}, Respond(c, res),
         UNCHANGED <<clock, storeVars, handles, messages, lease, counters, gen>>
  PROVE  IInv'
<1>1. HandlesMade' /\ RequestShape' /\ NoStaleIncarnation'
  BY RespondKeeps DEF storeVars, counters
<1>2. TypeOK'
  BY RespondEffect DEF IInv, TypeOK, storeVars, counters
<1>3. IndexesAgree' /\ Allocated' /\ HandleGenerations' /\ LeasesStored'
  BY DEF IInv, IndexesAgree, Allocated, HandleGenerations, LeasesStored, storeVars, counters
<1> QED
  BY <1>1, <1>2, <1>3 DEF IInv

\* The time until which a request that holds a queue would hide a message.
LEMMA HideUntil ==
  ASSUME IInv, NEW c \in Clients, req[c].pc = "gotQueue"
  PROVE  req[c].now + handles[req[c].handle].vt \in Nat
<1>1. req[c].handle \in Handles /\ handles[req[c].handle] \in Queue
  BY DEF IInv, TypeOK, RequestShape, HandlesMade, Request
<1>2. req[c].now \in Nat
  BY DEF IInv, TypeOK, Request, Times, ZeroTime
<1> QED
  BY <1>1, <1>2 DEF Queue

LEMMA ReceiveStep ==
  ASSUME IInv, NEW c \in Clients, Receive(c)
  PROVE  IInv'
<1> DEFINE t == req[c].now + handles[req[c].handle].vt
<1>1. t \in Nat
  BY HideUntil DEF Receive, Holds
<1>2. CASE \E m \in MsgIds : /\ messages[m] # None
                             /\ messages' = [messages EXCEPT ![m].visibleAt = t]
                             /\ lease' = [lease EXCEPT ![m] = t]
                             /\ Respond(c, m)
  BY <1>1, <1>2, HideStep DEF Receive
<1>3. CASE Respond(c, None) /\ UNCHANGED <<messages, lease>>
  BY <1>3, NothingStep DEF Receive
<1> QED
  BY <1>2, <1>3 DEF Receive, Receivable, In

LEMMA ExtendTimeoutStep ==
  ASSUME IInv, NEW c \in Clients, ExtendTimeout(c)
  PROVE  IInv'
<1> DEFINE t == req[c].now + handles[req[c].handle].vt
<1>1. t \in Nat
  BY HideUntil DEF ExtendTimeout, Holds
<1>2. CASE req[c].target \in In(req[c].handle)
  BY <1>1, <1>2, HideStep DEF ExtendTimeout, In
<1>3. CASE req[c].target \notin In(req[c].handle)
  BY <1>3, NothingStep DEF ExtendTimeout
<1> QED
  BY <1>2, <1>3

\* A response that follows the removal of some messages.
LEMMA RemoveStep ==
  ASSUME IInv, NEW c \in Clients, NEW S, Remove(S), Respond(c, None),
         UNCHANGED <<clock, storeVars, handles, counters, gen>>
  PROVE  IInv'
<1>1. /\ messages' \in [MsgIds -> Message \cup {None}] /\ lease' \in [MsgIds -> Nat]
      /\ Allocated' /\ LeasesStored'
  BY RemoveKeeps DEF storeVars, counters
<1>2. HandlesMade' /\ RequestShape' /\ NoStaleIncarnation'
  BY RespondKeeps DEF storeVars, counters
<1>3. TypeOK'
  BY <1>1, RespondEffect DEF IInv, TypeOK, storeVars, counters
<1>4. IndexesAgree' /\ HandleGenerations'
  BY DEF IInv, IndexesAgree, HandleGenerations, storeVars
<1> QED
  BY <1>1, <1>2, <1>3, <1>4 DEF IInv

LEMMA CompactStep ==
  ASSUME IInv, NEW now, Compact(now)
  PROVE  IInv'
<1>1. /\ messages' \in [MsgIds -> Message \cup {None}] /\ lease' \in [MsgIds -> Nat]
      /\ Allocated' /\ LeasesStored'
  BY RemoveKeeps DEF Compact, storeVars, counters
<1>2. TypeOK'
  BY <1>1 DEF IInv, TypeOK, Compact, storeVars, counters
<1>3. IndexesAgree' /\ HandlesMade' /\ RequestShape' /\ HandleGenerations' /\ NoStaleIncarnation'
  BY DEF IInv, IndexesAgree, HandlesMade, RequestShape, HandleGenerations,
         NoStaleIncarnation, Compact, storeVars, counters
<1> QED
  BY <1>1, <1>2, <1>3 DEF IInv

LEMMA TickStep ==
  ASSUME IInv, Tick
  PROVE  IInv'
<1>1. clock' \in Times
  BY BoundAssumption DEF IInv, TypeOK, Tick, Times
<1>2. TypeOK'
  BY <1>1 DEF IInv, TypeOK, Tick, storeVars, counters
<1> QED
  BY <1>2 DEF IInv, IndexesAgree, Allocated, HandlesMade, RequestShape, HandleGenerations,
              NoStaleIncarnation, LeasesStored, Tick, storeVars, counters

LEMMA CreateQueueStep ==
  ASSUME IInv, NEW n \in Names, CreateQueue(n)
  PROVE  IInv'
<1> DEFINE id == created + 1
           res == [name |-> n, vtSecs |-> Seconds(DefaultVT),
                   expSecs |-> Seconds(DefaultME), key |-> NoKey]
<1>1. /\ queueByName[n] = None /\ created < MaxQueues /\ created' = id
      /\ queueResources' = [queueResources EXCEPT ![id] = res]
      /\ queueByName' = [queueByName EXCEPT ![n] = id]
      /\ UNCHANGED <<clock, queues, messages, sent, made, issued, req, gen, lease>>
  BY DEF CreateQueue
<1>2. id \in QueueIds /\ id # None
  BY <1>1, BoundAssumption, NoneAssumption DEF IInv, TypeOK, QueueIds
<1>3. res \in Resource /\ res # None /\ res.name = n
  BY ConfigAssumption, NoneAssumption DEF Resource, Seconds, NoKey
<1>4. queueResources[id] = None /\ \A k \in Names : queueByName[k] # id
  BY <1>2 DEF IInv, TypeOK, Allocated
<1>5. /\ queueByName \in [Names -> QueueIds \cup {None}]
      /\ queueResources \in [QueueIds -> Resource \cup {None}]
      /\ created \in 0 .. MaxQueues
  BY DEF IInv, TypeOK
<1> DEFINE h == queues[n]
<1>6. /\ h \in Handles \cup {None} /\ (h # None => handles[h] # None)
      /\ handles' = IF h # None
                    THEN [handles EXCEPT ![h].vt = DefaultVT, ![h].me = DefaultME]
                    ELSE handles
  BY DEF IInv, TypeOK, HandlesMade, CreateQueue
<1> HIDE DEF h
<1>7. /\ handles' \in [Handles -> Queue \cup {None}]
      /\ HandlesMade' /\ HandleGenerations' /\ NoStaleIncarnation'
  <2>1. DefaultVT \in Nat /\ DefaultME \in Nat
    BY ConfigAssumption
  <2>2. UNCHANGED <<queues, req, made, gen>>
    BY <1>1
  <2> QED
    BY <1>6, <2>1, <2>2, SettingsKeep
<1> HIDE DEF res
<1>8. TypeOK'
  BY <1>1, <1>2, <1>3, <1>5, <1>7, BoundAssumption DEF IInv, TypeOK
<1>9. IndexesAgree'
  <2>1. ASSUME NEW k \in Names, queueByName'[k] # None
        PROVE  queueResources'[queueByName'[k]] # None
               /\ queueResources'[queueByName'[k]].name = k
    BY <1>1, <1>2, <1>3, <1>4, <1>5, <2>1 DEF IInv, IndexesAgree
  <2>2. ASSUME NEW i \in QueueIds, queueResources'[i] # None
        PROVE  queueByName'[queueResources'[i].name] = i
    <3>1. CASE i = id
      BY <1>1, <1>2, <1>3, <1>5, <3>1
    <3>2. CASE i # id
      <4>1. queueResources'[i] = queueResources[i] /\ queueResources[i] \in Resource
        BY <1>1, <1>5, <2>2, <3>2
      <4>2. queueResources[i].name \in Names /\ queueByName[queueResources[i].name] = i
        BY <2>2, <4>1 DEF Resource, IInv, IndexesAgree
      <4> QED
        BY <1>1, <1>5, <4>1, <4>2, NoneAssumption DEF QueueIds
    <3> QED
      BY <3>1, <3>2
  <2> QED
    BY <2>1, <2>2 DEF IndexesAgree
<1>10. Allocated'
  <2>1. \A k \in Names : queueByName'[k] # None => queueByName'[k] <= created'
    BY <1>1, <1>2, <1>5, BoundAssumption DEF IInv, Allocated, QueueIds
  <2>2. \A i \in QueueIds : queueResources'[i] # None => i <= created'
    BY <1>1, <1>2, <1>5, BoundAssumption DEF IInv, Allocated, QueueIds
  <2>3. \A m \in MsgIds : messages'[m] # None => m <= sent' /\ messages'[m].handle <= made'
    BY <1>1 DEF IInv, Allocated
  <2> QED
    BY <2>1, <2>2, <2>3 DEF Allocated
<1>11. RequestShape' /\ LeasesStored'
  BY <1>1 DEF IInv, RequestShape, LeasesStored
<1> QED
  BY <1>7, <1>8, <1>9, <1>10, <1>11 DEF IInv

\* A resource that keeps its name keeps the indexes.
LEMMA ResourceKeeps ==
  ASSUME IInv, NEW id \in QueueIds, queueResources[id] # None,
         NEW res \in Resource, res.name = queueResources[id].name,
         queueResources' = [queueResources EXCEPT ![id] = res],
         UNCHANGED <<queueByName, created, sent, made, messages>>
  PROVE  /\ queueResources' \in [QueueIds -> Resource \cup {None}]
         /\ IndexesAgree' /\ Allocated'
<1>1. queueResources \in [QueueIds -> Resource \cup {None}]
      /\ queueByName \in [Names -> QueueIds \cup {None}] /\ res # None
  BY NoneAssumption DEF IInv, TypeOK
<1>2. \A i \in QueueIds : /\ queueResources'[i] # None <=> queueResources[i] # None
                          /\ queueResources'[i].name = queueResources[i].name
  BY <1>1
<1>3. IndexesAgree'
  BY <1>1, <1>2 DEF IInv, IndexesAgree
<1>4. Allocated'
  BY <1>2 DEF IInv, Allocated
<1> QED
  BY <1>1, <1>3, <1>4

LEMMA UpdateQueueStep ==
  ASSUME IInv, NEW id \in QueueIds, NEW vt \in VTSeconds, NEW exp \in ExpSeconds,
         UpdateQueue(id, vt, exp)
  PROVE  IInv'
<1> DEFINE old == queueResources[id]
           res == [[old EXCEPT !.vtSecs = vt] EXCEPT !.expSecs = exp]
           h == queues[old.name]
<1>1. old \in Resource /\ old.name \in Names /\ vt \in Nat /\ exp \in Nat
  BY ConfigAssumption DEF UpdateQueue, IInv, TypeOK, Resource
<1>2. /\ queueResources' = [queueResources EXCEPT ![id] = res]
      /\ handles' = IF h # None
                    THEN [handles EXCEPT ![h].vt = Ticks(vt), ![h].me = Ticks(exp)]
                    ELSE handles
      /\ UNCHANGED <<clock, queues, queueByName, messages, sent, made, created,
                     issued, req, gen, lease>>
  BY <1>1 DEF UpdateQueue, counters, Resource
<1>3. res \in Resource /\ res.name = old.name
  BY <1>1 DEF Resource
<1>4. h \in Handles \cup {None} /\ (h # None => handles[h] # None)
  BY <1>1 DEF IInv, TypeOK, HandlesMade
<1>5. Ticks(vt) \in Nat /\ Ticks(exp) \in Nat
  BY <1>1, ConfigAssumption DEF Ticks
<1>6. old # None
  BY DEF UpdateQueue
<1> HIDE DEF res, h, old
<1>7. /\ queueResources' \in [QueueIds -> Resource \cup {None}]
      /\ IndexesAgree' /\ Allocated'
  BY <1>2, <1>3, <1>6, ResourceKeeps DEF old
<1>8. /\ handles' \in [Handles -> Queue \cup {None}]
      /\ HandlesMade' /\ HandleGenerations' /\ NoStaleIncarnation'
  BY <1>2, <1>4, <1>5, SettingsKeep
<1>9. TypeOK'
  BY <1>2, <1>7, <1>8 DEF IInv, TypeOK
<1>10. RequestShape' /\ LeasesStored'
  BY <1>2 DEF IInv, RequestShape, LeasesStored
<1> QED
  BY <1>7, <1>8, <1>9, <1>10 DEF IInv

LEMMA RotateAPIKeyStep ==
  ASSUME IInv, NEW id \in QueueIds, RotateAPIKey(id)
  PROVE  IInv'
<1> DEFINE old == queueResources[id]
           res == [old EXCEPT !.key = issued + 1]
<1>1. old \in Resource /\ old # None /\ issued + 1 \in Keys
  BY BoundAssumption DEF RotateAPIKey, IInv, TypeOK, Keys
<1>2. /\ queueResources' = [queueResources EXCEPT ![id] = res]
      /\ issued' = issued + 1 /\ issued < MaxKeys
      /\ UNCHANGED <<clock, queues, queueByName, handles, messages, sent, made,
                     created, req, gen, lease>>
  BY <1>1 DEF RotateAPIKey
<1>3. res \in Resource /\ res.name = old.name
  BY <1>1 DEF Resource
<1> HIDE DEF res, old
<1>4. /\ queueResources' \in [QueueIds -> Resource \cup {None}]
      /\ IndexesAgree' /\ Allocated'
  BY <1>1, <1>2, <1>3, ResourceKeeps DEF old
<1>5. TypeOK'
  BY <1>2, <1>4, BoundAssumption DEF IInv, TypeOK
<1>6. HandlesMade' /\ RequestShape' /\ HandleGenerations' /\ NoStaleIncarnation' /\ LeasesStored'
  BY <1>2 DEF IInv, HandlesMade, RequestShape, HandleGenerations, NoStaleIncarnation, LeasesStored
<1> QED
  BY <1>4, <1>5, <1>6 DEF IInv

LEMMA DeleteQueueByIDStep ==
  ASSUME IInv, NEW id \in QueueIds, DeleteQueueByID(id)
  PROVE  IInv'
<1> DEFINE n == queueResources[id].name
<1>1. n \in Names /\ queueByName[n] = id
  BY DEF DeleteQueueByID, IInv, TypeOK, IndexesAgree, Resource
<1>2. /\ queueByName' = [queueByName EXCEPT ![n] = None]
      /\ queues' = [queues EXCEPT ![n] = None]
      /\ gen' = [gen EXCEPT ![n] = gen[n] + 1]
      /\ queueResources' = [queueResources EXCEPT ![id] = None]
      /\ UNCHANGED <<clock, handles, messages, sent, made, created, issued, req, lease>>
  BY DEF DeleteQueueByID, counters
<1>3. /\ queueByName \in [Names -> QueueIds \cup {None}]
      /\ queueResources \in [QueueIds -> Resource \cup {None}]
      /\ queues \in [Names -> Handles \cup {None}]
      /\ gen \in [Names -> Nat]
  BY DEF IInv, TypeOK
<1>4. \A i \in QueueIds : queueResources[i] # None => queueResources[i].name \in Names
  BY <1>3 DEF Resource
<1> HIDE DEF n
<1>5. TypeOK'
  BY <1>1, <1>2, <1>3 DEF IInv, TypeOK
<1>6. IndexesAgree'
  BY <1>1, <1>2, <1>3, <1>4 DEF IInv, IndexesAgree
<1>7. Allocated'
  BY <1>1, <1>2, <1>3 DEF IInv, Allocated
<1>8. HandlesMade'
  BY <1>1, <1>2, <1>3 DEF IInv, HandlesMade
<1>9. RequestShape'
  <2>1. req \in [Clients -> Request] /\ \A c \in Clients : req[c].gen \in Nat
    BY DEF IInv, TypeOK, Request
  <2> QED
    BY <1>1, <1>2, <1>3, <2>1 DEF IInv, RequestShape
<1>10. HandleGenerations'
  BY <1>1, <1>2, <1>3 DEF IInv, HandleGenerations
<1>11. NoStaleIncarnation'
  BY <1>1, <1>2, <1>3 DEF IInv, NoStaleIncarnation
<1>12. LeasesStored'
  BY <1>2 DEF IInv, LeasesStored
<1> QED
  BY <1>5, <1>6, <1>7, <1>8, <1>9, <1>10, <1>11, <1>12 DEF IInv

LEMMA StartClearStep ==
  ASSUME IInv, NEW c \in Clients, NEW id \in QueueIds, StartClear(c, id)
  PROVE  IInv'
<1> DEFINE n == queueResources[id].name
           r == [pc |-> "gotQueue", op |-> "clear", name |-> n, target |-> None,
                 now |-> ZeroTime, handle |-> queues[n], gen |-> gen[n], result |-> None]
<1>1. n \in Names /\ queues[n] \in Handles /\ gen[n] \in Nat
  BY DEF StartClear, IInv, TypeOK, Resource
<1>2. queues[n] # None /\ handles[queues[n]] # None /\ handles[queues[n]].gen = gen[n]
      /\ queues[n] <= made /\ \A k \in Names : queues[k] = queues[n] => k = n
  BY <1>1 DEF StartClear, IInv, HandlesMade, HandleGenerations
<1>3. /\ r \in Request /\ r.pc = "gotQueue" /\ r.handle = queues[n]
      /\ r.name = n /\ r.gen = gen[n] /\ r.result = None
  BY <1>1 DEF Request, PCs, Ops, ZeroTime
<1>4. /\ req' = [req EXCEPT ![c] = r]
      /\ UNCHANGED <<clock, queues, queueByName, queueResources, handles, messages,
                     sent, made, created, issued, gen, lease>>
  BY DEF StartClear, storeVars, counters
<1> HIDE DEF r, n
<1>5. req' \in [Clients -> Request] /\ req'[c] = r
      /\ \A d \in Clients : d # c => req'[d] = req[d]
  BY <1>3, <1>4 DEF IInv, TypeOK
<1>6. TypeOK'
  BY <1>4, <1>5 DEF IInv, TypeOK
<1>7. HandlesMade' /\ RequestShape' /\ NoStaleIncarnation'
  BY <1>1, <1>2, <1>3, <1>4, <1>5 DEF IInv, HandlesMade, RequestShape, NoStaleIncarnation
<1>8. IndexesAgree' /\ Allocated' /\ HandleGenerations' /\ LeasesStored'
  BY <1>4 DEF IInv, IndexesAgree, Allocated, HandleGenerations, LeasesStored
<1> QED
  BY <1>6, <1>7, <1>8 DEF IInv

-----------------------------------------------------------------------------
(* The inductive invariant *)

LEMMA InitIInv == Init => IInv
<1> SUFFICES ASSUME Init
             PROVE  IInv
  OBVIOUS
<1>1. Idle(None) \in Request /\ Idle(None).pc = "idle" /\ Idle(None).handle = None
  BY IdleRequest
<1>2. TypeOK
  BY <1>1, BoundAssumption DEF Init, TypeOK, Times
<1>3. RequestShape /\ HandlesMade /\ NoStaleIncarnation
  BY <1>1 DEF Init, RequestShape, HandlesMade, NoStaleIncarnation
<1>4. IndexesAgree /\ Allocated /\ HandleGenerations /\ LeasesStored
  BY DEF Init, IndexesAgree, Allocated, HandleGenerations, LeasesStored
<1> QED
  BY <1>2, <1>3, <1>4 DEF IInv

LEMMA NextIInv == IInv /\ [Next]_vars => IInv'
<1> SUFFICES ASSUME IInv, [Next]_vars
             PROVE  IInv'
  OBVIOUS
<1>1. ASSUME NEW c \in Clients, DataPlane(c)
      PROVE  IInv'
  <2>1. CASE Arrive(c)
    <3>1. 1 .. sent \subseteq MsgIds
      BY BoundAssumption DEF IInv, TypeOK, MsgIds
    <3> QED
      BY <2>1, <3>1, AdmitStep DEF Arrive, Ops
  <2> QED
    BY <1>1, <2>1, EnterStep, GetQueueStep, SendStep, ReceiveStep, ExtendTimeoutStep,
       RemoveStep DEF DataPlane, Delete
<1>2. CASE ControlPlane
  BY <1>2, CreateQueueStep, UpdateQueueStep, RotateAPIKeyStep, DeleteQueueByIDStep,
     StartClearStep, RemoveStep DEF ControlPlane, Clear
<1>3. CASE Tick \/ \E now \in 1 .. clock : Compact(now)
  BY <1>3, TickStep, CompactStep
<1>4. CASE UNCHANGED vars
  BY <1>4 DEF vars, IInv, TypeOK, IndexesAgree, Allocated, HandlesMade, RequestShape,
              HandleGenerations, NoStaleIncarnation, LeasesStored
<1> QED
  BY <1>1, <1>2, <1>3, <1>4 DEF Next

LEMMA Invariance == Spec => []IInv
  BY InitIInv, NextIInv, PTL DEF Spec

-----------------------------------------------------------------------------
(* The theorems *)

\* The maps, queues, messages and requests of MemoryStore always have their
\* types: no lookup, update or deletion order leaves a dangling or empty entry
\* where the code dereferences one.
THEOREM TypeCorrect == Spec => []TypeOK
  BY Invariance, PTL DEF IInv

\* CreateQueue and DeleteQueueByID keep queueByName and queueResources naming
\* the same queues.
THEOREM IndexesAlwaysAgree == Spec => []IndexesAgree
  BY Invariance, PTL DEF IInv

\* When the server's defaults are whole seconds, what CreateQueue, UpdateQueue
\* and getQueue write of a queue's settings is one and the same, so the live
\* queue works with the settings its resource shows.
THEOREM SettingsAlwaysAgree ==
  ASSUME WholeSeconds
  PROVE  Spec => []SettingsAgree
<1>1. Init => SettingsAgree
  BY DEF Init, SettingsAgree
<1>2. IInv /\ SettingsAgree /\ [Next]_vars => SettingsAgree'
  <2> SUFFICES ASSUME IInv, SettingsAgree, [Next]_vars
               PROVE  SettingsAgree'
    OBVIOUS
  <2>1. /\ queues \in [Names -> Handles \cup {None}]
        /\ queueByName \in [Names -> QueueIds \cup {None}]
        /\ queueResources \in [QueueIds -> Resource \cup {None}]
        /\ handles \in [Handles -> Queue \cup {None}]
    BY DEF IInv, TypeOK
  <2>2. ASSUME UNCHANGED <<queues, queueByName, queueResources, handles>>
        PROVE  SettingsAgree'
    BY <2>2 DEF SettingsAgree
  <2>3. ASSUME NEW c \in Clients, GetQueue(c)
        PROVE  SettingsAgree'
    <3> DEFINE n == req[c].name
    <3>1. CASE queues[n] # None
      BY <2>2, <2>3, <3>1 DEF GetQueue
    <3>2. CASE queues[n] = None
      <4>1. /\ made + 1 \in Handles /\ n \in Names
            /\ handles' = [handles EXCEPT ![made + 1] = NewQueue(n)]
            /\ queues' = [queues EXCEPT ![n] = made + 1]
            /\ UNCHANGED <<queueByName, queueResources>>
        BY <2>3, <3>2, BoundAssumption
           DEF GetQueue, IInv, TypeOK, RequestShape, Handles
      <4>2. \A k \in Names : queues[k] # None => queues[k] # made + 1
        BY <2>1, BoundAssumption DEF IInv, TypeOK, HandlesMade, Handles
      <4>3. queueByName[n] # None =>
              /\ NewQueue(n).vt = Ticks(queueResources[queueByName[n]].vtSecs)
              /\ NewQueue(n).me = Ticks(queueResources[queueByName[n]].expSecs)
        BY <4>1 DEF NewQueue, IInv, IndexesAgree
      <4> HIDE DEF n
      <4> QED
        BY <2>1, <4>1, <4>2, <4>3 DEF SettingsAgree
    <3> QED
      BY <3>1, <3>2
  <2>4. ASSUME NEW n \in Names, CreateQueue(n)
        PROVE  SettingsAgree'
    <3> DEFINE id == created + 1
               res == [name |-> n, vtSecs |-> Seconds(DefaultVT),
                       expSecs |-> Seconds(DefaultME), key |-> NoKey]
               h == queues[n]
    <3>1. /\ id \in QueueIds
          /\ \A k \in Names : queueByName[k] # id
      <4>1. created \in Nat /\ created < MaxQueues /\ id \in QueueIds
        BY <2>4, BoundAssumption DEF CreateQueue, IInv, TypeOK, QueueIds
      <4>2. \A k \in Names : queueByName[k] # None => queueByName[k] <= created
        BY DEF IInv, Allocated
      <4> QED
        BY <4>1, <4>2, NoneAssumption
    <3>6. h \in Handles \cup {None} /\ (h # None => handles[h] # None)
      BY <2>1 DEF IInv, HandlesMade
    <3>2. /\ queueResources' = [queueResources EXCEPT ![id] = res]
          /\ queueByName' = [queueByName EXCEPT ![n] = id]
          /\ UNCHANGED <<queues, req, made, gen>>
          /\ handles' = IF h # None
                        THEN [handles EXCEPT ![h].vt = DefaultVT, ![h].me = DefaultME]
                        ELSE handles
      BY <2>4 DEF CreateQueue
    <3>3. res.vtSecs = Seconds(DefaultVT) /\ res.expSecs = Seconds(DefaultME)
      OBVIOUS
    <3>4. h # None =>
            /\ handles'[h].vt = DefaultVT /\ handles'[h].me = DefaultME
            /\ \A g \in Handles : g # h => handles'[g] = handles[g]
      <4> HIDE DEF h, res
      <4>1. ASSUME h # None
            PROVE  /\ h \in Handles /\ handles[h] # None
                   /\ handles' = [handles EXCEPT ![h].vt = DefaultVT, ![h].me = DefaultME]
        BY <3>2, <3>6, <4>1
      <4>2. handles \in [Handles -> Queue \cup {None}]
        BY <2>1 DEF IInv, TypeOK
      <4> QED
        BY <4>1, <4>2 DEF Queue
    <3> HIDE DEF res
    <3>5. ASSUME NEW k \in Names, queues'[k] # None, queueByName'[k] # None
          PROVE  LET q == handles'[queues'[k]]
                     r == queueResources'[queueByName'[k]]
                 IN  q.vt = Ticks(r.vtSecs) /\ q.me = Ticks(r.expSecs)
      <4>1. CASE k = n
        BY <2>1, <3>1, <3>2, <3>3, <3>4, <3>5, <4>1 DEF WholeSeconds
      <4>2. CASE k # n
        <5>1. h # None => queues[k] # h
          BY <4>2 DEF IInv, HandleGenerations
        <5>2. handles'[queues[k]] = handles[queues[k]]
          BY <2>1, <3>2, <3>4, <3>5, <5>1
        <5> QED
          BY <2>1, <3>1, <3>2, <3>5, <4>2, <5>2 DEF SettingsAgree
      <4> QED
        BY <4>1, <4>2
    <3> QED
      BY <3>5 DEF SettingsAgree
  <2>5. ASSUME NEW id \in QueueIds, NEW vt \in VTSeconds, NEW exp \in ExpSeconds,
               UpdateQueue(id, vt, exp)
        PROVE  SettingsAgree'
    <3> DEFINE n == queueResources[id].name
               res == [[queueResources[id] EXCEPT !.vtSecs = vt] EXCEPT !.expSecs = exp]
               h == queues[n]
    <3>1. n \in Names /\ queueByName[n] = id /\ vt \in Nat /\ exp \in Nat
          /\ queueResources[id] \in Resource
      BY <2>1, <2>5, ConfigAssumption DEF UpdateQueue, IInv, IndexesAgree, Resource
    <3>2. /\ queueResources' = [queueResources EXCEPT ![id] = res]
          /\ UNCHANGED <<queues, queueByName, req, made, gen>>
          /\ handles' = IF h # None
                        THEN [handles EXCEPT ![h].vt = Ticks(vt), ![h].me = Ticks(exp)]
                        ELSE handles
      BY <2>5, <3>1 DEF UpdateQueue, Resource, counters
    <3>3. res.vtSecs = vt /\ res.expSecs = exp
      BY <3>1 DEF Resource
    <3>4. h # None =>
            /\ handles'[h].vt = Ticks(vt) /\ handles'[h].me = Ticks(exp)
            /\ \A g \in Handles : g # h => handles'[g] = handles[g]
      <4>1. Ticks(vt) \in Nat /\ Ticks(exp) \in Nat
        BY <3>1, ConfigAssumption DEF Ticks
      <4>2. h \in Handles \cup {None} /\ (h # None => handles[h] # None)
        BY <2>1, <3>1 DEF IInv, HandlesMade
      <4> HIDE DEF h, res
      <4>3. ASSUME h # None
            PROVE  /\ h \in Handles /\ handles[h] # None
                   /\ handles' = [handles EXCEPT ![h].vt = Ticks(vt), ![h].me = Ticks(exp)]
        BY <3>2, <4>2, <4>3
      <4>4. handles \in [Handles -> Queue \cup {None}]
        BY <2>1 DEF IInv, TypeOK
      <4> QED
        BY <4>3, <4>4 DEF Queue
    <3> HIDE DEF res, n
    <3>5. ASSUME NEW k \in Names, queues'[k] # None, queueByName'[k] # None
          PROVE  LET q == handles'[queues'[k]]
                     r == queueResources'[queueByName'[k]]
                 IN  q.vt = Ticks(r.vtSecs) /\ q.me = Ticks(r.expSecs)
      <4>1. CASE k = n
        BY <2>1, <3>1, <3>2, <3>3, <3>4, <3>5, <4>1
      <4>2. CASE k # n
        <5>1. (h # None => queues[k] # h) /\ queueByName[k] # id
          BY <3>1, <3>2, <3>5, <4>2 DEF IInv, HandleGenerations, IndexesAgree, n
        <5>2. handles'[queues[k]] = handles[queues[k]]
          BY <2>1, <3>2, <3>4, <3>5, <5>1
        <5> QED
          BY <2>1, <3>1, <3>2, <3>5, <4>2, <5>1, <5>2 DEF SettingsAgree
      <4> QED
        BY <4>1, <4>2
    <3> QED
      BY <3>5 DEF SettingsAgree
  <2>6. ASSUME NEW id \in QueueIds, RotateAPIKey(id)
        PROVE  SettingsAgree'
    <3>1. /\ queueResources' = [queueResources EXCEPT ![id].key = issued + 1]
          /\ UNCHANGED <<queues, queueByName, handles>>
      BY <2>6 DEF RotateAPIKey
    <3>2. \A i \in QueueIds : queueResources[i] # None =>
            /\ queueResources'[i].vtSecs = queueResources[i].vtSecs
            /\ queueResources'[i].expSecs = queueResources[i].expSecs
      BY <2>1, <3>1 DEF Resource
    <3> QED
      BY <2>1, <3>1, <3>2 DEF SettingsAgree, IInv, IndexesAgree
  <2>7. ASSUME NEW id \in QueueIds, DeleteQueueByID(id)
        PROVE  SettingsAgree'
    <3> DEFINE n == queueResources[id].name
    <3>1. n \in Names /\ queueByName[n] = id /\ id # None
      BY <2>1, <2>7, NoneAssumption
         DEF DeleteQueueByID, IInv, IndexesAgree, Resource, QueueIds
    <3>3. \A k \in Names : queueByName[k] = id => k = n
      BY <3>1 DEF IInv, IndexesAgree
    <3>2. /\ queueByName' = [queueByName EXCEPT ![n] = None]
          /\ queues' = [queues EXCEPT ![n] = None]
          /\ queueResources' = [queueResources EXCEPT ![id] = None]
          /\ handles' = handles
      BY <2>7 DEF DeleteQueueByID
    <3> HIDE DEF n
    <3> QED
      BY <2>1, <3>1, <3>2, <3>3 DEF SettingsAgree
  <2>8. CASE ControlPlane
    BY <2>2, <2>4, <2>5, <2>6, <2>7, <2>8 DEF ControlPlane, StartClear, Clear, storeVars
  <2>9. ASSUME NEW c \in Clients, DataPlane(c)
        PROVE  SettingsAgree'
    BY <2>2, <2>3, <2>9 DEF DataPlane, Arrive, Admit, Enter, Send, Receive, ExtendTimeout,
       Delete, storeVars
  <2> QED
    BY <2>2, <2>8, <2>9 DEF Next, Tick, Compact, vars, storeVars
<1> QED
  BY <1>1, <1>2, Invariance, PTL DEF Spec

\* getQueue, CreateQueue and DeleteQueueByID together see to it that a request
\* never reaches a queue deleted before it arrived, nor one of another name.
THEOREM NoStaleIncarnationEver == Spec => []NoStaleIncarnation
  BY Invariance, PTL DEF IInv

\* receive and extendTimeout: a message is not given to a second consumer
\* before the time the first was promised, unless the timeout was extended.
THEOREM LeasesAreHonoured == Spec => LeaseHonoured
<1>1. ASSUME IInv, [Next]_vars, NEW c \in Clients, NEW m \in MsgIds, Delivers(c, m)
      PROVE  req[c].now >= lease[m]
  <2>1. /\ req \in [Clients -> Request] /\ req[c].pc = "gotQueue" /\ req[c].op = "receive"
        /\ req[c].result = None /\ req'[c] # req[c]
    BY <1>1, NoneAssumption DEF IInv, TypeOK, RequestShape, Delivers, Holds, MsgIds
  <2>2. req # req'
    BY <2>1
  <2>3. Receive(c)
    <3>1. ASSUME NEW d \in Clients, DataPlane(d)
          PROVE  d = c /\ Receive(c)
      <4>1. CASE Arrive(d)
        BY <2>1, <4>1 DEF Arrive, Admit
      <4>2. CASE Enter(d) \/ GetQueue(d)
        BY <2>1, <4>2 DEF Enter, GetQueue
      <4>3. CASE Send(d) \/ Receive(d) \/ ExtendTimeout(d) \/ Delete(d)
        BY <2>1, <4>3 DEF Send, Receive, ExtendTimeout, Delete, Holds, Respond
      <4> QED
        BY <3>1, <4>1, <4>2, <4>3 DEF DataPlane
    <3>2. CASE ControlPlane
      BY <2>1, <2>2, <3>2 DEF ControlPlane, CreateQueue, UpdateQueue, RotateAPIKey,
         DeleteQueueByID, StartClear, Clear, Holds, Respond
    <3> QED
      BY <1>1, <2>2, <3>1, <3>2 DEF Next, Tick, Compact, vars
  <2>4. PICK k \in Receivable(req[c].handle, req[c].now) : Respond(c, k)
    <3>1. CASE Respond(c, None)
      BY <1>1, <2>1, <3>1, NoneAssumption DEF Respond, Idle, Delivers, MsgIds
    <3> QED
      BY <2>3, <3>1 DEF Receive
  <2>5. k = m
    BY <1>1, <2>1, <2>4 DEF Respond, Idle, Delivers
  <2>6. messages[m] # None
        /\ (messages[m].visibleAt = 0 \/ ~ (req[c].now < messages[m].visibleAt))
    BY <2>4, <2>5 DEF Receivable, In, ZeroTime
  <2>7. messages[m].visibleAt \in Nat /\ req[c].now \in Nat /\ lease[m] \in Nat
    BY <1>1, <2>6 DEF IInv, TypeOK, Message, Request, Times, ZeroTime
  <2> QED
    BY <1>1, <2>6, <2>7 DEF IInv, LeasesStored
<1>2. IInv /\ [Next]_vars =>
        [\A c \in Clients, m \in MsgIds : Delivers(c, m) => req[c].now >= lease[m]]_vars
  BY <1>1
<1> QED
  BY <1>2, Invariance, PTL DEF Spec, LeaseHonoured

\* A message in a live queue leaves it only for a reason its clients know of:
\* compact, delete, clear and DeleteQueueByID lose nothing else, and getQueue,
\* CreateQueue and UpdateQueue never replace a queue that holds messages.
THEOREM NothingLostSilently == Spec => NoSilentLoss
<1>1. ASSUME IInv, [Next]_vars, NEW m \in MsgIds, Live(m), ~ Live(m)'
      PROVE  MayDisappear(m)
  <2>1. PICK n \in Names : queues[n] = messages[m].handle
    BY <1>1 DEF Live
  <2>2. /\ messages[m] # None /\ messages[m] \in Message
        /\ messages[m].expiresAt \in Nat /\ clock \in Nat
        /\ queues[n] \in Handles /\ queues[n] # None
    BY <1>1, <2>1, NoneAssumption DEF Live, IInv, TypeOK, Message, Times, Handles
  <2>3. messages'[m] = None \/ messages'[m].handle # messages[m].handle
        \/ queues'[n] # queues[n]
    BY <1>1, <2>1 DEF Live
  <2>4. ASSUME NEW c \in Clients, DataPlane(c)
        PROVE  MayDisappear(m)
    <3>1. CASE Arrive(c) \/ Enter(c) \/ GetQueue(c)
      BY <1>1, <2>2, <2>3, <3>1
         DEF IInv, TypeOK, Arrive, Admit, Enter, GetQueue, storeVars
    <3>2. CASE Send(c)
      <4>1. m # sent + 1
        BY <1>1, <2>2 DEF IInv, TypeOK, Allocated
      <4> QED
        BY <1>1, <2>2, <2>3, <3>2, <4>1 DEF IInv, TypeOK, Send, storeVars
    <3>3. ASSUME NEW k \in MsgIds, NEW t \in Nat,
                 messages' = [messages EXCEPT ![k].visibleAt = t], UNCHANGED queues
          PROVE  FALSE
      <4>1. messages'[m].handle = messages[m].handle /\ messages'[m] \in Message
        BY <1>1, <2>2, <3>3 DEF IInv, TypeOK, Message
      <4> QED
        BY <2>3, <3>3, <4>1, NoneAssumption
    <3>4. CASE Delete(c)
      BY <2>2, <2>3, <3>4 DEF Delete, Remove, In, MayDisappear, storeVars
    <3>5. CASE Receive(c) \/ ExtendTimeout(c)
      <4>1. req[c].now + handles[req[c].handle].vt \in Nat
        BY <1>1, <3>5, HideUntil DEF Receive, ExtendTimeout, Holds
      <4> QED
        BY <2>2, <2>3, <3>3, <3>5, <4>1
           DEF Receive, Receivable, ExtendTimeout, In, storeVars
    <3> QED
      BY <2>4, <3>1, <3>2, <3>4, <3>5 DEF DataPlane
  <2>5. ASSUME NEW id \in QueueIds, DeleteQueueByID(id)
        PROVE  MayDisappear(m)
    <3>1. queueResources[id].name \in Names
          /\ queueByName[queueResources[id].name] = id /\ id # None
      BY <1>1, <2>5, NoneAssumption
         DEF IInv, TypeOK, IndexesAgree, Resource, DeleteQueueByID, QueueIds
    <3>2. queueResources[id].name = n
      BY <1>1, <2>2, <2>3, <2>5, <3>1 DEF IInv, TypeOK, DeleteQueueByID
    <3>3. queueByName'[n] = None
      BY <1>1, <2>5, <3>1, <3>2 DEF IInv, TypeOK, DeleteQueueByID
    <3> QED
      BY <2>1, <3>1, <3>2, <3>3 DEF MayDisappear
  <2>6. ASSUME NEW c \in Clients, Clear(c)
        PROVE  MayDisappear(m)
    BY <2>2, <2>3, <2>6 DEF Clear, Remove, In, MayDisappear, storeVars
  <2>7. CASE ControlPlane
    <3>1. ASSUME UNCHANGED <<queues, messages>> PROVE FALSE
      BY <2>2, <2>3, <3>1
    <3>2. ASSUME NEW k \in Names, CreateQueue(k) PROVE FALSE
      BY <3>1, <3>2 DEF CreateQueue
    <3>3. ASSUME NEW id \in QueueIds,
                 \/ \E vt \in VTSeconds, exp \in ExpSeconds : UpdateQueue(id, vt, exp)
                 \/ RotateAPIKey(id)
                 \/ \E c \in Clients : StartClear(c, id)
          PROVE  FALSE
      BY <3>1, <3>3 DEF UpdateQueue, RotateAPIKey, StartClear, storeVars
    <3> QED
      BY <2>5, <2>6, <2>7, <3>2, <3>3 DEF ControlPlane
  <2>8. ASSUME NEW now \in 1 .. clock, Compact(now)
        PROVE  MayDisappear(m)
    BY <2>2, <2>3, <2>8 DEF Compact, Remove, Expired, In, MayDisappear, storeVars
  <2> QED
    BY <1>1, <2>2, <2>3, <2>4, <2>7, <2>8 DEF Next, Tick, storeVars, vars
<1>2. IInv /\ [Next]_vars =>
        [\A m \in MsgIds : Live(m) /\ ~ Live(m)' => MayDisappear(m)]_vars
  BY <1>1
<1> QED
  BY <1>2, Invariance, PTL DEF Spec, NoSilentLoss
=============================================================================
