------------------------------ MODULE SimpleMQ ------------------------------
(***************************************************************************)
(* The SimpleMQ mock with its in-memory store: the data plane (send,       *)
(* receive, extend, delete), the control plane (create, update, rotate     *)
(* key, clear, delete a queue) and the compaction goroutine.               *)
(*                                                                         *)
(* MemoryStore.mu guards the three maps; every memoryQueue has a lock of   *)
(* its own.  A data-plane request takes the first to look its queue up,    *)
(* releases it, and only then takes the second to work on the queue it     *)
(* found, so a request is four steps here: it is authenticated, it reads   *)
(* the clock, it looks its queue up, it operates on that queue.  A critical*)
(* section is one action.                                                  *)
(*                                                                         *)
(* A memoryQueue is a handle; the slice q.messages is the set of messages  *)
(* that carry the handle, in the order of their ids (an id is taken inside *)
(* the critical section that appends, so the two orders are the same).     *)
(* Durations are in ticks of the clock, TicksPerSecond to a second.        *)
(***************************************************************************)
EXTENDS Integers, FiniteSets

CONSTANTS
    Names,           \* queue names
    Clients,         \* requests that can be in flight at once
    None,            \* absent from a map; no message, no queue
    Strict,          \* Config.Strict
    TicksPerSecond,  \* the resolution of the clock
    DefaultVT,       \* Config.VisibilityTimeout, in ticks
    DefaultME,       \* Config.MessageExpire, in ticks
    VTSeconds,       \* visibility timeouts an update may set, in seconds
    ExpSeconds,      \* expirations an update may set, in seconds
    MaxTime,         \* bound on the clock
    MaxMsgs,         \* bound on the messages ever sent
    MaxHandles,      \* bound on the memoryQueues ever made
    MaxQueues,       \* bound on the control-plane queues ever created
    MaxKeys          \* bound on the API keys ever issued

ASSUME ConfigAssumption ==
    /\ None \notin Names
    /\ Strict \in BOOLEAN
    /\ TicksPerSecond \in Nat \ {0}
    /\ DefaultVT \in Nat \ {0}
    /\ DefaultME \in Nat \ {0}
    /\ VTSeconds \subseteq Nat \ {0}
    /\ ExpSeconds \subseteq Nat \ {0}

ASSUME BoundAssumption ==
    /\ MaxTime \in Nat \ {0}
    /\ MaxMsgs \in Nat
    /\ MaxHandles \in Nat
    /\ MaxQueues \in Nat
    /\ MaxKeys \in Nat

Times    == 1 .. MaxTime
MsgIds   == 1 .. MaxMsgs
Handles  == 1 .. MaxHandles
QueueIds == 1 .. MaxQueues
Keys     == 1 .. MaxKeys
NoKey    == 0            \* storedQueue.APIKey == ""
ZeroTime == 0            \* time.Time{}

VARIABLES
    clock,           \* time.Now()
    queues,          \* MemoryStore.queues: name -> handle
    queueByName,     \* MemoryStore.queueByName: name -> queue id
    queueResources,  \* MemoryStore.queueResources: queue id -> resource
    handles,         \* the memoryQueues: settings, and the generation below
    messages,        \* the stored messages, with the handle they are in
    sent,            \* messages ever sent
    made,            \* memoryQueues ever made
    created,         \* control-plane queues ever created
    issued,          \* API keys ever issued
    req,             \* one request per client
    gen,             \* per name, how often the queue was deleted (history)
    lease            \* per message, until when the last receive, if nothing
                     \* has extended it since, promised to hide it (history)

storeVars == <<queues, queueByName, queueResources>>
counters  == <<sent, made, created, issued>>
vars == <<clock, queues, queueByName, queueResources, handles, messages,
          sent, made, created, issued, req, gen, lease>>

-----------------------------------------------------------------------------
(* Types *)

Resource == [name : Names, vtSecs : Nat, expSecs : Nat, key : Keys \cup {NoKey}]
Queue    == [vt : Nat, me : Nat, gen : Nat]
Message  == [handle : Handles, expiresAt : Nat, visibleAt : Nat]

Ops == {"send", "receive", "extend", "delete", "clear"}
PCs == {"idle", "admitted", "entered", "gotQueue"}
Request ==
    [pc : PCs, op : Ops, name : Names \cup {None}, target : MsgIds \cup {None},
     now : Times \cup {ZeroTime}, handle : Handles \cup {None},
     gen : Nat, result : MsgIds \cup {None}]

\* None stands beside each of these in some map.
ASSUME NoneAssumption ==
    /\ None \notin Nat
    /\ None \notin Resource
    /\ None \notin Queue
    /\ None \notin Message

TypeOK ==
    /\ clock \in Times
    /\ queues \in [Names -> Handles \cup {None}]
    /\ queueByName \in [Names -> QueueIds \cup {None}]
    /\ queueResources \in [QueueIds -> Resource \cup {None}]
    /\ handles \in [Handles -> Queue \cup {None}]
    /\ messages \in [MsgIds -> Message \cup {None}]
    /\ sent \in 0 .. MaxMsgs
    /\ made \in 0 .. MaxHandles
    /\ created \in 0 .. MaxQueues
    /\ issued \in 0 .. MaxKeys
    /\ req \in [Clients -> Request]
    /\ gen \in [Names -> Nat]
    /\ lease \in [MsgIds -> Nat]

-----------------------------------------------------------------------------
(* Durations *)

Ticks(seconds) == seconds * TicksPerSecond   \* time.Duration(s) * time.Second
Seconds(d)     == d \div TicksPerSecond      \* int(d.Seconds())

-----------------------------------------------------------------------------
(* A memoryQueue *)

In(h) == {m \in MsgIds : messages[m] # None /\ messages[m].handle = h}

\* Mutation: a received message is not hidden.
ReceivableWhileHidden(h, now) == {m \in In(h) : ~ (now > messages[m].expiresAt)}

\* Messages receive would not skip at time now.
Receivable(h, now) ==
    {m \in In(h) : /\ ~ (now > messages[m].expiresAt)
                   /\ ~ (/\ messages[m].visibleAt # ZeroTime
                         /\ now < messages[m].visibleAt)}

\* What compact drops from the slice at time now.
Expired(h, now) == {m \in In(h) : ~ (now < messages[m].expiresAt)}

Remove(S) ==
    /\ messages' = [m \in MsgIds |-> IF m \in S THEN None ELSE messages[m]]
    /\ lease' = [m \in MsgIds |-> IF m \in S THEN 0 ELSE lease[m]]

-----------------------------------------------------------------------------
(* The data plane *)

Idle(m) == [pc |-> "idle", op |-> "send", name |-> None, target |-> None,
            now |-> ZeroTime, handle |-> None, gen |-> 0, result |-> m]

\* authMiddleware.  A rejected request changes nothing and is no step.  In
\* strict mode the queue must exist and have an issued key, the one presented.
Admits(n) ==
    Strict => /\ queueByName[n] # None
              /\ queueResources[queueByName[n]].key # NoKey

Admit(c, op, n, target) ==
    /\ req[c].pc = "idle"
    /\ Admits(n)
    /\ req' = [req EXCEPT ![c] =
                 [pc |-> IF op = "delete" THEN "entered" ELSE "admitted", op |-> op, name |-> n, target |-> target,
                  now |-> ZeroTime, handle |-> None, gen |-> gen[n],
                  result |-> None]]
    /\ UNCHANGED <<clock, storeVars, handles, messages, counters, gen, lease>>

\* Mutation: the clock read is one tick ahead.
EnterAhead(c) ==
    /\ req[c].pc = "admitted"
    /\ req' = [req EXCEPT ![c].pc = "entered", ![c].now = clock + 1]
    /\ UNCHANGED <<clock, storeVars, handles, messages, counters, gen, lease>>

\* The handlers (but not handleDelete) read the clock before they call the store.
Enter(c) ==
    /\ req[c].pc = "admitted"
    /\ req' = [req EXCEPT ![c].pc = "entered", ![c].now = clock]
    /\ UNCHANGED <<clock, storeVars, handles, messages, counters, gen, lease>>

\* Mutation: a queue made by a lookup ignores its control-plane settings.
NewQueueDefaults(n) == [vt |-> DefaultVT, me |-> DefaultME, gen |-> gen[n]]

\* What getQueue gives a queue it has to make.
NewQueue(n) ==
    LET id == queueByName[n]
    IN  IF id # None /\ queueResources[id] # None
        THEN [vt  |-> Ticks(queueResources[id].vtSecs),
              me  |-> Ticks(queueResources[id].expSecs), gen |-> gen[n]]
        ELSE [vt |-> DefaultVT, me |-> DefaultME, gen |-> gen[n]]

GetQueue(c) ==
    LET n == req[c].name
    IN  /\ req[c].pc = "entered"
        /\ \/ /\ queues[n] # None
              /\ req' = [req EXCEPT ![c].pc = "gotQueue", ![c].handle = queues[n]]
              /\ UNCHANGED <<queues, handles, made>>
           \/ /\ queues[n] = None
              /\ made < MaxHandles
              /\ made' = made + 1
              /\ handles' = [handles EXCEPT ![made + 1] = NewQueue(n)]
              /\ queues' = [queues EXCEPT ![n] = made + 1]
              /\ req' = [req EXCEPT ![c].pc = "gotQueue", ![c].handle = made + 1]
        /\ UNCHANGED <<clock, queueByName, queueResources, messages, sent,
                       created, issued, gen, lease>>

\* The request works on the queue it holds, under that queue's lock.
Holds(c, op) == req[c].pc = "gotQueue" /\ req[c].op = op

Respond(c, m) == req' = [req EXCEPT ![c] = Idle(m)]

Send(c) ==
    LET h == req[c].handle
    IN  /\ Holds(c, "send")
        /\ sent < MaxMsgs
        /\ sent' = sent + 1
        /\ messages' = [messages EXCEPT ![sent + 1] =
                          [handle |-> h, expiresAt |-> req[c].now + handles[h].me,
                           visibleAt |-> ZeroTime]]
        /\ Respond(c, sent + 1)
        /\ UNCHANGED <<clock, storeVars, handles, made, created, issued,
                       gen, lease>>

Receive(c) ==
    LET h  == req[c].handle
        ms == Receivable(h, req[c].now)
    IN  /\ Holds(c, "receive")
        /\ \/ \E m \in ms :
                /\ \A k \in ms : m <= k
                /\ messages' = [messages EXCEPT ![m].visibleAt =
                                  req[c].now + handles[h].vt]
                /\ lease' = [lease EXCEPT ![m] = req[c].now + handles[h].vt]
                /\ Respond(c, m)
           \/ /\ ms = {}
              /\ Respond(c, None)
              /\ UNCHANGED <<messages, lease>>
        /\ UNCHANGED <<clock, storeVars, handles, counters, gen>>

ExtendTimeout(c) ==
    LET h == req[c].handle
        m == req[c].target
    IN  /\ Holds(c, "extend")
        /\ \/ /\ m \in In(h)
              /\ messages' = [messages EXCEPT ![m].visibleAt =
                                req[c].now + handles[h].vt]
              /\ lease' = [lease EXCEPT ![m] = 0]
           \/ /\ m \notin In(h)
              /\ UNCHANGED <<messages, lease>>
        /\ Respond(c, None)
        /\ UNCHANGED <<clock, storeVars, handles, counters, gen>>

Delete(c) ==
    /\ Holds(c, "delete")
    /\ Remove({req[c].target} \cap In(req[c].handle))
    /\ Respond(c, None)
    /\ UNCHANGED <<clock, storeVars, handles, counters, gen>>

-----------------------------------------------------------------------------
(* The control plane *)

\* Mutation: creating a queue starts it empty.
CreateQueueAfresh(n) ==
    /\ queueByName[n] = None
    /\ created < MaxQueues
    /\ created' = created + 1
    /\ queueResources' = [queueResources EXCEPT ![created + 1] =
                            [name |-> n, vtSecs |-> Seconds(DefaultVT),
                             expSecs |-> Seconds(DefaultME), key |-> NoKey]]
    /\ queueByName' = [queueByName EXCEPT ![n] = created + 1]
    /\ queues' = [queues EXCEPT ![n] = None]
    /\ UNCHANGED <<clock, handles, messages, sent, made, issued, req, gen, lease>>

\* handleCreateQueue always leaves both settings to the server's defaults.
CreateQueue(n) ==
    /\ queueByName[n] = None
    /\ created < MaxQueues
    /\ created' = created + 1
    /\ queueResources' = [queueResources EXCEPT ![created + 1] =
                            [name |-> n, vtSecs |-> Seconds(DefaultVT),
                             expSecs |-> Seconds(DefaultME), key |-> NoKey]]
    /\ queueByName' = [queueByName EXCEPT ![n] = created + 1]
    /\ handles' = IF queues[n] # None
                  THEN [handles EXCEPT ![queues[n]].vt = DefaultVT,
                                       ![queues[n]].me = DefaultME]
                  ELSE handles
    /\ UNCHANGED <<clock, queues, messages, sent, made, issued, req, gen, lease>>

UpdateQueue(id, vtSecs, expSecs) ==
    /\ queueResources[id] # None
    /\ queueResources' = [queueResources EXCEPT ![id].vtSecs = vtSecs,
                                                ![id].expSecs = expSecs]
    /\ LET h == queues[queueResources[id].name]
       IN  handles' = IF h # None
                      THEN [handles EXCEPT ![h].vt = Ticks(vtSecs),
                                           ![h].me = Ticks(expSecs)]
                      ELSE handles
    /\ UNCHANGED <<clock, queues, queueByName, messages, counters, req, gen, lease>>

RotateAPIKey(id) ==
    /\ queueResources[id] # None
    /\ issued < MaxKeys
    /\ issued' = issued + 1
    /\ queueResources' = [queueResources EXCEPT ![id].key = issued + 1]
    /\ UNCHANGED <<clock, queues, queueByName, handles, messages, sent, made,
                   created, req, gen, lease>>

\* Mutations: deleting a queue leaves its name, or its message queue, behind.
DeleteQueueKeepName(id) ==
    /\ queueResources[id] # None
    /\ LET n == queueResources[id].name
       IN  queues' = [queues EXCEPT ![n] = None] /\ gen' = [gen EXCEPT ![n] = @ + 1]
    /\ queueResources' = [queueResources EXCEPT ![id] = None]
    /\ UNCHANGED <<clock, queueByName, handles, messages, counters, req, lease>>

DeleteQueueKeepMessages(id) ==
    /\ queueResources[id] # None
    /\ LET n == queueResources[id].name
       IN  /\ queueByName' = [queueByName EXCEPT ![n] = None]
           /\ gen' = [gen EXCEPT ![n] = @ + 1]
    /\ queueResources' = [queueResources EXCEPT ![id] = None]
    /\ UNCHANGED <<clock, queues, handles, messages, counters, req, lease>>

\* handleDeleteQueue looks the queue up twice; the second look decides.
DeleteQueueByID(id) ==
    /\ queueResources[id] # None
    /\ LET n == queueResources[id].name
       IN  /\ queueByName' = [queueByName EXCEPT ![n] = None]
           /\ queues' = [queues EXCEPT ![n] = None]
           /\ gen' = [gen EXCEPT ![n] = @ + 1]
    /\ queueResources' = [queueResources EXCEPT ![id] = None]
    /\ UNCHANGED <<clock, handles, messages, counters, req, lease>>

\* ClearMessages takes the queue under the store's lock and, if there is one,
\* empties it after releasing that lock.
StartClear(c, id) ==
    /\ req[c].pc = "idle"
    /\ queueResources[id] # None
    /\ LET n == queueResources[id].name
       IN  /\ queues[n] # None
           /\ req' = [req EXCEPT ![c] =
                        [pc |-> "gotQueue", op |-> "clear", name |-> n,
                         target |-> None, now |-> ZeroTime, handle |-> queues[n],
                         gen |-> gen[n], result |-> None]]
    /\ UNCHANGED <<clock, storeVars, handles, messages, counters, gen, lease>>

Clear(c) ==
    /\ Holds(c, "clear")
    /\ Remove(In(req[c].handle))
    /\ Respond(c, None)
    /\ UNCHANGED <<clock, storeVars, handles, counters, gen>>

-----------------------------------------------------------------------------
(* Time and the compaction goroutine *)

Tick ==
    /\ clock < MaxTime
    /\ clock' = clock + 1
    /\ UNCHANGED <<storeVars, handles, messages, counters, req, gen, lease>>

\* Mutation: only queues the control plane knows are compacted.
CompactCreated(now) ==
    /\ Remove(UNION {Expired(queues[n], now) :
                 n \in {q \in Names : queues[q] # None /\ queueByName[q] # None}})
    /\ UNCHANGED <<clock, storeVars, handles, counters, req, gen>>

\* One turn of compactLoop: the queues in the map, under both locks.  The tick
\* it acts on may have waited in the ticker's channel, for the lock or its turn.
Compact(now) ==
    /\ Remove(UNION {Expired(queues[n], now) : n \in {q \in Names : queues[q] # None}})
    /\ UNCHANGED <<clock, storeVars, handles, counters, req, gen>>

-----------------------------------------------------------------------------
Init ==
    /\ clock = 1
    /\ queues = [n \in Names |-> None]
    /\ queueByName = [n \in Names |-> None]
    /\ queueResources = [i \in QueueIds |-> None]
    /\ handles = [h \in Handles |-> None]
    /\ messages = [m \in MsgIds |-> None]
    /\ sent = 0 /\ made = 0 /\ created = 0 /\ issued = 0
    /\ req = [c \in Clients |-> Idle(None)]
    /\ gen = [n \in Names |-> 0]
    /\ lease = [m \in MsgIds |-> 0]

\* A data-plane request; an extend or a delete names a message sent before.
Arrive(c) ==
    \E n \in Names :
        \/ \E op \in {"send", "receive"} : Admit(c, op, n, None)
        \/ \E op \in {"extend", "delete"}, m \in 1 .. sent : Admit(c, op, n, m)

DataPlane(c) ==
    \/ Arrive(c) \/ Enter(c) \/ GetQueue(c)
    \/ Send(c) \/ Receive(c) \/ ExtendTimeout(c) \/ Delete(c)

ControlPlane ==
    \/ \E n \in Names : CreateQueue(n)
    \/ \E id \in QueueIds :
         \/ \E vt \in VTSeconds, exp \in ExpSeconds : UpdateQueue(id, vt, exp)
         \/ RotateAPIKey(id)
         \/ DeleteQueueByID(id)
         \/ \E c \in Clients : StartClear(c, id)
    \/ \E c \in Clients : Clear(c)

Next ==
    \/ \E c \in Clients : DataPlane(c)
    \/ ControlPlane
    \/ Tick
    \/ \E now \in 1 .. clock : Compact(now)

Spec == Init /\ [][Next]_vars

\* compactLoop is a goroutine over a time.Ticker, so until the store is closed
\* it keeps acting on ticks of the current time.
FairSpec == Spec /\ WF_vars(Compact(clock))

-----------------------------------------------------------------------------
(* Safety *)

\* The two control-plane maps name the same queues: queueByName[n] is an id
\* that holds a resource called n, and every resource is found by its name.
IndexesAgree ==
    /\ \A n \in Names : queueByName[n] # None =>
         /\ queueResources[queueByName[n]] # None
         /\ queueResources[queueByName[n]].name = n
    /\ \A id \in QueueIds : queueResources[id] # None =>
         queueByName[queueResources[id].name] = id

\* "A queue created via the control plane uses the visibility timeout and
\* expiration set on it": whichever of the queue and its resource was made
\* first, and however requests and updates interleave, the live queue works
\* with the settings its resource shows.
SettingsAgree ==
    \A n \in Names :
        queues[n] # None /\ queueByName[n] # None =>
            LET q   == handles[queues[n]]
                res == queueResources[queueByName[n]]
            IN  q.vt = Ticks(res.vtSecs) /\ q.me = Ticks(res.expSecs)

\* A request works on the queue of its own name, never on one that had been
\* deleted before the request arrived: what DeleteQueueByID removed is out of
\* reach of every later request, a new queue of that name included.
NoStaleIncarnation ==
    \A c \in Clients : req[c].handle # None =>
        /\ handles[req[c].handle].gen >= req[c].gen
        /\ \A n \in Names : queues[n] = req[c].handle => n = req[c].name

\* The server's defaults survive the conversion to seconds and back.
WholeSeconds ==
    /\ Ticks(Seconds(DefaultVT)) = DefaultVT
    /\ Ticks(Seconds(DefaultME)) = DefaultME

Live(m) == messages[m] # None /\ \E n \in Names : queues[n] = messages[m].handle

\* Why a step may take message m out of reach: a consumer deletes that message
\* by its id and queue, a clear of its queue, its expiry, the deletion of its queue.
MayDisappear(m) ==
    \/ \E c \in Clients : /\ Holds(c, "delete") /\ req[c].target = m
                          /\ req[c].handle = messages[m].handle
    \/ \E c \in Clients : Holds(c, "clear") /\ req[c].handle = messages[m].handle
    \/ messages[m].expiresAt <= clock
    \/ \E n \in Names : /\ queues[n] = messages[m].handle
                        /\ queueByName[n] # None /\ queueByName'[n] = None

\* No accepted message is lost silently: neither creating or updating the
\* queue, nor a lookup that races with it, nor compaction loses a message.
NoSilentLoss ==
    [][\A m \in MsgIds : Live(m) /\ ~ Live(m)' => MayDisappear(m)]_vars

Delivers(c, m) == Holds(c, "receive") /\ req'[c].result = m

\* "Receive takes the next visible message and hides it for the queue's
\* visibility timeout": no other receive, whenever it read its clock, is given
\* the message before that, unless someone extended the timeout meanwhile.
LeaseHonoured ==
    [][\A c \in Clients, m \in MsgIds :
         Delivers(c, m) => req[c].now >= lease[m]]_vars

-----------------------------------------------------------------------------
(* Liveness *)

\* The store forgets an expired message of a live queue.
ExpiredCompacted ==
    \A m \in MsgIds :
        (Live(m) /\ messages[m].expiresAt <= clock) ~> ~ Live(m)
=============================================================================
