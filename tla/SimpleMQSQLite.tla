--------------------------- MODULE SimpleMQSQLite ---------------------------
(***************************************************************************)
(* The SimpleMQ mock with a database (--database): SQLiteStore.  The pool  *)
(* has one connection, so a statement outside a transaction and a          *)
(* transaction are each one step; what a request reads before its          *)
(* transaction, its clock and the settings of its queue, may be out of     *)
(* date when that begins.  A queue is rows that carry its name: one of the *)
(* table queues if the control plane made it, and those of its messages.   *)
(* The process may be stopped and started again, with other defaults; the  *)
(* requests it was serving are lost, the rows stay.                        *)
(***************************************************************************)
EXTENDS Naturals

CONSTANTS
    QueueNames,
    DBClients,         \* requests that can be in flight at once
    None,
    TicksPerSecond,    \* the resolution of the clock
    Defaults,          \* what Config may say: records of vt and me, in ticks
    VTSeconds, ExpSeconds,      \* what an update may set
    MaxTime, MaxMsgs, MaxQueues \* bounds: the clock, messages, queue ids and how
                                \* often the queue of a name is deleted

VARIABLES
    dbClock,           \* time.Now(), in the milliseconds of the database
    config,            \* the defaults of this process
    messages,          \* the table messages, by rowid
    queues,            \* the table queues, by id
    sent, created,     \* the last rowid and queue id given out
    request,           \* one request per client
    gen,               \* history: per name, how often its queue was deleted
    lease              \* history: per message, until when the last receive
                       \* hid it, unless it was extended since

dbVars == <<dbClock, config, messages, queues, sent, created, request, gen, lease>>

Times    == 1 .. MaxTime
MsgIds   == 1 .. MaxMsgs
QueueIds == 1 .. MaxQueues
Ops == {"send", "receive", "extend", "delete"}

Message == [name : QueueNames, expiresAt : Nat, visibleAt : Nat, gen : Nat]
Queue == [name : QueueNames, vtSecs : Nat, expSecs : Nat]
Request == [op : Ops, name : QueueNames, target : MsgIds \cup {None},
            now : Times \cup {None}, span : Nat, ready : BOOLEAN]

TypeOK ==
    /\ dbClock \in Times
    /\ config \in Defaults
    /\ \A m \in MsgIds : messages[m] # None => messages[m] \in Message
    /\ \A id \in QueueIds : queues[id] # None => queues[id] \in Queue
    /\ sent \in 0 .. MaxMsgs /\ created \in 0 .. MaxQueues
    /\ \A c \in DBClients : request[c] # None => request[c] \in Request
    /\ gen \in [QueueNames -> Nat]
    /\ lease \in [MsgIds -> Nat]

BoundsOK ==
    /\ MaxTime \in Nat \ {0} /\ MaxMsgs \in Nat /\ MaxQueues \in Nat
    /\ TicksPerSecond \in Nat \ {0}
    /\ Defaults \subseteq [vt : Nat \ {0}, me : Nat \ {0}]
    /\ VTSeconds \subseteq Nat /\ ExpSeconds \subseteq Nat
    /\ None \notin Nat /\ None \notin Message /\ None \notin Queue /\ None \notin Request

Init ==
    /\ dbClock = 1
    /\ config \in Defaults
    /\ messages = [m \in MsgIds |-> None]
    /\ queues = [id \in QueueIds |-> None]
    /\ sent = 0 /\ created = 0
    /\ request = [c \in DBClients |-> None]
    /\ gen = [n \in QueueNames |-> 0]
    /\ lease = [m \in MsgIds |-> 0]

-----------------------------------------------------------------------------
(* Requests to the data plane *)

Rows(n) == {m \in MsgIds : messages[m] # None /\ messages[m].name = n}

Named(n) == {id \in QueueIds : queues[id] # None /\ queues[id].name = n}

\* The handler reads the clock, except for a delete, then calls the store.
Arrive(c, op, n, target) ==
    /\ request[c] = None
    /\ request' = [request EXCEPT ![c] =
         [op |-> op, name |-> n, target |-> target,
          now |-> IF op = "delete" THEN None ELSE dbClock,
          span |-> 0, ready |-> op = "delete"]]
    /\ UNCHANGED <<dbClock, config, messages, queues, sent, created, gen, lease>>

\* Mutation: a setting of zero is taken for one.
SettingsAsStored(n) ==
    IF Named(n) = {} THEN config
    ELSE LET q == queues[CHOOSE id \in Named(n) : TRUE]
         IN [vt |-> q.vtSecs * TicksPerSecond, me |-> q.expSecs * TicksPerSecond]

\* Both of the queue's settings, or both of the defaults.
Settings(n) ==
    LET set == {id \in Named(n) : queues[id].vtSecs > 0 /\ queues[id].expSecs > 0}
    IN  IF set = {} THEN config
        ELSE LET q == queues[CHOOSE id \in set : TRUE]
             IN [vt |-> q.vtSecs * TicksPerSecond, me |-> q.expSecs * TicksPerSecond]

\* Of the two, a request needs one.
QueueSettingsFor(c) ==
    /\ request[c] # None /\ ~ request[c].ready
    /\ LET s == Settings(request[c].name)
       IN request' = [request EXCEPT
            ![c].span = IF request[c].op = "send" THEN s.me ELSE s.vt, ![c].ready = TRUE]
    /\ UNCHANGED <<dbClock, config, messages, queues, sent, created, gen, lease>>

Ready(c, op) == request[c] # None /\ request[c].ready /\ request[c].op = op

Answer(c) == request' = [request EXCEPT ![c] = None]

\* A row comes after all there are, whenever its message got its id.
Send(c) ==
    /\ Ready(c, "send") /\ sent < MaxMsgs
    /\ sent' = sent + 1
    /\ messages' = [messages EXCEPT ![sent + 1] =
         [name |-> request[c].name, expiresAt |-> request[c].now + request[c].span,
          visibleAt |-> 0, gen |-> gen[request[c].name]]]
    /\ Answer(c)
    /\ UNCHANGED <<dbClock, config, queues, created, gen, lease>>

\* Mutation: a message that was received is not hidden.
Unexpired(n, now) == {m \in Rows(n) : messages[m].expiresAt > now}

\* The WHERE of Receive; a visibility_timeout_at of 0 is below any time.
Visible(n, now) ==
    {m \in Rows(n) : messages[m].expiresAt > now /\ messages[m].visibleAt <= now}

\* One statement finds the first visible message and hides it.
Receive(c) ==
    /\ Ready(c, "receive")
    /\ LET found == Visible(request[c].name, request[c].now)
           until == request[c].now + request[c].span
       IN \/ \E m \in found :
               /\ \A k \in found : m <= k
               /\ messages' = [messages EXCEPT ![m].visibleAt = until]
               /\ lease' = [lease EXCEPT ![m] = until]
          \/ found = {} /\ UNCHANGED <<messages, lease>>
    /\ Answer(c)
    /\ UNCHANGED <<dbClock, config, queues, sent, created, gen>>

ExtendTimeout(c) ==
    /\ Ready(c, "extend")
    /\ LET m == request[c].target
       IN IF m \in Rows(request[c].name)
          THEN /\ messages' = [messages EXCEPT ![m].visibleAt = request[c].now + request[c].span]
               /\ lease' = [lease EXCEPT ![m] = 0]
          ELSE UNCHANGED <<messages, lease>>
    /\ Answer(c)
    /\ UNCHANGED <<dbClock, config, queues, sent, created, gen>>

Remove(S) == messages' = [m \in MsgIds |-> IF m \in S THEN None ELSE messages[m]]

Delete(c) ==
    /\ Ready(c, "delete")
    /\ Remove({request[c].target} \cap Rows(request[c].name))
    /\ Answer(c)
    /\ UNCHANGED <<dbClock, config, queues, sent, created, gen, lease>>

-----------------------------------------------------------------------------
(* The control plane *)

\* Mutation: the name is not unique in the table.
CreateQueueAgain(n) ==
    /\ created < MaxQueues
    /\ created' = created + 1
    /\ queues' = [queues EXCEPT ![created + 1] =
         [name |-> n, vtSecs |-> config.vt \div TicksPerSecond,
          expSecs |-> config.me \div TicksPerSecond]]
    /\ UNCHANGED <<dbClock, config, messages, sent, request, gen, lease>>

\* The handler leaves the settings to the defaults, in whole seconds.  The id
\* is spent whether or not the name is taken.
CreateQueue(n) ==
    /\ created < MaxQueues
    /\ created' = created + 1
    /\ queues' = IF Named(n) # {} THEN queues
                 ELSE [queues EXCEPT ![created + 1] =
                   [name |-> n, vtSecs |-> config.vt \div TicksPerSecond,
                    expSecs |-> config.me \div TicksPerSecond]]
    /\ UNCHANGED <<dbClock, config, messages, sent, request, gen, lease>>

UpdateQueue(id, vtSecs, expSecs) ==
    /\ queues[id] # None
    /\ queues' = [queues EXCEPT ![id].vtSecs = vtSecs, ![id].expSecs = expSecs]
    /\ UNCHANGED <<dbClock, config, messages, sent, created, request, gen, lease>>

\* Mutation: the messages stay.
DeleteQueueRow(id) ==
    /\ queues[id] # None /\ gen[queues[id].name] < MaxQueues
    /\ queues' = [queues EXCEPT ![id] = None]
    /\ gen' = [gen EXCEPT ![queues[id].name] = @ + 1]
    /\ UNCHANGED <<dbClock, config, messages, sent, created, request, lease>>

\* Both tables in one transaction.
DeleteQueueByID(id) ==
    /\ queues[id] # None /\ gen[queues[id].name] < MaxQueues
    /\ Remove(Rows(queues[id].name))
    /\ queues' = [queues EXCEPT ![id] = None]
    /\ gen' = [gen EXCEPT ![queues[id].name] = @ + 1]
    /\ UNCHANGED <<dbClock, config, sent, created, request, lease>>

ClearMessages(id) ==
    /\ queues[id] # None
    /\ Remove(Rows(queues[id].name))
    /\ UNCHANGED <<dbClock, config, queues, sent, created, request, gen, lease>>

-----------------------------------------------------------------------------
(* Time, compaction and the process *)

Tick ==
    /\ dbClock < MaxTime
    /\ dbClock' = dbClock + 1
    /\ UNCHANGED <<config, messages, queues, sent, created, request, gen, lease>>

\* Mutation: compaction goes by the visibility.
CompactHidden(now) ==
    /\ Remove({m \in MsgIds : messages[m] # None /\ messages[m].visibleAt <= now})
    /\ UNCHANGED <<dbClock, config, queues, sent, created, request, gen, lease>>

\* A turn of compactLoop, on a tick that may have waited for the connection.
Compact(now) ==
    /\ Remove({m \in MsgIds : messages[m] # None /\ messages[m].expiresAt <= now})
    /\ UNCHANGED <<dbClock, config, queues, sent, created, request, gen, lease>>

\* The next queue id comes after those that are stored, and after the time of the
\* start: within a second of it, ids of deleted queues may be given once more.
Restart(c) ==
    /\ config' = c
    /\ request' = [k \in DBClients |-> None]
    /\ created' \in {n \in 0 .. created : \A id \in QueueIds : queues[id] # None => id <= n}
    /\ UNCHANGED <<dbClock, messages, queues, sent, gen, lease>>

DataPlane(c) ==
    \/ \E n \in QueueNames :
         \/ \E op \in {"send", "receive"} : Arrive(c, op, n, None)
         \/ \E op \in {"extend", "delete"}, m \in 1 .. sent : Arrive(c, op, n, m)
    \/ QueueSettingsFor(c)
    \/ Send(c) \/ Receive(c) \/ ExtendTimeout(c) \/ Delete(c)

ControlPlane ==
    \/ \E n \in QueueNames : CreateQueue(n)
    \/ \E id \in QueueIds :
         \/ \E vt \in VTSeconds, exp \in ExpSeconds : UpdateQueue(id, vt, exp)
         \/ DeleteQueueByID(id)
         \/ ClearMessages(id)

Next ==
    \/ \E c \in DBClients : DataPlane(c)
    \/ ControlPlane
    \/ Tick
    \/ \E now \in 1 .. dbClock : Compact(now)
    \/ \E c \in Defaults : Restart(c)

Spec == Init /\ [][Next]_dbVars

-----------------------------------------------------------------------------
(* Properties *)

\* A name has one queue, and "DeleteQueueByID removes the queue together with
\* its messages": no row of the table was there when its queue was deleted,
\* whatever requests were under way.
TablesAgree ==
    /\ \A i, j \in QueueIds :
         queues[i] # None /\ queues[j] # None /\ queues[i].name = queues[j].name => i = j
    /\ \A m \in MsgIds : messages[m] # None => messages[m].gen = gen[messages[m].name]

\* What a step receives: the message whose lease it renews without extending it.
Received(c, m) ==
    /\ Ready(c, "receive") /\ request'[c] = None
    /\ m \in Rows(request[c].name) /\ lease'[m] # 0
    /\ messages'[m] # messages[m] \/ lease'[m] # lease[m]

\* "Receive takes the next visible message and hides it for the queue's
\* visibility timeout": for some time, however short the defaults are of the
\* process that made the queue or of this one, and from every other receive,
\* through restarts and whenever that one read its clock.
LeaseHonoured ==
    \A c \in DBClients, m \in MsgIds :
        Received(c, m) => request[c].now >= lease[m] /\ request[c].now < lease'[m]

\* "They survive a restart": a message leaves the table by its deletion, by that
\* or the clearing of its queue, or when it has expired, and not otherwise.
NoSilentLoss ==
    \A m \in MsgIds : messages[m] # None /\ messages'[m] = None =>
        \/ \E c \in DBClients : Delete(c) /\ request[c].target = m
        \/ \E id \in Named(messages[m].name) : DeleteQueueByID(id) \/ ClearMessages(id)
        \/ messages[m].expiresAt <= dbClock
=============================================================================
