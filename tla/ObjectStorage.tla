--------------------------- MODULE ObjectStorage ---------------------------
(***************************************************************************)
(* The object storage mock and its S3 data plane.  The control plane keeps *)
(* buckets, site accounts, permissions and access keys in a store whose    *)
(* operations are critical sections; the data plane is an external gateway *)
(* that serves the directories it finds and authenticates the keys of      *)
(* users.json.  A handler mirrors what it does to the store into the data  *)
(* plane, one call after the other, and either call may come between the   *)
(* calls of another request or fail.                                       *)
(*                                                                         *)
(* Accounts (one per site) and permissions own access keys in the same     *)
(* way and share the actions below.  A key is its owner and a number, for  *)
(* key IDs are UUIDs.                                                      *)
(***************************************************************************)
EXTENDS Naturals, FiniteSets

CONSTANTS
    Buckets, Sites, Permissions,
    Requests,          \* requests in flight
    None,
    MaxKeys,           \* maxAccountKeys and maxPermissionKeys, 1
    MaxIssued,         \* bound on keys issued per owner
    MaxContracts       \* bound on resource IDs given to buckets

VARIABLES
    buckets,           \* per bucket its contract and its settings
    contracts,         \* the resource IDs given to buckets so far
    listed,            \* per account and permission, the keys it lists
    deleted,           \* the permissions deleted: their IDs never return
    issued,            \* per owner, how many keys it was given
    users,             \* users.json: the keys the gateway authenticates
    dirs,              \* the directories the gateway serves as buckets
    calls,             \* per request, where it is
    raced              \* history: what two requests were ever about at once

control == <<buckets, contracts, listed, deleted, issued>>
gateway == <<users, dirs>>
osVars == <<control, gateway, calls, raced>>

Owners == Sites \cup Permissions
Keys == Owners \X (1 .. MaxIssued)
Settings == {"encryption", "replication"}

Entry == [contract : 1 .. MaxContracts, settings : SUBSET Settings]

Call ==
    [pc : {"mkdir", "rmdir", "delete", "create"}, on : Buckets,
     entry : Entry \cup {None}]
    \cup [pc : {"register"}, on : Owners, keys : SUBSET Keys]
    \cup [pc : {"deregister", "unlist"}, on : Owners, keys : SUBSET Keys, all : BOOLEAN]

TypeOK ==
    /\ buckets \in [Buckets -> Entry \cup {None}]
    /\ contracts \in 0 .. MaxContracts
    /\ listed \in [Owners -> (SUBSET Keys) \cup {None}]
    /\ deleted \subseteq Permissions
    /\ issued \in [Owners -> 0 .. MaxIssued]
    /\ users \subseteq Keys
    /\ dirs \subseteq Buckets
    /\ calls \in [Requests -> Call \cup {None}]
    /\ raced \subseteq Buckets \cup Owners

Init ==
    /\ buckets = [b \in Buckets |-> None]
    /\ contracts = 0
    /\ listed = [o \in Owners |-> None]
    /\ deleted = {}
    /\ issued = [o \in Owners |-> 0]
    /\ users = {} /\ dirs = {}
    /\ calls = [r \in Requests |-> None]
    /\ raced = {}

-----------------------------------------------------------------------------
(* Requests: each runs from its first call to its last *)

About(x) == {r \in Requests : calls[r] # None /\ calls[r].on = x}

\* A request that is not answered yet goes on to its next call.
Proceed(r, call) ==
    /\ calls' = [calls EXCEPT ![r] = call]
    /\ raced' = IF About(call.on) \subseteq {r} THEN raced ELSE raced \cup {call.on}

\* A request about x that makes its only call while others are under way.
AtOnce(x) ==
    /\ raced' = IF About(x) = {} THEN raced ELSE raced \cup {x}
    /\ UNCHANGED calls

Answer(r) == calls' = [calls EXCEPT ![r] = None] /\ UNCHANGED raced

At(r, pc) == calls[r] # None /\ calls[r].pc = pc

-----------------------------------------------------------------------------
(* Buckets *)

\* The store's CreateBucket, of a name that is free.
NewBucket(b) ==
    /\ buckets[b] = None
    /\ contracts < MaxContracts
    /\ contracts' = contracts + 1
    /\ buckets' = [buckets EXCEPT ![b] = [contract |-> contracts + 1, settings |-> {}]]

NoBucket(b) == buckets' = [buckets EXCEPT ![b] = None] /\ UNCHANGED contracts

CreateBucket(r, b) ==
    /\ calls[r] = None
    /\ NewBucket(b)
    /\ Proceed(r, [pc |-> "mkdir", on |-> b, entry |-> None])
    /\ UNCHANGED <<listed, deleted, issued, gateway>>

\* Mutation: a failure is reported and the bucket stays.
MakeDirectoryNoRollback(r) ==
    /\ At(r, "mkdir")
    /\ \/ dirs' = dirs \cup {calls[r].on}
       \/ UNCHANGED dirs
    /\ Answer(r)
    /\ UNCHANGED <<control, users>>

\* A directory that is there already will do; a failure takes the bucket back.
MakeDirectory(r) ==
    /\ At(r, "mkdir")
    /\ \/ dirs' = dirs \cup {calls[r].on} /\ UNCHANGED <<buckets, contracts>>
       \/ NoBucket(calls[r].on) /\ UNCHANGED dirs
    /\ Answer(r)
    /\ UNCHANGED <<listed, deleted, issued, users>>

\* Deleting a bucket that is not there is no error and clears the directory.
DeleteBucket(r, b) ==
    /\ calls[r] = None
    /\ NoBucket(b)
    /\ Proceed(r, [pc |-> "rmdir", on |-> b, entry |-> None])
    /\ UNCHANGED <<listed, deleted, issued, gateway>>

\* A failure is logged, and the directory stays.
RemoveDirectory(r) ==
    /\ At(r, "rmdir")
    /\ \/ dirs' = dirs \ {calls[r].on}
       \/ UNCHANGED dirs
    /\ Answer(r)
    /\ UNCHANGED <<control, users>>

\* The request names the contract it read; DeleteBucket and CreateBucket follow.
PutBucketPlan(r, b) ==
    /\ calls[r] = None
    /\ buckets[b] # None
    /\ Proceed(r, [pc |-> "delete", on |-> b, entry |-> buckets[b]])
    /\ UNCHANGED <<control, gateway>>

DropOldPlan(r) ==
    /\ At(r, "delete")
    /\ NoBucket(calls[r].on)
    /\ Proceed(r, [calls[r] EXCEPT !.pc = "create"])
    /\ UNCHANGED <<listed, deleted, issued, gateway>>

\* Whether the store made the new entry is not looked at.
MakeNewPlan(r) ==
    /\ At(r, "create")
    /\ IF buckets[calls[r].on] = None
       THEN NewBucket(calls[r].on)
       ELSE UNCHANGED <<buckets, contracts>>
    /\ Answer(r)
    /\ UNCHANGED <<listed, deleted, issued, gateway>>

\* Encryption and replication are set and cleared on the entry.
ChangeSettings(b, S) ==
    /\ buckets[b] # None /\ S # buckets[b].settings
    /\ buckets' = [buckets EXCEPT ![b].settings = S]
    /\ AtOnce(b)
    /\ UNCHANGED <<contracts, listed, deleted, issued, gateway>>

PutSetting(b, s) == ChangeSettings(b, buckets[b].settings \cup {s})
DeleteSetting(b, s) == ChangeSettings(b, buckets[b].settings \ {s})

-----------------------------------------------------------------------------
(* Accounts, permissions and their keys *)

CreateAccount(o) ==
    /\ o \in Sites /\ listed[o] = None
    /\ listed' = [listed EXCEPT ![o] = {}]
    /\ AtOnce(o)
    /\ UNCHANGED <<buckets, contracts, deleted, issued, gateway>>

CreatePermission(o) ==
    /\ o \in Permissions \ deleted /\ listed[o] = None
    /\ listed' = [listed EXCEPT ![o] = {}]
    /\ AtOnce(o)
    /\ UNCHANGED <<buckets, contracts, deleted, issued, gateway>>

\* The key is listed under the store's lock, within the quota, then registered.
CreateKey(r, o) ==
    /\ calls[r] = None
    /\ listed[o] # None /\ Cardinality(listed[o]) < MaxKeys /\ issued[o] < MaxIssued
    /\ issued' = [issued EXCEPT ![o] = @ + 1]
    /\ listed' = [listed EXCEPT ![o] = @ \cup {<<o, issued[o] + 1>>}]
    /\ Proceed(r, [pc |-> "register", on |-> o, keys |-> {<<o, issued[o] + 1>>}])
    /\ UNCHANGED <<buckets, contracts, deleted, gateway>>

\* DeleteAccountKey and DeletePermissionKey of the store: no error if gone.
Unlist(o, keys) ==
    listed' = IF listed[o] = None THEN listed ELSE [listed EXCEPT ![o] = @ \ keys]

\* Mutation: a failure is reported and the key stays listed.
RegisterKeyNoRollback(r) ==
    /\ At(r, "register")
    /\ users' \in {users, users \cup calls[r].keys}
    /\ Answer(r)
    /\ UNCHANGED <<control, dirs>>

\* A failure takes the key back.
RegisterKey(r) ==
    /\ At(r, "register")
    /\ \/ users' = users \cup calls[r].keys /\ UNCHANGED listed
       \/ Unlist(calls[r].on, calls[r].keys) /\ UNCHANGED users
    /\ Answer(r)
    /\ UNCHANGED <<buckets, contracts, deleted, issued, dirs>>

\* Looks the key up first; it is deregistered before the store is touched.
DeleteKey(r, o, k) ==
    /\ calls[r] = None
    /\ listed[o] # None /\ k \in listed[o]
    /\ Proceed(r, [pc |-> "deregister", on |-> o, keys |-> {k}, all |-> FALSE])
    /\ UNCHANGED <<control, gateway>>

\* Mutation: the keys go with the account, and nobody tells the gateway.
DeleteOwnerOnly(r, o) ==
    /\ calls[r] = None
    /\ listed[o] # None
    /\ Proceed(r, [pc |-> "unlist", on |-> o, keys |-> listed[o], all |-> TRUE])
    /\ UNCHANGED <<control, gateway>>

\* handleDeleteAccount, handleDeletePermission: the keys listed now go first.
DeleteOwner(r, o) ==
    /\ calls[r] = None
    /\ listed[o] # None
    /\ Proceed(r, [pc |-> "deregister", on |-> o, keys |-> listed[o], all |-> TRUE])
    /\ UNCHANGED <<control, gateway>>

\* Mutation: a failure to deregister does not stop the request.
DeregisterAnyway(r) ==
    /\ At(r, "deregister")
    /\ users' \in {users \ calls[r].keys, users}
    /\ Proceed(r, [calls[r] EXCEPT !.pc = "unlist"])
    /\ UNCHANGED <<control, dirs>>

\* Key by key; the first failure answers the request, the store untouched.
Deregister(r) ==
    /\ At(r, "deregister")
    /\ \/ /\ users' = users \ calls[r].keys
          /\ Proceed(r, [calls[r] EXCEPT !.pc = "unlist"])
       \/ /\ \E gone \in SUBSET calls[r].keys :
                gone # calls[r].keys /\ users' = users \ gone
          /\ Answer(r)
    /\ UNCHANGED <<control, dirs>>

Forget(r) ==
    /\ At(r, "unlist")
    /\ LET o == calls[r].on IN
       IF calls[r].all
       THEN /\ listed' = [listed EXCEPT ![o] = None]
            /\ deleted' = deleted \cup ({o} \cap Permissions)
       ELSE Unlist(o, calls[r].keys) /\ UNCHANGED deleted
    /\ Answer(r)
    /\ UNCHANGED <<buckets, contracts, issued, gateway>>

-----------------------------------------------------------------------------
(* The process *)

\* Mutation: users.json is kept where the buckets are.
RestartKeepUsers(keep) ==
    /\ buckets' = [b \in Buckets |-> None]
    /\ listed' = [o \in Owners |-> None]
    /\ calls' = [r \in Requests |-> None]
    /\ dirs' = keep /\ raced' = {}
    /\ UNCHANGED <<users, contracts, deleted, issued>>

\* A restart forgets the store and starts from an empty users.json; the
\* directories are kept when their parent was configured.
Restart(keep) ==
    /\ buckets' = [b \in Buckets |-> None]
    /\ listed' = [o \in Owners |-> None]
    /\ users' = {}
    /\ calls' = [r \in Requests |-> None]
    /\ dirs' = keep /\ raced' = {}
    /\ UNCHANGED <<contracts, deleted, issued>>

BucketOps ==
    \E r \in Requests :
        \/ \E b \in Buckets : CreateBucket(r, b) \/ DeleteBucket(r, b) \/ PutBucketPlan(r, b)
        \/ MakeDirectory(r) \/ RemoveDirectory(r) \/ DropOldPlan(r) \/ MakeNewPlan(r)

SettingOps ==
    \E b \in Buckets, s \in Settings :
        buckets[b] # None /\ (PutSetting(b, s) \/ DeleteSetting(b, s))

OwnerOps ==
    \/ \E o \in Owners : CreateAccount(o) \/ CreatePermission(o)
    \/ \E r \in Requests, o \in Owners : DeleteOwner(r, o)

KeyOps ==
    \E r \in Requests :
        \/ \E o \in Owners : CreateKey(r, o) \/ \E k \in Keys : DeleteKey(r, o, k)
        \/ RegisterKey(r) \/ Deregister(r) \/ Forget(r)

Restarts == \E keep \in {{}, dirs} : Restart(keep)

Next == BucketOps \/ SettingOps \/ OwnerOps \/ KeyOps \/ Restarts

Spec == Init /\ [][Next]_osVars

-----------------------------------------------------------------------------
(* Properties *)

\* A key that is listed authenticates, or the request that creates or deletes
\* it is still under way: whatever failed, and whatever ran beside it.
ListedKeysServe ==
    \A o \in Owners : listed[o] # None =>
        \A k \in listed[o] :
            \/ k \in users
            \/ \E r \in About(o) : k \in calls[r].keys

\* A key nobody lists any more does not authenticate, once the requests about
\* its owner are answered and unless two of them ran at once; and a restart
\* leaves no key behind.
RevokedKeysStop ==
    \A k \in users :
        LET o == k[1] IN
        \/ listed[o] # None /\ k \in listed[o]
        \/ About(o) # {} \/ o \in raced

\* A bucket that is listed can be served, once the requests about it are
\* answered and unless two of them ran at once.
BucketsServed ==
    \A b \in Buckets : buckets[b] # None =>
        b \in dirs \/ About(b) # {} \/ b \in raced
=============================================================================
