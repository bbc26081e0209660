------------------------------ MODULE Identity ------------------------------
(***************************************************************************)
(* The IAM mock: a table per kind of resource, whose four operations are   *)
(* critical sections, and handlers that call them one after the other.     *)
(* Users own trusted devices and security keys, service principals own     *)
(* their keys, projects and folders have a policy kept beside them; the    *)
(* other resources (groups, API keys, SSO profiles, SCIM configurations)   *)
(* own nothing.  A resource is its ID, which is never given twice; what it *)
(* says of itself is data, and so are the organization's own settings.     *)
(***************************************************************************)
EXTENDS Orders, Functions

CONSTANTS
    Users, Devices, SecurityKeys,      \* the IDs there can be, per table
    Principals, PrincipalKeys,
    Projects, Folders, Others,
    Callers,           \* requests in flight
    None

VARIABLES
    items,             \* per ID, its owner; itself if it has none; None if absent
    order,             \* per table, its IDs in order
    policies,          \* the projects and folders whose IAM policy is stored
    given,             \* the IDs given so far
    work,              \* per request, where it is
    late               \* history: what was stored when its owner was gone

tables == <<items, order>>
iamVars == <<tables, policies, given, work, late>>

TableList ==
    <<Users, Devices, SecurityKeys, Principals, PrincipalKeys, Projects, Folders, Others>>
Tables == {Users, Devices, SecurityKeys, Principals, PrincipalKeys, Projects, Folders, Others}
IDs == UNION Tables
TableOf(id) == CHOOSE T \in Tables : id \in T

Belongings == Devices \cup SecurityKeys \cup PrincipalKeys

\* The tables searched for what belonged to an owner, in the code's order.
BelongingsOf(o) == IF o \in Users THEN <<Devices, SecurityKeys>> ELSE <<PrincipalKeys>>

Held == {id \in IDs : items[id] # None}

\* Where a request is: about id, whose owner is owner; a deletion has tables
\* still to search and belongings of the present one left to delete.
Work ==
    [pc : {"set", "add", "change", "remove", "drop", "sweep", "policy", "unpolicy"},
     id : IDs, owner : IDs, in : Seq(Tables), left : Seq(IDs)]

TypeOK ==
    /\ items \in [IDs -> IDs \cup {None}]
    /\ order \in [Tables -> Seq(IDs)]
    /\ policies \subseteq Projects \cup Folders
    /\ given \subseteq IDs /\ late \subseteq IDs
    /\ work \in [Callers -> Work \cup {None}]

\* An ID is of one table.
BoundsOK ==
    /\ \A i, j \in 1 .. 8 : i # j => TableList[i] \cap TableList[j] = {}
    /\ None \notin IDs /\ None \notin Work

Init ==
    /\ items = [id \in IDs |-> None]
    /\ order = [T \in Tables |-> <<>>]
    /\ policies = {} /\ given = {} /\ late = {}
    /\ work = [r \in Callers |-> None]

-----------------------------------------------------------------------------
(* table[T]: set and delete; get and all are guards *)

\* Mutation: the order is appended to whether or not the key was there.
SetTwice(id, owner) ==
    /\ order' = [order EXCEPT ![TableOf(id)] = Append(@, id)]
    /\ items' = [items EXCEPT ![id] = owner]

Set(id, owner) ==
    /\ order' = IF items[id] = None
                THEN [order EXCEPT ![TableOf(id)] = Append(@, id)] ELSE order
    /\ items' = [items EXCEPT ![id] = owner]

Delete(id) ==
    /\ order' = [order EXCEPT ![TableOf(id)] = Among(@, IDs \ {id})]
    /\ items' = [items EXCEPT ![id] = None]

\* Whether what is stored now has lost its owner meanwhile.
Stored(id, owner) == late' = IF items[owner] = None /\ owner # id THEN late \cup {id} ELSE late

At(r, pc) == work[r] # None /\ work[r].pc = pc
Go(r, pc, id, owner) ==
    work' = [work EXCEPT ![r] = [pc |-> pc, id |-> id, owner |-> owner, in |-> <<>>, left |-> <<>>]]
Answer(r) == work' = [work EXCEPT ![r] = None]
Free(r) == work[r] = None

NewID(id) == id \notin given /\ given' = given \cup {id}

-----------------------------------------------------------------------------
(* Creating and updating *)

Create(id) ==
    /\ id \notin Belongings
    /\ NewID(id)
    /\ Set(id, id)
    /\ UNCHANGED <<policies, work, late>>

DeleteOther(id) ==
    /\ id \in Others /\ items[id] # None
    /\ Delete(id)
    /\ UNCHANGED <<policies, given, work, late>>

\* An update holds the record it read, changes it, and stores it again, even
\* if it was deleted meanwhile.  A move is an update of each of its IDs.
ReadToUpdate(r, id) ==
    /\ Free(r) /\ id \notin Belongings /\ items[id] # None
    /\ Go(r, "set", id, id)
    /\ UNCHANGED <<tables, policies, given, late>>

StoreUpdate(r) ==
    /\ At(r, "set")
    /\ Set(work[r].id, work[r].owner) /\ Stored(work[r].id, work[r].owner)
    /\ Answer(r)
    /\ UNCHANGED <<policies, given>>

-----------------------------------------------------------------------------
(* Belongings: a user's devices and security keys, a principal's keys *)

Owns(o, id) ==
    /\ o \in Users \cup Principals
    /\ id \in UNION Range(BelongingsOf(o))

\* The owner is looked up, then the new belonging is stored.
FindOwnerToAdd(r, o, id) ==
    /\ Free(r) /\ Owns(o, id) /\ items[o] # None
    /\ NewID(id)
    /\ Go(r, "add", id, o)
    /\ UNCHANGED <<tables, policies, late>>

Add(r) ==
    /\ At(r, "add")
    /\ Set(work[r].id, work[r].owner) /\ Stored(work[r].id, work[r].owner)
    /\ Answer(r)
    /\ UNCHANGED <<policies, given>>

\* Keys of service principals are enabled and disabled, any belonging deleted:
\* the owner is looked up, then the belonging, which must be the owner's.
FindOwner(r, o, id, pc) ==
    /\ Free(r) /\ Owns(o, id) /\ items[o] # None
    /\ pc = "change" => id \in PrincipalKeys
    /\ Go(r, pc, id, o)
    /\ UNCHANGED <<tables, policies, given, late>>

NotTheirs(r) ==
    /\ At(r, "change") \/ At(r, "remove")
    /\ items[work[r].id] # work[r].owner
    /\ Answer(r)
    /\ UNCHANGED <<tables, policies, given, late>>

\* StoreUpdate stores the key again.
ReadKey(r) ==
    /\ At(r, "change") /\ items[work[r].id] = work[r].owner
    /\ Go(r, "set", work[r].id, work[r].owner)
    /\ UNCHANGED <<tables, policies, given, late>>

\* To delete what another request deleted since it was read changes nothing.
RemoveBelonging(r) ==
    /\ At(r, "remove") /\ items[work[r].id] = work[r].owner
    /\ Delete(work[r].id)
    /\ Answer(r)
    /\ UNCHANGED <<policies, given, late>>

-----------------------------------------------------------------------------
(* Deleting an owner, and what it owned with it *)

\* Search the tables, one after the other.
Sweep(r, o, in) ==
    work' = [work EXCEPT ![r] = [pc |-> "sweep", id |-> o, owner |-> o, in |-> in, left |-> <<>>]]

\* handleClearTrustedDevices: the user stays.
ClearDevices(r, u) ==
    /\ Free(r) /\ u \in Users /\ items[u] # None
    /\ Sweep(r, u, <<Devices>>)
    /\ UNCHANGED <<tables, policies, given, late>>

\* The user is looked up first, and that it is deleted is not looked at.
ReadToDelete(r, u) ==
    /\ Free(r) /\ u \in Users /\ items[u] # None
    /\ Go(r, "drop", u, u)
    /\ UNCHANGED <<tables, policies, given, late>>

\* Mutation: only the devices are deleted with the user.
DropUserAndDevices(r) ==
    /\ At(r, "drop")
    /\ Delete(work[r].id)
    /\ Sweep(r, work[r].id, <<Devices>>)
    /\ UNCHANGED <<policies, given, late>>

DropUser(r) ==
    /\ At(r, "drop")
    /\ Delete(work[r].id)
    /\ Sweep(r, work[r].id, BelongingsOf(work[r].id))
    /\ UNCHANGED <<policies, given, late>>

DeletePrincipal(r, o) ==
    /\ Free(r) /\ o \in Principals /\ items[o] # None
    /\ Delete(o)
    /\ Sweep(r, o, BelongingsOf(o))
    /\ UNCHANGED <<policies, given, late>>

\* What the owner has in the next table is listed once ...
ListBelongings(r) ==
    /\ At(r, "sweep") /\ work[r].left = <<>>
    /\ IF work[r].in = <<>> THEN Answer(r)
       ELSE work' = [work EXCEPT
                ![r].left = Among(order[Head(work[r].in)], {id \in IDs : items[id] = work[r].id}),
                ![r].in = Tail(@)]
    /\ UNCHANGED <<tables, policies, given, late>>

\* ... and deleted one by one, whatever was done to it since.
DeleteNext(r) ==
    /\ At(r, "sweep") /\ work[r].left # <<>>
    /\ Delete(Head(work[r].left))
    /\ work' = [work EXCEPT ![r].left = Tail(@)]
    /\ UNCHANGED <<policies, given, late>>

-----------------------------------------------------------------------------
(* Projects and folders: the IAM policy is kept under another lock *)

ReadToSetPolicy(r, p) ==
    /\ Free(r) /\ p \in Projects \cup Folders /\ items[p] # None
    /\ Go(r, "policy", p, p)
    /\ UNCHANGED <<tables, policies, given, late>>

StorePolicy(r) ==
    /\ At(r, "policy")
    /\ policies' = policies \cup {work[r].id}
    /\ late' = IF items[work[r].id] = None THEN late \cup {work[r].id} ELSE late
    /\ Answer(r)
    /\ UNCHANGED <<tables, given>>

DeleteProject(r, p) ==
    /\ Free(r) /\ p \in Projects \cup Folders /\ items[p] # None
    /\ Delete(p)
    /\ Go(r, "unpolicy", p, p)
    /\ UNCHANGED <<policies, given, late>>

DeletePolicy(r) ==
    /\ At(r, "unpolicy")
    /\ policies' = policies \ {work[r].id}
    /\ Answer(r)
    /\ UNCHANGED <<tables, given, late>>

ResourceOps ==
    \E id \in IDs :
        \/ Create(id) \/ DeleteOther(id)
        \/ \E r \in Callers : ReadToUpdate(r, id) \/ StoreUpdate(r)

BelongingOps ==
    \E r \in Callers :
        \/ \E o \in IDs, id \in Belongings :
              \/ FindOwnerToAdd(r, o, id)
              \/ \E pc \in {"change", "remove"} : FindOwner(r, o, id, pc)
        \/ Add(r) \/ NotTheirs(r) \/ ReadKey(r) \/ RemoveBelonging(r)

OwnerDeletions ==
    \E r \in Callers :
        \/ \E o \in IDs : ClearDevices(r, o) \/ ReadToDelete(r, o) \/ DeletePrincipal(r, o)
        \/ DropUser(r) \/ ListBelongings(r) \/ DeleteNext(r)

PolicyOps ==
    \E r \in Callers :
        \/ \E p \in IDs : ReadToSetPolicy(r, p) \/ DeleteProject(r, p)
        \/ StorePolicy(r) \/ DeletePolicy(r)

Next == ResourceOps \/ BelongingOps \/ OwnerDeletions \/ PolicyOps

Spec == Init /\ [][Next]_iamVars

-----------------------------------------------------------------------------
(* Properties *)

\* Every table lists each of its IDs once, and no other: all() would follow a
\* nil pointer for an ID that is ordered and not stored.
OrderMatches ==
    \A T \in Tables :
        /\ Range(order[T]) = Held \cap T
        /\ \A i, j \in 1 .. Len(order[T]) : order[T][i] = order[T][j] => i = j

Deleting(o) == \E r \in Callers : work[r] # None /\ work[r].owner = o
                                  /\ work[r].pc \in {"sweep", "unpolicy"}

\* What belongs to a deleted user, service principal, project or folder - its
\* devices and keys, its stored policy - is gone when the deletion is answered,
\* however that was interleaved with other deletions and updates, but for what
\* a request that had looked it up in time stored after it was gone.  What only
\* mentions it may stay: the members of a group and the bindings of another's
\* policy are data that no deletion looks at.
NothingLeftBehind ==
    \A id \in IDs \ late :
        /\ items[id] # None /\ items[items[id]] = None => Deleting(items[id])
        /\ id \in policies /\ items[id] = None => Deleting(id)
=============================================================================
