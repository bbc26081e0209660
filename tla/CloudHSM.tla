------------------------------ MODULE CloudHSM ------------------------------
(***************************************************************************)
(* The CloudHSM mock: partitions, with the clients and IPsec peers that    *)
(* are registered against each, and software licenses with their document. *)
(* The store keeps a map of records and, for what belongs to them, a map   *)
(* of maps; each of its operations is one critical section.  IDs come from *)
(* a counter, peers are named by the client.  Names, addresses, tags and   *)
(* certificates are data.                                                  *)
(***************************************************************************)
EXTENDS Naturals, FiniteSets

CONSTANTS
    PeerNames,
    HsmClients,        \* requests in flight
    None,
    MaxIDs             \* bound on the IDs ever given

VARIABLES
    hsms,              \* the partitions there are
    clients,           \* per partition, the IDs of its clients; None: no map
    peers,             \* per partition, the names of its peers; None: no map
    licenses,
    docs,              \* per license, the IDs of its documents; None: no map
    lastID,            \* the generator's counter
    adding             \* per request, the partition a peer is to be added to

hsmVars == <<hsms, clients, peers, licenses, docs, lastID, adding>>

HsmIDs == 1 .. MaxIDs

TypeOK ==
    /\ hsms \subseteq HsmIDs /\ licenses \subseteq HsmIDs
    /\ clients \in [HsmIDs -> (SUBSET HsmIDs) \cup {None}]
    /\ peers \in [HsmIDs -> (SUBSET PeerNames) \cup {None}]
    /\ docs \in [HsmIDs -> (SUBSET HsmIDs) \cup {None}]
    /\ lastID \in 0 .. MaxIDs
    /\ adding \in [HsmClients -> HsmIDs \cup {None}]

\* None is no ID and no set of them.
BoundsOK ==
    /\ MaxIDs \in Nat
    /\ \A ids \in SUBSET HsmIDs : ids # None
    /\ \A ns \in SUBSET PeerNames : ns # None
    /\ \A id \in HsmIDs : id # None

Init ==
    /\ hsms = {} /\ licenses = {} /\ lastID = 0
    /\ clients = [id \in HsmIDs |-> None]
    /\ peers = [id \in HsmIDs |-> None]
    /\ docs = [id \in HsmIDs |-> None]
    /\ adding = [r \in HsmClients |-> None]

Take(n) == lastID + n <= MaxIDs /\ lastID' = lastID + n

-----------------------------------------------------------------------------
(* Partitions *)

CreateCloudHSM ==
    /\ Take(1)
    /\ hsms' = hsms \cup {lastID'}
    /\ clients' = [clients EXCEPT ![lastID'] = {}]
    /\ peers' = [peers EXCEPT ![lastID'] = {}]
    /\ UNCHANGED <<licenses, docs, adding>>

\* Mutation: the clients stay behind.
DeleteHSMAndPeers(id) ==
    /\ id \in hsms
    /\ hsms' = hsms \ {id}
    /\ peers' = [peers EXCEPT ![id] = None]
    /\ UNCHANGED <<clients, licenses, docs, lastID, adding>>

DeleteCloudHSM(id) ==
    /\ id \in hsms
    /\ hsms' = hsms \ {id}
    /\ clients' = [clients EXCEPT ![id] = None]
    /\ peers' = [peers EXCEPT ![id] = None]
    /\ UNCHANGED <<licenses, docs, lastID, adding>>

-----------------------------------------------------------------------------
(* Clients and peers *)

CreateClient(id) ==
    /\ clients[id] # None
    /\ Take(1)
    /\ clients' = [clients EXCEPT ![id] = @ \cup {lastID'}]
    /\ UNCHANGED <<hsms, peers, licenses, docs, adding>>

DeleteClient(id, c) ==
    /\ clients[id] # None /\ c \in clients[id]
    /\ clients' = [clients EXCEPT ![id] = @ \ {c}]
    /\ UNCHANGED <<hsms, peers, licenses, docs, lastID, adding>>

\* handleCreatePeer looks the partition up before it reads the request.
FindHSM(r, id) ==
    /\ adding[r] = None /\ id \in hsms
    /\ adding' = [adding EXCEPT ![r] = id]
    /\ UNCHANGED <<hsms, clients, peers, licenses, docs, lastID>>

\* Mutation: makes the partition's map if there is none.
CreatePeerOnDemand(r, p) ==
    /\ adding[r] # None
    /\ peers' = [peers EXCEPT ![adding[r]] = IF @ = None THEN {p} ELSE @ \cup {p}]
    /\ adding' = [adding EXCEPT ![r] = None]
    /\ UNCHANGED <<hsms, clients, licenses, docs, lastID>>

\* Refused if there is such a peer, or no partition any more.
CreatePeer(r, p) ==
    /\ adding[r] # None
    /\ peers' = IF peers[adding[r]] = None THEN peers
                ELSE [peers EXCEPT ![adding[r]] = @ \cup {p}]
    /\ adding' = [adding EXCEPT ![r] = None]
    /\ UNCHANGED <<hsms, clients, licenses, docs, lastID>>

DeletePeer(id, p) ==
    /\ peers[id] # None /\ p \in peers[id]
    /\ peers' = [peers EXCEPT ![id] = @ \ {p}]
    /\ UNCHANGED <<hsms, clients, licenses, docs, lastID, adding>>

-----------------------------------------------------------------------------
(* Licenses *)

\* The license comes first, its document second.
CreateLicense ==
    /\ Take(2)
    /\ licenses' = licenses \cup {lastID + 1}
    /\ docs' = [docs EXCEPT ![lastID + 1] = {lastID'}]
    /\ UNCHANGED <<hsms, clients, peers, adding>>

DeleteLicense(id) ==
    /\ id \in licenses
    /\ licenses' = licenses \ {id}
    /\ docs' = [docs EXCEPT ![id] = None]
    /\ UNCHANGED <<hsms, clients, peers, lastID, adding>>

PartitionOps == CreateCloudHSM \/ \E id \in HsmIDs : DeleteCloudHSM(id)

ClientOps == \E id \in HsmIDs : CreateClient(id) \/ \E c \in HsmIDs : DeleteClient(id, c)

PeerOps ==
    \/ \E r \in HsmClients :
         \/ \E id \in HsmIDs : FindHSM(r, id)
         \/ \E p \in PeerNames : CreatePeer(r, p)
    \/ \E id \in HsmIDs, p \in PeerNames : DeletePeer(id, p)

LicenseOps == CreateLicense \/ \E id \in HsmIDs : DeleteLicense(id)

Next == PartitionOps \/ ClientOps \/ PeerOps \/ LicenseOps

Spec == Init /\ [][Next]_hsmVars

-----------------------------------------------------------------------------
(* Properties *)

\* There is a map of clients and of peers for the partitions there are, and of
\* documents for the licenses, and for no others, so that neither is found
\* where the other is not; every license has its document, and no ID stands for
\* two things -- whichever of two requests about a partition comes first.
MapsAgree ==
    /\ \A id \in HsmIDs :
         /\ clients[id] # None <=> id \in hsms
         /\ peers[id] # None <=> id \in hsms
         /\ docs[id] # None <=> id \in licenses
         /\ id \in licenses => Cardinality(docs[id]) = 1
    /\ hsms \cap licenses = {}
    /\ \A i, j \in hsms : i # j => clients[i] \cap clients[j] = {}
    /\ \A i \in hsms : clients[i] \cap (hsms \cup licenses) = {}
=============================================================================
