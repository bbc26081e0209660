------------------------------- MODULE Suite -------------------------------
(***************************************************************************)
(* `sakumock all`: services in one process, with one ID generator for all. *)
(* Here they are KMS, Secret Manager and the control plane of SimpleMQ,    *)
(* which stand for the others: a service mints IDs from the shared         *)
(* generator (Secret Manager), has IDs of its own choosing reserved (KMS), *)
(* or keeps its resources in a database, with a generator of its own       *)
(* (SimpleMQ).                                                             *)
(*                                                                         *)
(* The process may be stopped at any time and started again, with other    *)
(* versions of the preset keys, at the same second or later.               *)
(***************************************************************************)
EXTENDS Integers, FiniteSets

CONSTANTS
    None,
    MaxID,              \* bound: the resource IDs there can be
    MaxSecond,          \* bound on the first ID of a process
    PresetIds,          \* the IDs --key configures
    MaxKeyVersion,      \* bounds of KeyManager
    MaxDrawn,
    MaxCiphertexts,
    Paths,              \* constants and bounds of SecretManager
    Names,
    Values,
    MaxSecretVersions,
    MaxStored

Ids == 1 .. MaxID

ASSUME SuiteAssumption ==
    /\ MaxID \in Nat \ {0}
    /\ MaxSecond \in Ids
    /\ PresetIds \subseteq Ids
    /\ MaxKeyVersion \in Nat \ {0}
    /\ MaxDrawn \in Nat /\ MaxSecretVersions \in Nat /\ MaxStored \in Nat

VARIABLES
    database,   \* SimpleMQ has a SQLite database
    second,     \* DefaultIDBase at the start of the process
    ids,        \* the shared ID generator
    queueIds,   \* the SQLite store's own
    queues,     \* IDs of the queues there are
    keys, drawn, ciphertexts,             \* KMS
    vaultRecords, vaults, stored, puts    \* Secret Manager

KMS == INSTANCE KeyManager
SM  == INSTANCE SecretManager
INSTANCE IDs

ASSUME NoneAssumption ==
    /\ None \notin KMS!Key
    /\ None \notin SM!Secret
    /\ None \notin [Names -> SM!Secret \cup {None}]

mqVars  == <<queueIds, queues>>
kmsVars == <<keys, drawn, ciphertexts>>
smVars  == <<vaultRecords, vaults, stored, puts>>
vars    == <<database, second, ids, mqVars, kmsVars, smVars>>

TypeOK ==
    /\ database \in BOOLEAN
    /\ second \in 1 .. MaxSecond
    /\ ids \in Nat \ {0} /\ queueIds \in Nat \ {0}
    /\ queues \subseteq Ids
    /\ KMS!KeysTypeOK
    /\ SM!SecretsTypeOK

-----------------------------------------------------------------------------
(* SimpleMQ's control plane *)

\* The in-memory store takes the shared generator, the SQLite store does not.
QueueGenerator == IF database THEN queueIds ELSE ids

CreateQueue ==
    /\ NextID(QueueGenerator) \in Ids
    /\ queues' = queues \cup {NextID(QueueGenerator)}
    /\ IF database THEN queueIds' = AfterNext(queueIds) /\ UNCHANGED ids
                   ELSE ids' = AfterNext(ids) /\ UNCHANGED queueIds

DeleteQueue(id) ==
    /\ id \in queues
    /\ queues' = queues \ {id}
    /\ UNCHANGED <<ids, queueIds>>

\* NewSQLiteStore: beyond every queue in the database.
Open(base, old) ==
    IF old = {} THEN base ELSE Beyond(base, CHOOSE m \in old : \A id \in old : id <= m)

-----------------------------------------------------------------------------
(* The process *)

\* The shared generator once KMS has reserved the IDs of its preset keys.
Shared(base) ==
    IF PresetIds = {} THEN base
    ELSE Beyond(base, CHOOSE m \in PresetIds : \A id \in PresetIds : id <= m)

Restart(base, N) ==
    /\ base >= second
    /\ second' = base
    /\ ids' = Shared(base)
    /\ queues' = IF database THEN queues ELSE {}
    /\ queueIds' = IF database THEN Open(base, queues) ELSE base
    /\ KMS!StartKeys(N)
    /\ SM!StartSecrets
    /\ UNCHANGED database

Init ==
    /\ database \in BOOLEAN
    /\ second = 1
    /\ ids = Shared(second)
    /\ queueIds = second
    /\ queues = {}
    /\ keys = [id \in Ids |-> IF id \in PresetIds THEN KMS!PresetKey(id, 1) ELSE None]
    /\ drawn = 0 /\ ciphertexts = {}
    /\ vaultRecords = {}
    /\ vaults = [id \in Ids |-> None]
    /\ stored = [id \in Ids |-> SM!Nothing]
    /\ puts = 0

Next ==
    \/ KMS!NextKeys /\ UNCHANGED <<database, second, mqVars, smVars>>
    \/ SM!NextSecrets /\ UNCHANGED <<database, second, mqVars, kmsVars>>
    \/ CreateQueue /\ UNCHANGED <<database, second, kmsVars, smVars>>
    \/ \E id \in Ids :
         DeleteQueue(id) /\ UNCHANGED <<database, second, kmsVars, smVars>>
    \/ \E base \in 1 .. MaxSecond, N \in [PresetIds -> 1 .. MaxKeyVersion] : Restart(base, N)

Spec == Init /\ [][Next]_vars

-----------------------------------------------------------------------------
(* Safety *)

KeyIds == {id \in Ids : KMS!HasKey(id)}

\* No two resources of one service, or of two that share the generator, have
\* one ID, and neither will the next to be made: whatever IDs are preset, and
\* however queues in a database outlive the process that numbered them.
IdsDistinct ==
    /\ KeyIds \cap vaultRecords = {}
    /\ ~ database => queues \cap (KeyIds \cup vaultRecords) = {}
    /\ NextID(QueueGenerator) \notin queues
    /\ NextID(ids) \notin KeyIds \cup vaultRecords

\* A ciphertext decrypts unless its key is suspended or was restarted at an
\* earlier version: see KeyManager.
StaysReadable == KMS!StaysReadable

\* Exactly the latest versions of a secret can be unveiled: see SecretManager.
VersionsKept == SM!VersionsKept
=============================================================================
