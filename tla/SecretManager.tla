--------------------------- MODULE SecretManager ---------------------------
(***************************************************************************)
(* The Secret Manager mock: vaults, the secrets in them and the versions   *)
(* of a secret that are kept.  Each operation is one critical section      *)
(* under MemoryStore.mu.                                                   *)
(*                                                                         *)
(* The vaults of the control plane (vaultRecords) and the places secrets   *)
(* are kept in (vaults) are two maps: storing a secret under an ID makes   *)
(* the place and needs no vault.                                           *)
(***************************************************************************)
EXTENDS IDs, Sequences, SequencesExt, FiniteSets

CONSTANTS
    None,               \* no secret, no place for secrets
    Ids,                \* bound: the resource IDs there can be
    Paths,              \* bound: the IDs that requests for secrets name
    Names,              \* names of secrets
    Values,             \* their values
    MaxSecretVersions,  \* maxSecretVersions
    MaxStored           \* bound on the values ever stored in one run

VARIABLES
    ids,           \* the shared ID generator
    vaultRecords,  \* IDs of the vaults there are
    vaults,        \* MemoryStore.vaults
    stored,        \* the values stored under a name since it was made (history)
    puts           \* values stored in this run of the process

Secret == [latest : 1 .. MaxStored,
           versions : UNION {[vs -> Values] : vs \in SUBSET (1 .. MaxStored)}]

SecretsTypeOK ==
    /\ vaultRecords \subseteq Ids
    /\ vaults \in [Ids -> [Names -> Secret \cup {None}] \cup {None}]
    /\ stored \in [Ids -> [Names -> BoundedSeq(Values, MaxStored)]]
    /\ puts \in 0 .. MaxStored

Empty   == [n \in Names |-> None]
Nothing == [n \in Names |-> << >>]

-----------------------------------------------------------------------------
CreateVault ==
    /\ NextID(ids) \in Ids
    /\ ids' = AfterNext(ids)
    /\ vaultRecords' = vaultRecords \cup {NextID(ids)}
    /\ UNCHANGED <<vaults, stored, puts>>

\* Mutation: one version too many is kept.
DropLate(versions, latest) ==
    [v \in DOMAIN versions \ {latest - MaxSecretVersions - 1} |-> versions[v]]

\* The version that falls out of the window of versions kept.
DropOldest(versions, latest) ==
    [v \in DOMAIN versions \ {latest - MaxSecretVersions} |-> versions[v]]

WithVersion(sec, value) ==
    LET latest == IF sec = None THEN 1 ELSE sec.latest + 1
        before == IF sec = None THEN << >> ELSE sec.versions
        added  == [v \in DOMAIN before \cup {latest} |->
                     IF v = latest THEN value ELSE before[v]]
    IN  [latest |-> latest, versions |-> DropOldest(added, latest)]

\* The vault itself need not exist.
StoreSecret(vault, name, value) ==
    LET place == IF vaults[vault] = None THEN Empty ELSE vaults[vault]
    IN  /\ puts < MaxStored
        /\ puts' = puts + 1
        /\ vaults' = [vaults EXCEPT ![vault] =
                        [place EXCEPT ![name] = WithVersion(@, value)]]
        /\ stored' = [stored EXCEPT ![vault][name] = Append(@, value)]
        /\ UNCHANGED <<ids, vaultRecords>>

DeleteSecret(vault, name) ==
    /\ vaults[vault] # None
    /\ vaults[vault][name] # None
    /\ vaults' = [vaults EXCEPT ![vault][name] = None]
    /\ stored' = [stored EXCEPT ![vault][name] = << >>]
    /\ UNCHANGED <<ids, vaultRecords, puts>>

\* Its secrets go with it.
DeleteVault(vault) ==
    /\ vault \in vaultRecords
    /\ vaultRecords' = vaultRecords \ {vault}
    /\ vaults' = [vaults EXCEPT ![vault] = None]
    /\ stored' = [stored EXCEPT ![vault] = Nothing]
    /\ UNCHANGED <<ids, puts>>

StartSecrets ==
    /\ vaultRecords' = {}
    /\ vaults' = [vault \in Ids |-> None]
    /\ stored' = [vault \in Ids |-> Nothing]
    /\ puts' = 0

NextSecrets ==
    \/ CreateVault
    \/ \E vault \in Ids :
         \/ DeleteVault(vault)
         \/ /\ vault \in Paths
            /\ \E name \in Names :
                 \/ DeleteSecret(vault, name)
                 \/ \E value \in Values : StoreSecret(vault, name, value)

-----------------------------------------------------------------------------
(* Safety *)

\* What Unveil answers for a version.
Unveils(vault, name, version, value) ==
    /\ vaults[vault] # None
    /\ vaults[vault][name] # None
    /\ version \in DOMAIN vaults[vault][name].versions
    /\ vaults[vault][name].versions[version] = value

\* "Each secret keeps its latest 50 versions: creating a newer one drops the
\* oldest, and unveiling a dropped version returns 404": a version is the n-th
\* value stored since the secret was last made, and exactly the last ones can
\* be unveiled.
VersionsKept ==
    \A vault \in Ids, name \in Names, version \in 1 .. MaxStored, value \in Values :
        LET values == stored[vault][name]
        IN  Unveils(vault, name, version, value) <=>
                /\ version <= Len(values)
                /\ version > Len(values) - MaxSecretVersions
                /\ values[version] = value
=============================================================================
