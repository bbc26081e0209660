----------------------------- MODULE KeyManager -----------------------------
(***************************************************************************)
(* The KMS mock: keys, the material of their versions, and the ciphertexts *)
(* clients hold.  Each operation is one critical section under             *)
(* MemoryStore.mu; a key is never destroyed, so a handler that reads a key *)
(* and then uses it finds it again.                                        *)
(*                                                                         *)
(* Material is where it was drawn and how many times it was hashed:        *)
(* version N + 1 is the SHA-256 of version N.                              *)
(***************************************************************************)
EXTENDS IDs, Sequences, SequencesExt, FiniteSets

CONSTANTS
    None,            \* no key
    Ids,             \* bound: the resource IDs there can be
    PresetIds,       \* the IDs --key configures
    MaxKeyVersion,   \* bound on the versions of a key
    MaxDrawn,        \* bound on the keys generated in one run of the process
    MaxCiphertexts   \* bound on the ciphertexts clients hold

VARIABLES
    ids,          \* the shared ID generator
    keys,         \* MemoryStore.keys and keyMaterial
    drawn,        \* random materials drawn in this run of the process
    ciphertexts   \* what clients were given by Encrypt

Statuses == {"active", "restricted", "suspended", "pending_destruction"}

\* Material configured with a key ID, or drawn at random.
Origins  == [kind : {"secret"}, n : PresetIds] \cup [kind : {"random"}, n : 1 .. MaxDrawn]
Material == [origin : Origins, hashed : 0 .. MaxKeyVersion]

\* material[v] is the material of version v; scheduled says whether
\* DeletionScheduledAfter is set.
Key == [status : Statuses, scheduled : BOOLEAN, latest : 1 .. MaxKeyVersion,
        material : BoundedSeq(Material, MaxKeyVersion)]

Ciphertext == [id : Ids, version : 1 .. MaxKeyVersion, material : Material]

KeysTypeOK ==
    /\ keys \in [Ids -> Key \cup {None}]
    /\ drawn \in 0 .. MaxDrawn
    /\ ciphertexts \subseteq Ciphertext

HasKey(id) == keys[id] # None

-----------------------------------------------------------------------------
(* Key material *)

Drawn(kind, n) == [origin |-> [kind |-> kind, n |-> n], hashed |-> 0]

NextMaterial(m) == [m EXCEPT !.hashed = @ + 1]

\* Mutation: versions count from 0.
NewKeyAtZero(m) == [status |-> "active", scheduled |-> FALSE, latest |-> 0, material |-> <<m>>]

NewKey(m) == [status |-> "active", scheduled |-> FALSE, latest |-> 1, material |-> <<m>>]

Rotated(k) == [k EXCEPT !.latest = @ + 1,
                        !.material = Append(@, NextMaterial(@[k.latest]))]

\* --key ID=SECRET@N: the key starts rotated to version N.
PresetKey(id, n) ==
    LET m == Drawn("secret", id)
    IN  [NewKey(m) EXCEPT !.latest = n,
                          !.material = [v \in 1 .. n |-> [m EXCEPT !.hashed = v - 1]]]

-----------------------------------------------------------------------------
(* Operations *)

Create ==
    /\ NextID(ids) \in Ids
    /\ drawn < MaxDrawn
    /\ ids' = AfterNext(ids)
    /\ drawn' = drawn + 1
    /\ keys' = [keys EXCEPT ![NextID(ids)] = NewKey(Drawn("random", drawn + 1))]
    /\ UNCHANGED ciphertexts

\* Mutation: only the latest version keeps its material, under every number.
RotateInPlace(id) ==
    /\ HasKey(id) /\ keys[id].status = "active" /\ keys[id].latest < MaxKeyVersion
    /\ keys' = [keys EXCEPT ![id] =
                  LET m == NextMaterial(@.material[@.latest])
                  IN  [@ EXCEPT !.latest = @ + 1, !.material = [v \in 1 .. Len(@) + 1 |-> m]]]
    /\ UNCHANGED <<ids, drawn, ciphertexts>>

Rotate(id) ==
    /\ HasKey(id)
    /\ keys[id].status = "active"
    /\ keys[id].latest < MaxKeyVersion
    /\ keys' = [keys EXCEPT ![id] = Rotated(@)]
    /\ UNCHANGED <<ids, drawn, ciphertexts>>

\* Any status but pending_destruction may be asked for, whatever the status is.
ChangeStatus(id, status) ==
    /\ HasKey(id)
    /\ keys' = [keys EXCEPT ![id].status = status, ![id].scheduled = FALSE]
    /\ UNCHANGED <<ids, drawn, ciphertexts>>

ScheduleDestruction(id) ==
    /\ HasKey(id)
    /\ keys' = [keys EXCEPT ![id].status = "pending_destruction", ![id].scheduled = TRUE]
    /\ UNCHANGED <<ids, drawn, ciphertexts>>

\* The ciphertext names the version it was made with.
Encrypt(id) ==
    LET k == keys[id]
        c == [id |-> id, version |-> k.latest, material |-> k.material[k.latest]]
    IN  /\ HasKey(id)
        /\ k.status = "active"
        /\ Cardinality(ciphertexts \cup {c}) <= MaxCiphertexts
        /\ ciphertexts' = ciphertexts \cup {c}
        /\ UNCHANGED <<ids, keys, drawn>>

\* What Decrypt does not refuse, and GCM opens.
Decrypts(c) ==
    LET k == keys[c.id]
    IN  /\ HasKey(c.id)
        /\ k.status # "suspended"
        /\ c.version \in 1 .. Len(k.material)
        /\ k.material[c.version] = c.material

\* A new process, with the preset keys at versions N.  Ciphertexts of other
\* keys are lost with their keys.
StartKeys(N) ==
    /\ keys' = [id \in Ids |-> IF id \in PresetIds THEN PresetKey(id, N[id]) ELSE None]
    /\ drawn' = 0
    /\ ciphertexts' = {c \in ciphertexts : c.id \in PresetIds}

NextKeys ==
    \/ Create
    \/ \E id \in Ids :
         \/ Rotate(id) \/ ScheduleDestruction(id) \/ Encrypt(id)
         \/ \E status \in Statuses \ {"pending_destruction"} : ChangeStatus(id, status)

-----------------------------------------------------------------------------
(* Safety *)

\* "--key ID=SECRET pre-creates a key ... so the same ciphertext decrypts across
\* restarts": however keys are rotated, suspended, scheduled for destruction
\* and taken up again, and presets restarted, a ciphertext decrypts unless its
\* key is suspended or was restarted at a version before the ciphertext's.
StaysReadable ==
    \A c \in ciphertexts :
        /\ keys[c.id] # None
        /\ keys[c.id].status # "suspended"
        /\ c.id \in PresetIds => c.version <= keys[c.id].latest
        => Decrypts(c)
=============================================================================
