---------------------------- MODULE Suite_proofs ----------------------------
(***************************************************************************)
(* Proofs about the services of `sakumock all` that Suite models, for any  *)
(* preset keys and any number of resources, restarts, key versions,        *)
(* ciphertexts and stored values.                                          *)
(*                                                                         *)
(* IdsDistinct rests on every generator being beyond what it has numbered, *)
(* or will find numbered when the process starts again (IdsInv).  That     *)
(* ciphertexts stay readable rests on the material of a version being a    *)
(* function of the key's origin and the version (KeysInv), and what can be *)
(* unveiled on the versions of a secret being those of a window at the end *)
(* of the values stored under its name (SecretsInv).                       *)
(***************************************************************************)
EXTENDS Suite, Sequences, WellFoundedInduction, TLAPS

KeyAndVaultIds == KeyIds \cup vaultRecords

IdsInv ==
    /\ \A id \in KeyAndVaultIds : id < ids
    /\ \A id \in queues : id < QueueGenerator
    /\ KeyIds \cap vaultRecords = {}
    /\ ~ database => queues \cap KeyAndVaultIds = {}
    /\ PresetIds \subseteq KeyIds

\* The origin of a preset key's material.
Preset(id) == [kind |-> "secret", n |-> id]

\* The material of version v of key k.
HasMaterial(k, v, m) == m.origin = k.material[1].origin /\ m.hashed = v - 1

KeyInv(id) ==
    LET k == keys[id]
    IN  KMS!HasKey(id) =>
          /\ Len(k.material) = k.latest
          /\ \A v \in 1 .. k.latest : HasMaterial(k, v, k.material[v])
          /\ id \in PresetIds => k.material[1].origin = Preset(id)

\* A ciphertext of a preset key may be of a version the key has not reached
\* since it was configured anew.
CiphertextInv(c) ==
    /\ KMS!HasKey(c.id)
    /\ HasMaterial(keys[c.id], c.version, c.material)
    /\ c.id \notin PresetIds => c.version <= keys[c.id].latest

KeysInv ==
    /\ \A id \in Ids : KeyInv(id)
    /\ \A c \in ciphertexts : CiphertextInv(c)

\* What is kept of the values vs stored under a name.
Keeps(sec, vs) ==
    /\ sec.latest = Len(vs)
    /\ DOMAIN sec.versions = {v \in 1 .. Len(vs) : v > Len(vs) - MaxSecretVersions}
    /\ \A v \in DOMAIN sec.versions : sec.versions[v] = vs[v]

HasSecret(vault, name) == vaults[vault] # None /\ vaults[vault][name] # None

SecretInv(vault, name) ==
    /\ Len(stored[vault][name]) <= puts
    /\ IF HasSecret(vault, name) THEN Keeps(vaults[vault][name], stored[vault][name])
                                 ELSE stored[vault][name] = << >>

SecretsInv == \A vault \in Ids, name \in Names : SecretInv(vault, name)

IInv == TypeOK /\ IdsInv /\ KeysInv /\ SecretsInv

-----------------------------------------------------------------------------
(* Sequences of bounded length, and what is largest *)

LEMMA BoundedKeys ==
  ASSUME NEW S, NEW n \in Nat, NEW s
  PROVE  s \in KMS!BoundedSeq(S, n) <=> s \in Seq(S) /\ Len(s) <= n
<1>1. s \in KMS!BoundedSeq(S, n) <=> \E m \in 0 .. n : s \in [1 .. m -> S]
  BY DEF KMS!BoundedSeq, KMS!SeqOf
<1>2. \A m \in Nat : s \in [1 .. m -> S] => s \in Seq(S) /\ Len(s) = m
  OBVIOUS
<1>3. s \in Seq(S) => Len(s) \in Nat /\ s \in [1 .. Len(s) -> S]
  OBVIOUS
<1> QED
  BY <1>1, <1>2, <1>3

LEMMA BoundedValues ==
  ASSUME NEW S, NEW n \in Nat, NEW s
  PROVE  s \in SM!BoundedSeq(S, n) <=> s \in Seq(S) /\ Len(s) <= n
<1>1. s \in SM!BoundedSeq(S, n) <=> \E m \in 0 .. n : s \in [1 .. m -> S]
  BY DEF SM!BoundedSeq, SM!SeqOf
<1>2. \A m \in Nat : s \in [1 .. m -> S] => s \in Seq(S) /\ Len(s) = m
  OBVIOUS
<1>3. s \in Seq(S) => Len(s) \in Nat /\ s \in [1 .. Len(s) -> S]
  OBVIOUS
<1> QED
  BY <1>1, <1>2, <1>3

LEMMA LargestExists ==
  ASSUME NEW n \in Nat, NEW S, S \subseteq 1 .. n, S # {}
  PROVE  \E m \in S : \A x \in S : x <= m
<1> DEFINE T == {n - x : x \in S}
<1>1. T \subseteq Nat /\ T # {}
  <2>1. PICK x \in S : TRUE
    OBVIOUS
  <2>2. n - x \in T
    OBVIOUS
  <2> QED
    BY <2>2
<1>2. PICK m \in T : \A y \in T : ~ (<<y, m>> \in OpToRel(<, Nat))
  BY <1>1, NatLessThanWellFounded, WFMin
<1>3. \A y \in T : y < m => <<y, m>> \in OpToRel(<, Nat)
  BY <1>1 DEF OpToRel
<1>4. \A y \in T : ~ (y < m)
  BY <1>2, <1>3, Zenon
<1>5. PICK x \in S : m = n - x
  OBVIOUS
<1>6. \A y \in S : ~ (n - y < n - x)
  BY <1>4, <1>5
<1> QED
  BY <1>6

\* A generator is beyond what it was told of.
LEMMA BeyondAll ==
  ASSUME NEW base \in Nat \ {0}, NEW S \in SUBSET Ids, S # {}
  PROVE  LET g == Beyond(base, CHOOSE m \in S : \A id \in S : id <= m)
         IN  g \in Nat \ {0} /\ \A id \in S : id < g
<1> DEFINE m == CHOOSE m \in S : \A id \in S : id <= m
<1>1. MaxID \in Nat /\ S \subseteq 1 .. MaxID
  BY SuiteAssumption DEF Ids
<1>2. m \in S /\ \A id \in S : id <= m
  BY <1>1, LargestExists
<1> HIDE DEF m
<1>3. m \in Nat /\ S \subseteq Nat
  <2>1. 1 .. MaxID \subseteq Nat
    BY <1>1
  <2> QED
    BY <1>1, <1>2, <2>1
<1>4. Beyond(base, m) \in Nat \ {0} /\ \A id \in S : id < Beyond(base, m)
  BY <1>2, <1>3 DEF Beyond
<1> QED
  BY <1>4 DEF m

LEMMA SharedBeyond ==
  ASSUME NEW base \in Nat \ {0}
  PROVE  Shared(base) \in Nat \ {0} /\ \A id \in PresetIds : id < Shared(base)
<1>1. CASE PresetIds = {}
  BY <1>1 DEF Shared
<1>2. CASE PresetIds # {}
  BY <1>2, BeyondAll, SuiteAssumption DEF Shared
<1> QED
  BY <1>1, <1>2

LEMMA OpenBeyond ==
  ASSUME NEW base \in Nat \ {0}, NEW old \in SUBSET Ids
  PROVE  Open(base, old) \in Nat \ {0} /\ \A id \in old : id < Open(base, old)
<1>1. CASE old = {}
  BY <1>1 DEF Open
<1>2. CASE old # {}
  BY <1>2, BeyondAll DEF Open
<1> QED
  BY <1>1, <1>2

-----------------------------------------------------------------------------
(* Keys *)

LEMMA KeyTyped ==
  ASSUME NEW k
  PROVE  k \in KMS!Key <=>
           /\ k = [status |-> k.status, scheduled |-> k.scheduled, latest |-> k.latest,
                   material |-> k.material]
           /\ k.status \in KMS!Statuses /\ k.scheduled \in BOOLEAN
           /\ k.latest \in 1 .. MaxKeyVersion
           /\ k.material \in Seq(KMS!Material) /\ Len(k.material) <= MaxKeyVersion
<1>1. k.material \in KMS!BoundedSeq(KMS!Material, MaxKeyVersion) <=>
        k.material \in Seq(KMS!Material) /\ Len(k.material) <= MaxKeyVersion
  BY BoundedKeys, SuiteAssumption
<1> QED
  BY <1>1 DEF KMS!Key

\* A key just made, and a preset one, have what KeyInv says.
LEMMA NewKeyOK ==
  ASSUME NEW n \in 1 .. MaxDrawn
  PROVE  LET k == KMS!NewKey(KMS!Drawn("random", n))
         IN  /\ k \in KMS!Key /\ k # None /\ k.latest = 1 /\ Len(k.material) = 1
             /\ HasMaterial(k, 1, k.material[1])
<1> DEFINE m == KMS!Drawn("random", n)
           k == KMS!NewKey(m)
<1>1. m \in KMS!Material /\ m.hashed = 0
  BY SuiteAssumption DEF KMS!Drawn, KMS!Material, KMS!Origins
<1> HIDE DEF m
<1>2. /\ k.status = "active" /\ k.scheduled = FALSE /\ k.latest = 1 /\ k.material = <<m>>
      /\ k = [status |-> k.status, scheduled |-> k.scheduled, latest |-> k.latest,
              material |-> k.material]
  BY DEF KMS!NewKey
<1>3. k \in KMS!Key
  <2>1. <<m>> \in Seq(KMS!Material) /\ Len(<<m>>) = 1 /\ 1 \in 1 .. MaxKeyVersion
        /\ 1 <= MaxKeyVersion
    BY <1>1, SuiteAssumption
  <2> HIDE DEF k
  <2> QED
    BY <1>2, <2>1, KeyTyped DEF KMS!Statuses
<1> HIDE DEF k
<1>4. Len(k.material) = 1 /\ HasMaterial(k, 1, k.material[1]) /\ k # None
  BY <1>1, <1>2, <1>3, NoneAssumption DEF HasMaterial
<1> QED
  BY <1>2, <1>3, <1>4 DEF k, m

LEMMA PresetKeyOK ==
  ASSUME NEW id \in PresetIds, NEW n \in 1 .. MaxKeyVersion
  PROVE  LET k == KMS!PresetKey(id, n)
         IN  /\ k \in KMS!Key /\ k # None /\ k.latest = n /\ Len(k.material) = n
             /\ \A v \in 1 .. n : HasMaterial(k, v, k.material[v])
             /\ k.material[1].origin = Preset(id)
<1> DEFINE m == KMS!Drawn("secret", id)
           ms == [v \in 1 .. n |-> [m EXCEPT !.hashed = v - 1]]
           k == KMS!PresetKey(id, n)
<1>1. m \in KMS!Material /\ m.hashed = 0 /\ m.origin = Preset(id)
  BY SuiteAssumption DEF KMS!Drawn, KMS!Material, KMS!Origins, Preset
<1> HIDE DEF m
<1>2. \A v \in 1 .. n : /\ ms[v] \in KMS!Material
                        /\ ms[v].origin = Preset(id) /\ ms[v].hashed = v - 1
  BY <1>1, SuiteAssumption DEF KMS!Material
<1>3. ms \in Seq(KMS!Material) /\ Len(ms) = n /\ n \in Nat /\ n <= MaxKeyVersion /\ 1 \in 1 .. n
  <2>1. n \in Nat /\ n <= MaxKeyVersion /\ 1 \in 1 .. n
    BY SuiteAssumption
  <2>2. ms \in [1 .. n -> KMS!Material]
    BY <1>2
  <2> HIDE DEF ms
  <2> QED
    BY <2>1, <2>2
<1>4. /\ k.status = "active" /\ k.scheduled = FALSE /\ k.latest = n /\ k.material = ms
      /\ k = [status |-> k.status, scheduled |-> k.scheduled, latest |-> k.latest,
              material |-> k.material]
  <2>1. k = [KMS!NewKey(m) EXCEPT !.latest = n, !.material = ms]
    BY DEF KMS!PresetKey, m
  <2> HIDE DEF k, ms
  <2> QED
    BY <2>1 DEF KMS!NewKey
<1> HIDE DEF k, ms
<1>5. k \in KMS!Key
  BY <1>3, <1>4, KeyTyped DEF KMS!Statuses
<1>6. k # None /\ k.material[1].origin = Preset(id)
      /\ \A v \in 1 .. n : HasMaterial(k, v, k.material[v])
  BY <1>2, <1>3, <1>4, <1>5, NoneAssumption DEF HasMaterial
<1> QED
  BY <1>3, <1>4, <1>5, <1>6 DEF k

\* Rotating a key adds the material of the next version to it.
LEMMA RotatedOK ==
  ASSUME NEW k \in KMS!Key, Len(k.material) = k.latest, k.latest < MaxKeyVersion,
         \A v \in 1 .. k.latest : HasMaterial(k, v, k.material[v])
  PROVE  LET r == KMS!Rotated(k)
         IN  /\ r \in KMS!Key /\ r # None /\ r.latest = k.latest + 1
             /\ Len(r.material) = r.latest
             /\ r.material[1] = k.material[1]
             /\ \A v \in 1 .. r.latest : HasMaterial(r, v, r.material[v])
<1> DEFINE l == k.latest
           m == KMS!NextMaterial(k.material[l])
           r == KMS!Rotated(k)
<1>1. /\ l \in 1 .. MaxKeyVersion /\ l \in Nat /\ l + 1 \in 1 .. MaxKeyVersion /\ l \in 1 .. l
      /\ 1 \in 1 .. l /\ k.material \in Seq(KMS!Material)
  BY KeyTyped, SuiteAssumption
<1>2. /\ k.material[l] \in KMS!Material /\ k.material[l].hashed = l - 1
      /\ k.material[l].origin = k.material[1].origin
  BY <1>1 DEF HasMaterial
<1>3. m \in KMS!Material /\ m.hashed = l /\ m.origin = k.material[1].origin
  <2>1. l - 1 + 1 = l /\ l \in 0 .. MaxKeyVersion
    BY <1>1, SuiteAssumption
  <2>2. m = [k.material[l] EXCEPT !.hashed = l]
    BY <1>2, <2>1 DEF KMS!NextMaterial
  <2> HIDE DEF m
  <2> QED
    BY <1>2, <2>1, <2>2 DEF KMS!Material
<1>4. /\ r.latest = l + 1 /\ r.material = Append(k.material, m)
      /\ r.status = k.status /\ r.scheduled = k.scheduled
      /\ r = [status |-> r.status, scheduled |-> r.scheduled, latest |-> r.latest,
              material |-> r.material]
  <2>1. r = [k EXCEPT !.latest = l + 1, !.material = Append(k.material, m)]
    BY KeyTyped DEF KMS!Rotated
  <2>2. k = [status |-> k.status, scheduled |-> k.scheduled, latest |-> l,
             material |-> k.material]
    BY KeyTyped
  <2> HIDE DEF r, m
  <2> QED
    BY <2>1, <2>2
<1> HIDE DEF r, m
<1>5. /\ Append(k.material, m) \in Seq(KMS!Material) /\ Len(Append(k.material, m)) = l + 1
      /\ \A v \in 1 .. l : Append(k.material, m)[v] = k.material[v]
      /\ Append(k.material, m)[l + 1] = m
  BY <1>1, <1>3
<1>6. r \in KMS!Key
  <2>1. k.status \in KMS!Statuses /\ k.scheduled \in BOOLEAN
    BY KeyTyped
  <2>2. r.material \in Seq(KMS!Material) /\ Len(r.material) <= MaxKeyVersion
    BY <1>1, <1>4, <1>5, SuiteAssumption
  <2> QED
    BY <1>1, <1>4, <2>1, <2>2, KeyTyped
<1>7. r.material[1] = k.material[1]
  BY <1>1, <1>4, <1>5
<1>8. \A v \in 1 .. l + 1 : HasMaterial(r, v, r.material[v])
  <2>1. \A v \in 1 .. l : HasMaterial(r, v, r.material[v])
    BY <1>1, <1>4, <1>5 DEF HasMaterial
  <2>2. HasMaterial(r, l + 1, r.material[l + 1])
    BY <1>1, <1>3, <1>4, <1>5, <1>7 DEF HasMaterial
  <2> QED
    BY <1>1, <2>1, <2>2
<1> QED
  BY <1>4, <1>5, <1>6, <1>7, <1>8, NoneAssumption DEF r

-----------------------------------------------------------------------------
(* Steps of KMS *)

LEMMA IdsAreNumbers == Ids \subseteq Nat \ {0} /\ MaxID \in Nat
BY SuiteAssumption DEF Ids

\* What a step leaves alone keeps what is said of it.
LEMMA KeysStay == KeysInv /\ UNCHANGED <<keys, ciphertexts>> => KeysInv' /\ KeyIds' = KeyIds
BY DEF KeysInv, KeyInv, CiphertextInv, KMS!HasKey, HasMaterial, KeyIds

LEMMA SecretsStay == SecretsInv /\ UNCHANGED smVars => SecretsInv'
BY DEF SecretsInv, SecretInv, HasSecret, Keeps, smVars

\* A key is made, or one there is becomes k: its origin does not change, and
\* versions are only added to it.
LEMMA KeyBecomes ==
  ASSUME IInv, NEW id \in Ids, NEW k \in KMS!Key, k # None,
         keys' = [keys EXCEPT ![id] = k], UNCHANGED ciphertexts,
         Len(k.material) = k.latest,
         \A v \in 1 .. k.latest : HasMaterial(k, v, k.material[v]),
         KMS!HasKey(id) =>
           k.material[1] = keys[id].material[1] /\ keys[id].latest <= k.latest
  PROVE  /\ keys' \in [Ids -> KMS!Key \cup {None}]
         /\ KeyIds' = KeyIds \cup {id}
         /\ KeysInv'
<1>1. keys \in [Ids -> KMS!Key \cup {None}] /\ ciphertexts \subseteq KMS!Ciphertext
  BY DEF IInv, TypeOK, KMS!KeysTypeOK
<1>2. keys' \in [Ids -> KMS!Key \cup {None}]
  BY <1>1
<1>3. keys'[id] = k /\ \A i \in Ids \ {id} : keys'[i] = keys[i]
  BY <1>1
<1>4. KeyIds' = KeyIds \cup {id}
  BY <1>3 DEF KeyIds, KMS!HasKey
<1>5. id \in PresetIds => KMS!HasKey(id)
  BY DEF IInv, IdsInv, KeyIds
<1>6. \A i \in Ids : KeyInv(i)'
  <2>1. KeyInv(id)'
    <3>1. id \in PresetIds => k.material[1].origin = Preset(id)
      BY <1>5 DEF IInv, KeysInv, KeyInv
    <3> QED
      BY <1>3, <3>1 DEF KeyInv, HasMaterial
  <2>2. ASSUME NEW i \in Ids, i # id
        PROVE  KeyInv(i)'
    <3>1. KeyInv(i) /\ keys'[i] = keys[i]
      BY <1>3, <2>2 DEF IInv, KeysInv
    <3> QED
      BY <3>1 DEF KeyInv, HasMaterial, KMS!HasKey
  <2> QED
    BY <2>1, <2>2
<1>7. ASSUME NEW c \in ciphertexts
      PROVE  CiphertextInv(c)'
  <2>1. CiphertextInv(c) /\ c \in KMS!Ciphertext
    BY <1>1 DEF IInv, KeysInv
  <2>2. c.id \in Ids /\ c.version \in 1 .. MaxKeyVersion
    BY <2>1 DEF KMS!Ciphertext
  <2>3. CASE c.id # id
    <3>1. keys'[c.id] = keys[c.id]
      BY <1>3, <2>2, <2>3
    <3> QED
      BY <2>1, <3>1 DEF CiphertextInv, HasMaterial, KMS!HasKey
  <2>4. CASE c.id = id
    <3>1. KMS!HasKey(id) /\ keys[id] \in KMS!Key
      BY <1>1, <2>1, <2>4 DEF CiphertextInv, KMS!HasKey
    <3>2. /\ k.material[1] = keys[id].material[1] /\ keys[id].latest <= k.latest
          /\ keys[id].latest \in 1 .. MaxKeyVersion /\ k.latest \in 1 .. MaxKeyVersion
      BY <3>1, KeyTyped
    <3>3. HasMaterial(k, c.version, c.material)
      BY <2>1, <2>4, <3>2 DEF CiphertextInv, HasMaterial
    <3>4. id \notin PresetIds => c.version <= k.latest
      BY <2>1, <2>2, <2>4, <3>2, SuiteAssumption DEF CiphertextInv
    <3> QED
      BY <1>3, <2>4, <3>3, <3>4 DEF CiphertextInv, HasMaterial, KMS!HasKey
  <2> QED
    BY <2>3, <2>4
<1> QED
  BY <1>2, <1>4, <1>6, <1>7 DEF KeysInv

LEMMA CreateStep ==
  ASSUME IInv, KMS!Create, UNCHANGED <<database, second, mqVars, smVars>>
  PROVE  IInv'
<1> DEFINE k == KMS!NewKey(KMS!Drawn("random", drawn + 1))
<1>1. /\ ids \in Ids /\ ids' = ids + 1 /\ drawn < MaxDrawn /\ drawn' = drawn + 1
      /\ keys' = [keys EXCEPT ![ids] = k] /\ UNCHANGED ciphertexts
  BY DEF KMS!Create, KMS!NextID, KMS!AfterNext
<1>2. ids \in Nat /\ drawn \in 0 .. MaxDrawn /\ drawn + 1 \in 1 .. MaxDrawn
  BY <1>1, SuiteAssumption DEF IInv, TypeOK, KMS!KeysTypeOK
<1>3. /\ k \in KMS!Key /\ k # None /\ k.latest = 1 /\ Len(k.material) = 1
      /\ HasMaterial(k, 1, k.material[1])
  BY <1>2, NewKeyOK
<1> HIDE DEF k
<1>4. ids \notin KeyIds
  BY <1>1, <1>2 DEF IInv, IdsInv, KeyAndVaultIds
<1>5. ~ KMS!HasKey(ids)
  BY <1>1, <1>4 DEF KeyIds
<1>6. /\ keys' \in [Ids -> KMS!Key \cup {None}]
      /\ KeyIds' = KeyIds \cup {ids}
      /\ KeysInv'
  <2>1. \A v \in 1 .. k.latest : HasMaterial(k, v, k.material[v])
    BY <1>3
  <2> QED
    BY <1>1, <1>3, <1>5, <2>1, KeyBecomes
<1>7. TypeOK'
  BY <1>1, <1>2, <1>6
     DEF IInv, TypeOK, KMS!KeysTypeOK, SM!SecretsTypeOK, mqVars, smVars
<1>8. IdsInv'
  <2>1. KeyAndVaultIds \subseteq Nat /\ queues \subseteq Nat /\ queueIds \in Nat
    BY IdsAreNumbers DEF KeyAndVaultIds, KeyIds, IInv, TypeOK, SM!SecretsTypeOK
  <2>2. KeyAndVaultIds' = KeyAndVaultIds \cup {ids}
    BY <1>6 DEF KeyAndVaultIds, smVars
  <2>3. ids \notin vaultRecords /\ (~ database => ids \notin queues)
    BY <1>2 DEF IInv, IdsInv, KeyAndVaultIds, QueueGenerator
  <2>4. /\ \A id \in KeyAndVaultIds : id < ids
        /\ \A id \in queues : id < QueueGenerator
        /\ KeyIds \cap vaultRecords = {}
        /\ ~ database => queues \cap KeyAndVaultIds = {}
        /\ PresetIds \subseteq KeyIds
    BY DEF IInv, IdsInv
  <2>5. \A id \in KeyAndVaultIds' : id < ids'
    BY <1>1, <1>2, <2>1, <2>2, <2>4
  <2>6. \A id \in queues' : id < QueueGenerator'
    BY <1>1, <1>2, <2>1, <2>4 DEF QueueGenerator, mqVars
  <2> QED
    BY <1>6, <2>2, <2>3, <2>4, <2>5, <2>6 DEF IdsInv, mqVars, smVars
<1>9. SecretsInv'
  BY SecretsStay DEF IInv
<1> QED
  BY <1>6, <1>7, <1>8, <1>9 DEF IInv

\* A step that changes a key there is.
LEMMA KeyStep ==
  ASSUME IInv, NEW id \in Ids, KMS!HasKey(id), NEW k \in KMS!Key, k # None,
         keys' = [keys EXCEPT ![id] = k], UNCHANGED <<ids, drawn, ciphertexts>>,
         Len(k.material) = k.latest,
         \A v \in 1 .. k.latest : HasMaterial(k, v, k.material[v]),
         k.material[1] = keys[id].material[1], keys[id].latest <= k.latest,
         UNCHANGED <<database, second, mqVars, smVars>>
  PROVE  IInv'
<1>1. /\ keys' \in [Ids -> KMS!Key \cup {None}]
      /\ KeyIds' = KeyIds \cup {id}
      /\ KeysInv'
  BY KeyBecomes
<1>2. KeyIds' = KeyIds
  BY <1>1 DEF KeyIds
<1>3. TypeOK'
  BY <1>1 DEF IInv, TypeOK, KMS!KeysTypeOK, SM!SecretsTypeOK, mqVars, smVars
<1>4. IdsInv'
  BY <1>2 DEF IInv, IdsInv, KeyAndVaultIds, QueueGenerator, mqVars, smVars
<1>5. SecretsInv'
  BY SecretsStay DEF IInv
<1> QED
  BY <1>1, <1>3, <1>4, <1>5 DEF IInv

LEMMA KeyThere ==
  ASSUME IInv, NEW id \in Ids, KMS!HasKey(id)
  PROVE  LET k == keys[id]
         IN  /\ k \in KMS!Key /\ k.latest \in 1 .. MaxKeyVersion
             /\ Len(k.material) = k.latest
             /\ \A v \in 1 .. k.latest : HasMaterial(k, v, k.material[v])
<1>1. keys[id] \in KMS!Key
  BY DEF IInv, TypeOK, KMS!KeysTypeOK, KMS!HasKey
<1> QED
  BY <1>1, KeyTyped DEF IInv, KeysInv, KeyInv

LEMMA RotateStep ==
  ASSUME IInv, NEW id \in Ids, KMS!Rotate(id), UNCHANGED <<database, second, mqVars, smVars>>
  PROVE  IInv'
<1> DEFINE k == keys[id]
           r == KMS!Rotated(k)
<1>1. /\ KMS!HasKey(id) /\ k.latest < MaxKeyVersion
      /\ keys' = [keys EXCEPT ![id] = r] /\ UNCHANGED <<ids, drawn, ciphertexts>>
  BY DEF KMS!Rotate
<1>2. /\ k \in KMS!Key /\ k.latest \in 1 .. MaxKeyVersion /\ Len(k.material) = k.latest
      /\ \A v \in 1 .. k.latest : HasMaterial(k, v, k.material[v])
  BY <1>1, KeyThere
<1>3. /\ r \in KMS!Key /\ r # None /\ r.latest = k.latest + 1
      /\ Len(r.material) = r.latest
      /\ r.material[1] = k.material[1]
      /\ \A v \in 1 .. r.latest : HasMaterial(r, v, r.material[v])
  BY <1>1, <1>2, RotatedOK
<1>4. k.latest <= r.latest
  BY <1>2, <1>3, SuiteAssumption
<1> HIDE DEF r
<1> QED
  BY <1>1, <1>3, <1>4, KeyStep

LEMMA WithStatus ==
  ASSUME NEW k \in KMS!Key, NEW status, NEW scheduled, NEW r,
         r = [k EXCEPT !.status = status, !.scheduled = scheduled]
  PROVE  r = [status |-> status, scheduled |-> scheduled, latest |-> k.latest,
              material |-> k.material]
<1>1. k = [status |-> k.status, scheduled |-> k.scheduled, latest |-> k.latest,
           material |-> k.material]
  BY KeyTyped
<1> QED
  BY <1>1

\* What has no say in what can be decrypted: the status, and the date of destruction.
LEMMA StatusStep ==
  ASSUME IInv, NEW id \in Ids, KMS!HasKey(id), NEW status \in KMS!Statuses,
         NEW scheduled \in BOOLEAN,
         keys' = [keys EXCEPT ![id].status = status, ![id].scheduled = scheduled],
         UNCHANGED <<ids, drawn, ciphertexts>>, UNCHANGED <<database, second, mqVars, smVars>>
  PROVE  IInv'
<1> DEFINE k == keys[id]
           r == [status |-> status, scheduled |-> scheduled, latest |-> k.latest,
                 material |-> k.material]
<1>1. /\ k \in KMS!Key /\ k.latest \in 1 .. MaxKeyVersion /\ Len(k.material) = k.latest
      /\ \A v \in 1 .. k.latest : HasMaterial(k, v, k.material[v])
  BY KeyThere
<1>2. k = [status |-> k.status, scheduled |-> k.scheduled, latest |-> k.latest,
           material |-> k.material]
  BY <1>1, KeyTyped
<1>3. keys' = [keys EXCEPT ![id] = r]
  <2>1. [k EXCEPT !.status = status, !.scheduled = scheduled] = r
    BY <1>1, WithStatus
  <2>2. keys \in [Ids -> KMS!Key \cup {None}]
    BY DEF IInv, TypeOK, KMS!KeysTypeOK
  <2>3. keys' = [keys EXCEPT ![id] = [k EXCEPT !.status = status, !.scheduled = scheduled]]
    BY <1>2, <2>2
  <2> QED
    BY <2>1, <2>3
<1>4. r.latest = k.latest /\ r.material = k.material
  OBVIOUS
<1>5. r \in KMS!Key
  <2>1. k.material \in Seq(KMS!Material) /\ Len(k.material) <= MaxKeyVersion
    BY <1>1, KeyTyped
  <2> QED
    BY <1>1, <2>1, KeyTyped
<1>6. r # None /\ k.latest <= r.latest
  BY <1>1, <1>4, <1>5, NoneAssumption, SuiteAssumption
<1>7. \A v \in 1 .. r.latest : HasMaterial(r, v, r.material[v])
  BY <1>1, <1>4 DEF HasMaterial
<1> HIDE DEF r
<1> QED
  BY <1>1, <1>3, <1>4, <1>5, <1>6, <1>7, KeyStep

LEMMA EncryptStep ==
  ASSUME IInv, NEW id \in Ids, KMS!Encrypt(id), UNCHANGED <<database, second, mqVars, smVars>>
  PROVE  IInv'
<1> DEFINE k == keys[id]
           c == [id |-> id, version |-> k.latest, material |-> k.material[k.latest]]
<1>1. /\ KMS!HasKey(id) /\ ciphertexts' = ciphertexts \cup {c} /\ UNCHANGED <<ids, keys, drawn>>
  BY DEF KMS!Encrypt
<1>2. /\ k \in KMS!Key /\ k.latest \in 1 .. MaxKeyVersion /\ Len(k.material) = k.latest
      /\ k.latest \in 1 .. k.latest /\ k.latest <= k.latest
      /\ \A v \in 1 .. k.latest : HasMaterial(k, v, k.material[v])
  BY <1>1, KeyThere, SuiteAssumption
<1>3. k.material[k.latest] \in KMS!Material
  <2>1. k.material \in Seq(KMS!Material)
    BY <1>2, KeyTyped
  <2> QED
    BY <1>2, <2>1
<1>4. c \in KMS!Ciphertext
  BY <1>2, <1>3 DEF KMS!Ciphertext
<1>5. TypeOK'
  BY <1>1, <1>4 DEF IInv, TypeOK, KMS!KeysTypeOK, SM!SecretsTypeOK, mqVars, smVars
<1>6. KeyIds' = KeyIds
  BY <1>1 DEF KeyIds, KMS!HasKey
<1>7. IdsInv'
  BY <1>1, <1>6 DEF IInv, IdsInv, KeyAndVaultIds, QueueGenerator, mqVars, smVars
<1>8. CiphertextInv(c)
  BY <1>1, <1>2 DEF CiphertextInv, HasMaterial
<1>9. KeysInv'
  <2>1. \A i \in Ids : KeyInv(i)'
    BY <1>1 DEF IInv, KeysInv, KeyInv, HasMaterial, KMS!HasKey
  <2>2. \A d \in ciphertexts \cup {c} : CiphertextInv(d)
    BY <1>8 DEF IInv, KeysInv
  <2>3. \A d \in ciphertexts' : CiphertextInv(d)'
    BY <1>1, <2>2 DEF CiphertextInv, HasMaterial, KMS!HasKey
  <2> QED
    BY <2>1, <2>3 DEF KeysInv
<1>10. SecretsInv'
  BY SecretsStay DEF IInv
<1> QED
  BY <1>5, <1>7, <1>9, <1>10 DEF IInv

LEMMA KeysSteps ==
  ASSUME IInv, KMS!NextKeys, UNCHANGED <<database, second, mqVars, smVars>>
  PROVE  IInv'
<1>1. ASSUME NEW id \in Ids, KMS!ScheduleDestruction(id)
      PROVE  IInv'
  BY <1>1, StatusStep, Zenon DEF KMS!ScheduleDestruction, KMS!Statuses
<1>2. ASSUME NEW id \in Ids, NEW status \in KMS!Statuses \ {"pending_destruction"},
             KMS!ChangeStatus(id, status)
      PROVE  IInv'
  BY <1>2, StatusStep, Zenon DEF KMS!ChangeStatus
<1> QED
  BY <1>1, <1>2, CreateStep, RotateStep, EncryptStep DEF KMS!NextKeys

-----------------------------------------------------------------------------
(* Steps of Secret Manager *)

\* The window moves on by one value.
LEMMA WindowMoves ==
  ASSUME NEW vs \in Seq(Values), NEW value \in Values, Len(vs) < MaxStored, NEW before,
         DOMAIN before = {v \in 1 .. Len(vs) : v > Len(vs) - MaxSecretVersions},
         \A v \in DOMAIN before : before[v] = vs[v]
  PROVE  LET latest == Len(vs) + 1
             added  == [v \in DOMAIN before \cup {latest} |->
                          IF v = latest THEN value ELSE before[v]]
             sec    == [latest |-> latest, versions |-> SM!DropOldest(added, latest)]
         IN  sec \in SM!Secret /\ Keeps(sec, Append(vs, value))
<1> DEFINE latest == Len(vs) + 1
           added  == [v \in DOMAIN before \cup {latest} |->
                        IF v = latest THEN value ELSE before[v]]
           versions == SM!DropOldest(added, latest)
           sec == [latest |-> latest, versions |-> versions]
           next == Append(vs, value)
           D == {v \in 1 .. latest : v > latest - MaxSecretVersions}
<1>1. Len(vs) \in Nat /\ latest \in 1 .. MaxStored /\ MaxSecretVersions \in Nat
  BY SuiteAssumption
<1>2. /\ next \in Seq(Values) /\ Len(next) = latest /\ next[latest] = value
      /\ \A v \in 1 .. Len(vs) : next[v] = vs[v]
  OBVIOUS
<1> HIDE DEF next
<1>3. (DOMAIN before \cup {latest}) \ {latest - MaxSecretVersions} = D
  BY <1>1
<1>4. versions = [v \in D |-> added[v]]
  BY <1>3 DEF SM!DropOldest
<1>5. \A v \in D : v \in DOMAIN before \cup {latest}
  BY <1>3
<1>6. \A v \in D : added[v] = next[v] /\ next[v] \in Values
  <2>1. \A v \in DOMAIN before : v \in 1 .. Len(vs) /\ v # latest
    BY <1>1
  <2>2. \A v \in D : v \in 1 .. Len(next)
    BY <1>1, <1>2
  <2> QED
    BY <1>2, <1>5, <2>1, <2>2
<1> HIDE DEF added, versions
<1>7. DOMAIN versions = D /\ \A v \in D : versions[v] = next[v]
  BY <1>4, <1>6
<1>8. versions \in [D -> Values]
  BY <1>4, <1>6
<1>9. D \in SUBSET (1 .. MaxStored)
  <2>1. latest \in Nat /\ latest <= MaxStored /\ MaxStored \in Nat
    BY <1>1, SuiteAssumption
  <2> HIDE DEF latest
  <2>2. 1 .. latest \subseteq 1 .. MaxStored
    BY <2>1
  <2> QED
    BY <2>2
<1> HIDE DEF latest
<1>10. sec \in SM!Secret
  <2> HIDE DEF D
  <2> QED
    BY <1>1, <1>8, <1>9 DEF SM!Secret
<1>11. Keeps(sec, next)
  BY <1>2, <1>7 DEF Keeps
<1> QED
  BY <1>10, <1>11 DEF latest, added, versions, next

LEMMA WithVersionOK ==
  ASSUME NEW vs \in Seq(Values), NEW value \in Values, Len(vs) < MaxStored, NEW sec,
         IF sec = None THEN vs = << >> ELSE Keeps(sec, vs)
  PROVE  LET w == SM!WithVersion(sec, value)
         IN  w \in SM!Secret /\ w # None /\ Keeps(w, Append(vs, value))
<1> DEFINE before == IF sec = None THEN << >> ELSE sec.versions
           w == SM!WithVersion(sec, value)
<1>1. /\ DOMAIN before = {v \in 1 .. Len(vs) : v > Len(vs) - MaxSecretVersions}
      /\ \A v \in DOMAIN before : before[v] = vs[v]
  <2>1. CASE sec = None
    BY <2>1
  <2>2. CASE sec # None
    BY <2>2 DEF Keeps
  <2> QED
    BY <2>1, <2>2
<1>2. (IF sec = None THEN 1 ELSE sec.latest + 1) = Len(vs) + 1
  BY DEF Keeps
<1>3. w = LET latest == Len(vs) + 1
              added  == [v \in DOMAIN before \cup {latest} |->
                           IF v = latest THEN value ELSE before[v]]
          IN  [latest |-> latest, versions |-> SM!DropOldest(added, latest)]
  BY <1>2 DEF SM!WithVersion
<1> HIDE DEF before, w
<1>4. w \in SM!Secret /\ Keeps(w, Append(vs, value))
  BY <1>1, <1>3, WindowMoves
<1> QED
  BY <1>4, NoneAssumption DEF w

\* What a step of Secret Manager leaves as it was.
LEMMA SecretStays ==
  ASSUME IInv, NEW i \in Ids, NEW n \in Names, puts' \in Nat, puts <= puts',
         stored'[i][n] = stored[i][n],
         HasSecret(i, n)' <=> HasSecret(i, n),
         HasSecret(i, n) => vaults'[i][n] = vaults[i][n]
  PROVE  SecretInv(i, n)'
<1>1. SecretInv(i, n)
  BY DEF IInv, SecretsInv
<1>2. puts \in Nat /\ Len(stored[i][n]) \in Nat
  <2>1. stored[i][n] \in SM!BoundedSeq(Values, MaxStored)
    BY DEF IInv, TypeOK, SM!SecretsTypeOK
  <2>2. puts \in Nat
    BY SuiteAssumption DEF IInv, TypeOK, SM!SecretsTypeOK
  <2> QED
    BY <2>1, <2>2, BoundedValues, SuiteAssumption
<1> QED
  BY <1>1, <1>2 DEF SecretInv, Keeps

LEMMA SecretsTyped ==
  ASSUME IInv
  PROVE  /\ vaults \in [Ids -> [Names -> SM!Secret \cup {None}] \cup {None}]
         /\ stored \in [Ids -> [Names -> SM!BoundedSeq(Values, MaxStored)]]
         /\ \A i \in Ids, n \in Names :
              stored[i][n] \in Seq(Values) /\ Len(stored[i][n]) <= MaxStored
         /\ puts \in Nat /\ puts <= MaxStored /\ MaxStored \in Nat
         /\ << >> \in SM!BoundedSeq(Values, MaxStored)
<1>1. /\ vaults \in [Ids -> [Names -> SM!Secret \cup {None}] \cup {None}]
      /\ stored \in [Ids -> [Names -> SM!BoundedSeq(Values, MaxStored)]]
      /\ puts \in 0 .. MaxStored
  BY DEF IInv, TypeOK, SM!SecretsTypeOK
<1>2. puts \in Nat /\ puts <= MaxStored /\ MaxStored \in Nat
  BY <1>1, SuiteAssumption
<1>3. \A i \in Ids, n \in Names : stored[i][n] \in SM!BoundedSeq(Values, MaxStored)
  BY <1>1
<1>4. << >> \in Seq(Values) /\ Len(<< >>) <= MaxStored
  BY <1>2
<1> QED
  BY <1>1, <1>2, <1>3, <1>4, BoundedValues

LEMMA KeysUntouched ==
  ASSUME IInv, UNCHANGED <<database, second, mqVars, kmsVars, ids, vaultRecords>>
  PROVE  IdsInv' /\ KeysInv'
<1>1. KeysInv' /\ KeyIds' = KeyIds
  BY KeysStay DEF IInv, kmsVars
<1> QED
  BY <1>1 DEF IInv, IdsInv, KeyAndVaultIds, QueueGenerator, mqVars

LEMMA StoreSecretStep ==
  ASSUME IInv, NEW vault \in Ids, NEW name \in Names, NEW value \in Values,
         SM!StoreSecret(vault, name, value), UNCHANGED <<database, second, mqVars, kmsVars>>
  PROVE  IInv'
<1> DEFINE place == IF vaults[vault] = None THEN SM!Empty ELSE vaults[vault]
           vs == stored[vault][name]
           w == SM!WithVersion(place[name], value)
           next == Append(vs, value)
<1>1. /\ puts < MaxStored /\ puts' = puts + 1 /\ UNCHANGED <<ids, vaultRecords>>
      /\ vaults' = [vaults EXCEPT ![vault] = [place EXCEPT ![name] = w]]
      /\ stored' = [stored EXCEPT ![vault][name] = next]
  <2>1. /\ puts < MaxStored /\ puts' = puts + 1 /\ UNCHANGED <<ids, vaultRecords>>
        /\ vaults' = [vaults EXCEPT ![vault] =
                         [place EXCEPT ![name] = SM!WithVersion(@, value)]]
        /\ stored' = [stored EXCEPT ![vault][name] = Append(@, value)]
    BY DEF SM!StoreSecret
  <2> QED
    BY <2>1
<1>2. /\ vaults \in [Ids -> [Names -> SM!Secret \cup {None}] \cup {None}]
      /\ stored \in [Ids -> [Names -> SM!BoundedSeq(Values, MaxStored)]]
      /\ vs \in Seq(Values) /\ Len(vs) \in Nat
      /\ puts \in Nat /\ puts <= MaxStored /\ MaxStored \in Nat
  BY SecretsTyped
<1>3. place \in [Names -> SM!Secret \cup {None}]
  <2>1. SM!Empty \in [Names -> SM!Secret \cup {None}]
    BY DEF SM!Empty
  <2> QED
    BY <1>2, <2>1
<1>4. SecretInv(vault, name)
  BY DEF IInv, SecretsInv
<1>5. Len(vs) <= puts /\ Len(vs) < MaxStored
  BY <1>1, <1>2, <1>4 DEF SecretInv
<1>6. IF place[name] = None THEN vs = << >> ELSE Keeps(place[name], vs)
  BY <1>4 DEF SecretInv, HasSecret, SM!Empty
<1>7. w \in SM!Secret /\ w # None /\ Keeps(w, next)
  BY <1>2, <1>5, <1>6, WithVersionOK
<1>8. next \in Seq(Values) /\ Len(next) = Len(vs) + 1
  BY <1>2
<1>9. next \in SM!BoundedSeq(Values, MaxStored)
  <2>1. Len(next) <= MaxStored /\ MaxStored \in Nat
    BY <1>2, <1>5, <1>8
  <2> QED
    BY <1>8, <2>1, BoundedValues
<1> DEFINE row == [place EXCEPT ![name] = w]
<1>10. row \in [Names -> SM!Secret \cup {None}] /\ row[name] = w /\ row # None
       /\ \A n \in Names \ {name} : row[n] = place[n]
  <2> HIDE DEF place, w
  <2>1. row \in [Names -> SM!Secret \cup {None}]
    BY <1>3, <1>7
  <2> QED
    BY <1>3, <2>1, NoneAssumption
<1> HIDE DEF w, next, row
<1>11. /\ vaults' \in [Ids -> [Names -> SM!Secret \cup {None}] \cup {None}]
       /\ vaults'[vault] = row /\ \A i \in Ids \ {vault} : vaults'[i] = vaults[i]
  BY <1>1, <1>2, <1>10 DEF row
<1>12. /\ stored' \in [Ids -> [Names -> SM!BoundedSeq(Values, MaxStored)]]
       /\ stored'[vault][name] = next
       /\ \A i \in Ids, n \in Names : <<i, n>> # <<vault, name>> => stored'[i][n] = stored[i][n]
  BY <1>1, <1>2, <1>9
<1>13. TypeOK'
  <2>1. puts' \in 0 .. MaxStored
    BY <1>1, <1>2
  <2> QED
    BY <1>1, <1>11, <1>12, <2>1
       DEF IInv, TypeOK, KMS!KeysTypeOK, SM!SecretsTypeOK, mqVars, kmsVars
<1>14. SecretInv(vault, name)'
  <2>1. stored'[vault][name] = next /\ vaults'[vault] # None /\ vaults'[vault][name] = w
    BY <1>10, <1>11, <1>12
  <2>2. Len(next) <= puts'
    BY <1>1, <1>2, <1>5, <1>8
  <2> QED
    BY <1>7, <2>1, <2>2 DEF SecretInv, HasSecret
<1>15. ASSUME NEW i \in Ids, NEW n \in Names, <<i, n>> # <<vault, name>>
       PROVE  SecretInv(i, n)'
  <2>1. puts' \in Nat /\ puts <= puts' /\ stored'[i][n] = stored[i][n]
    BY <1>1, <1>2, <1>12, <1>15
  <2>2. CASE i # vault
    <3>1. vaults'[i] = vaults[i]
      BY <1>11, <2>2
    <3> QED
      BY <2>1, <3>1, SecretStays DEF HasSecret
  <2>3. CASE i = vault
    <3>1. n # name /\ vaults'[i][n] = place[n] /\ vaults'[i] # None
      BY <1>10, <1>11, <1>15, <2>3
    <3>2. HasSecret(i, n)' <=> HasSecret(i, n)
      BY <2>3, <3>1 DEF HasSecret, SM!Empty
    <3>3. HasSecret(i, n) => vaults'[i][n] = vaults[i][n]
      BY <2>3, <3>1 DEF HasSecret
    <3> QED
      BY <2>1, <3>2, <3>3, SecretStays
  <2> QED
    BY <2>2, <2>3
<1>16. SecretsInv'
  BY <1>14, <1>15 DEF SecretsInv
<1>17. IdsInv' /\ KeysInv'
  BY <1>1, KeysUntouched
<1> QED
  BY <1>13, <1>16, <1>17 DEF IInv

LEMMA DeleteSecretStep ==
  ASSUME IInv, NEW vault \in Ids, NEW name \in Names,
         SM!DeleteSecret(vault, name), UNCHANGED <<database, second, mqVars, kmsVars>>
  PROVE  IInv'
<1>1. /\ vaults[vault] # None /\ UNCHANGED <<ids, vaultRecords, puts>>
      /\ vaults' = [vaults EXCEPT ![vault][name] = None]
      /\ stored' = [stored EXCEPT ![vault][name] = << >>]
  BY DEF SM!DeleteSecret
<1>2. /\ vaults \in [Ids -> [Names -> SM!Secret \cup {None}] \cup {None}]
      /\ stored \in [Ids -> [Names -> SM!BoundedSeq(Values, MaxStored)]]
      /\ puts \in Nat /\ << >> \in SM!BoundedSeq(Values, MaxStored)
  BY SecretsTyped
<1> DEFINE row == [vaults[vault] EXCEPT ![name] = None]
<1>3. vaults[vault] \in [Names -> SM!Secret \cup {None}]
  BY <1>1, <1>2
<1>4. /\ row \in [Names -> SM!Secret \cup {None}] /\ row[name] = None /\ row # None
      /\ \A n \in Names \ {name} : row[n] = vaults[vault][n]
  <2>1. row \in [Names -> SM!Secret \cup {None}]
    BY <1>3
  <2> QED
    BY <1>3, <2>1, NoneAssumption
<1>5. /\ vaults' \in [Ids -> [Names -> SM!Secret \cup {None}] \cup {None}]
      /\ vaults'[vault] = row /\ \A i \in Ids \ {vault} : vaults'[i] = vaults[i]
  <2>1. vaults' = [vaults EXCEPT ![vault] = row]
    BY <1>1
  <2> HIDE DEF row
  <2> QED
    BY <1>2, <1>4, <2>1
<1> HIDE DEF row
<1>6. /\ stored' \in [Ids -> [Names -> SM!BoundedSeq(Values, MaxStored)]]
      /\ stored'[vault][name] = << >>
      /\ \A i \in Ids, n \in Names : <<i, n>> # <<vault, name>> => stored'[i][n] = stored[i][n]
  BY <1>1, <1>2
<1>7. TypeOK'
  BY <1>1, <1>5, <1>6 DEF IInv, TypeOK, KMS!KeysTypeOK, SM!SecretsTypeOK, mqVars, kmsVars
<1>8. SecretInv(vault, name)'
  BY <1>1, <1>2, <1>4, <1>5, <1>6 DEF SecretInv, HasSecret
<1>9. ASSUME NEW i \in Ids, NEW n \in Names, <<i, n>> # <<vault, name>>
      PROVE  SecretInv(i, n)'
  <2>1. puts' \in Nat /\ puts <= puts' /\ stored'[i][n] = stored[i][n]
    BY <1>1, <1>2, <1>6, <1>9
  <2>2. /\ vaults'[i] # None <=> vaults[i] # None
        /\ vaults[i] # None => vaults'[i][n] = vaults[i][n]
    BY <1>1, <1>4, <1>5, <1>9
  <2> QED
    BY <2>1, <2>2, SecretStays DEF HasSecret
<1>10. SecretsInv'
  BY <1>8, <1>9 DEF SecretsInv
<1>11. IdsInv' /\ KeysInv'
  BY <1>1, KeysUntouched
<1> QED
  BY <1>7, <1>10, <1>11 DEF IInv

LEMMA DeleteVaultStep ==
  ASSUME IInv, NEW vault \in Ids, SM!DeleteVault(vault),
         UNCHANGED <<database, second, mqVars, kmsVars>>
  PROVE  IInv'
<1>1. /\ vaultRecords' = vaultRecords \ {vault} /\ UNCHANGED <<ids, puts>>
      /\ vaults' = [vaults EXCEPT ![vault] = None]
      /\ stored' = [stored EXCEPT ![vault] = SM!Nothing]
  BY DEF SM!DeleteVault
<1>2. /\ vaults \in [Ids -> [Names -> SM!Secret \cup {None}] \cup {None}]
      /\ stored \in [Ids -> [Names -> SM!BoundedSeq(Values, MaxStored)]]
      /\ puts \in Nat /\ << >> \in SM!BoundedSeq(Values, MaxStored)
  BY SecretsTyped
<1>3. SM!Nothing \in [Names -> SM!BoundedSeq(Values, MaxStored)]
      /\ \A n \in Names : SM!Nothing[n] = << >>
  BY <1>2 DEF SM!Nothing
<1>4. /\ vaults' \in [Ids -> [Names -> SM!Secret \cup {None}] \cup {None}]
      /\ vaults'[vault] = None /\ \A i \in Ids \ {vault} : vaults'[i] = vaults[i]
  BY <1>1, <1>2
<1>5. /\ stored' \in [Ids -> [Names -> SM!BoundedSeq(Values, MaxStored)]]
      /\ stored'[vault] = SM!Nothing /\ \A i \in Ids \ {vault} : stored'[i] = stored[i]
  BY <1>1, <1>2, <1>3
<1>6. TypeOK'
  BY <1>1, <1>4, <1>5 DEF IInv, TypeOK, KMS!KeysTypeOK, SM!SecretsTypeOK, mqVars, kmsVars
<1>7. ASSUME NEW n \in Names
      PROVE  SecretInv(vault, n)'
  BY <1>1, <1>2, <1>3, <1>4, <1>5 DEF SecretInv, HasSecret
<1>8. ASSUME NEW i \in Ids \ {vault}, NEW n \in Names
      PROVE  SecretInv(i, n)'
  <2>1. puts' \in Nat /\ puts <= puts' /\ stored'[i][n] = stored[i][n] /\ vaults'[i] = vaults[i]
    BY <1>1, <1>2, <1>4, <1>5
  <2> QED
    BY <2>1, SecretStays DEF HasSecret
<1>9. SecretsInv'
  BY <1>7, <1>8 DEF SecretsInv
<1>10. KeysInv' /\ KeyIds' = KeyIds
  BY KeysStay DEF IInv, kmsVars
<1>11. IdsInv'
  BY <1>1, <1>10 DEF IInv, IdsInv, KeyAndVaultIds, QueueGenerator, mqVars
<1> QED
  BY <1>6, <1>9, <1>10, <1>11 DEF IInv

LEMMA CreateVaultStep ==
  ASSUME IInv, SM!CreateVault, UNCHANGED <<database, second, mqVars, kmsVars>>
  PROVE  IInv'
<1>1. /\ ids \in Ids /\ ids' = ids + 1 /\ vaultRecords' = vaultRecords \cup {ids}
      /\ UNCHANGED <<vaults, stored, puts>>
  BY DEF SM!CreateVault, SM!NextID, SM!AfterNext
<1>2. ids \in Nat
  BY DEF IInv, TypeOK
<1>3. TypeOK'
  BY <1>1, <1>2 DEF IInv, TypeOK, KMS!KeysTypeOK, SM!SecretsTypeOK, mqVars, kmsVars
<1>4. KeysInv' /\ KeyIds' = KeyIds
  BY KeysStay DEF IInv, kmsVars
<1>5. SecretsInv'
  BY <1>1 DEF IInv, SecretsInv, SecretInv, HasSecret, Keeps
<1>6. IdsInv'
  <2>1. KeyAndVaultIds \subseteq Nat /\ queues \subseteq Nat /\ queueIds \in Nat
    BY IdsAreNumbers DEF KeyAndVaultIds, KeyIds, IInv, TypeOK, SM!SecretsTypeOK
  <2>2. KeyAndVaultIds' = KeyAndVaultIds \cup {ids}
    BY <1>1, <1>4 DEF KeyAndVaultIds
  <2>3. ids \notin KeyIds /\ (~ database => ids \notin queues)
    BY <1>2 DEF IInv, IdsInv, KeyAndVaultIds, QueueGenerator
  <2>4. /\ \A id \in KeyAndVaultIds : id < ids
        /\ \A id \in queues : id < QueueGenerator
        /\ KeyIds \cap vaultRecords = {}
        /\ ~ database => queues \cap KeyAndVaultIds = {}
        /\ PresetIds \subseteq KeyIds
    BY DEF IInv, IdsInv
  <2>5. \A id \in KeyAndVaultIds' : id < ids'
    BY <1>1, <1>2, <2>1, <2>2, <2>4
  <2>6. \A id \in queues' : id < QueueGenerator'
    BY <1>1, <1>2, <2>1, <2>4 DEF QueueGenerator, mqVars
  <2> QED
    BY <1>1, <1>4, <2>2, <2>3, <2>4, <2>5, <2>6 DEF IdsInv, mqVars
<1> QED
  BY <1>3, <1>4, <1>5, <1>6 DEF IInv

LEMMA SecretsSteps ==
  ASSUME IInv, SM!NextSecrets, UNCHANGED <<database, second, mqVars, kmsVars>>
  PROVE  IInv'
BY CreateVaultStep, DeleteVaultStep, DeleteSecretStep, StoreSecretStep DEF SM!NextSecrets

-----------------------------------------------------------------------------
(* Steps of SimpleMQ, and of the process *)

LEMMA CreateQueueStep ==
  ASSUME IInv, CreateQueue, UNCHANGED <<database, second, kmsVars, smVars>>
  PROVE  IInv'
<1> DEFINE g == QueueGenerator
<1>1. /\ g \in Ids /\ queues' = queues \cup {g}
      /\ IF database THEN queueIds' = queueIds + 1 /\ UNCHANGED ids
                     ELSE ids' = ids + 1 /\ UNCHANGED queueIds
  BY DEF CreateQueue, NextID, AfterNext
<1>2. ids \in Nat \ {0} /\ queueIds \in Nat \ {0}
  BY DEF IInv, TypeOK
<1>3. g = IF database THEN queueIds ELSE ids
  BY DEF QueueGenerator
<1>4. QueueGenerator' = g + 1
  BY <1>1 DEF QueueGenerator
<1> HIDE DEF g
<1>5. TypeOK'
  <2>1. ids' \in Nat \ {0} /\ queueIds' \in Nat \ {0} /\ queues' \subseteq Ids
    BY <1>1, <1>2 DEF IInv, TypeOK
  <2> QED
    BY <2>1 DEF IInv, TypeOK, KMS!KeysTypeOK, SM!SecretsTypeOK, kmsVars, smVars
<1>6. KeysInv' /\ KeyIds' = KeyIds
  BY KeysStay DEF IInv, kmsVars
<1>7. SecretsInv'
  BY SecretsStay DEF IInv
<1>8. IdsInv'
  <2>1. KeyAndVaultIds \subseteq Nat /\ queues \subseteq Nat
    BY IdsAreNumbers DEF KeyAndVaultIds, KeyIds, IInv, TypeOK, SM!SecretsTypeOK
  <2>2. KeyAndVaultIds' = KeyAndVaultIds
    BY <1>6 DEF KeyAndVaultIds, smVars
  <2>3. /\ \A id \in KeyAndVaultIds : id < ids
        /\ \A id \in queues : id < g
        /\ KeyIds \cap vaultRecords = {}
        /\ ~ database => queues \cap KeyAndVaultIds = {}
        /\ PresetIds \subseteq KeyIds
    BY DEF IInv, IdsInv, g
  <2>4. \A id \in KeyAndVaultIds' : id < ids'
    BY <1>1, <1>2, <2>1, <2>2, <2>3
  <2>5. \A id \in queues' : id < QueueGenerator'
    BY <1>1, <1>2, <1>3, <1>4, <2>1, <2>3
  <2>6. ~ database => g \notin KeyAndVaultIds
    BY <1>2, <1>3, <2>3
  <2> QED
    BY <1>1, <1>6, <2>2, <2>3, <2>4, <2>5, <2>6 DEF IdsInv, smVars
<1> QED
  BY <1>5, <1>6, <1>7, <1>8 DEF IInv

LEMMA DeleteQueueStep ==
  ASSUME IInv, NEW id \in Ids, DeleteQueue(id), UNCHANGED <<database, second, kmsVars, smVars>>
  PROVE  IInv'
<1>1. queues' = queues \ {id} /\ UNCHANGED <<ids, queueIds>>
  BY DEF DeleteQueue
<1>2. TypeOK'
  BY <1>1 DEF IInv, TypeOK, KMS!KeysTypeOK, SM!SecretsTypeOK, kmsVars, smVars
<1>3. KeysInv' /\ KeyIds' = KeyIds
  BY KeysStay DEF IInv, kmsVars
<1>4. SecretsInv'
  BY SecretsStay DEF IInv
<1>5. IdsInv'
  BY <1>1, <1>3 DEF IInv, IdsInv, KeyAndVaultIds, QueueGenerator, smVars
<1> QED
  BY <1>2, <1>3, <1>4, <1>5 DEF IInv

\* The keys a process starts with.
LEMMA PresetKeys ==
  ASSUME NEW N \in [PresetIds -> 1 .. MaxKeyVersion], NEW ks,
         ks = [id \in Ids |-> IF id \in PresetIds THEN KMS!PresetKey(id, N[id]) ELSE None]
  PROVE  /\ ks \in [Ids -> KMS!Key \cup {None}]
         /\ \A id \in Ids \ PresetIds : ks[id] = None
         /\ \A id \in PresetIds :
              /\ id \in Ids /\ ks[id] # None
              /\ Len(ks[id].material) = ks[id].latest
              /\ \A v \in 1 .. ks[id].latest : HasMaterial(ks[id], v, ks[id].material[v])
              /\ ks[id].material[1].origin = Preset(id)
<1>1. PresetIds \subseteq Ids
  BY SuiteAssumption
<1>2. \A id \in PresetIds :
        LET k == KMS!PresetKey(id, N[id])
        IN  /\ k \in KMS!Key /\ k # None
            /\ Len(k.material) = k.latest
            /\ \A v \in 1 .. k.latest : HasMaterial(k, v, k.material[v])
            /\ k.material[1].origin = Preset(id)
  <2> SUFFICES ASSUME NEW id \in PresetIds
               PROVE  LET k == KMS!PresetKey(id, N[id])
                      IN  /\ k \in KMS!Key /\ k # None
                          /\ Len(k.material) = k.latest
                          /\ \A v \in 1 .. k.latest : HasMaterial(k, v, k.material[v])
                          /\ k.material[1].origin = Preset(id)
    OBVIOUS
  <2> DEFINE k == KMS!PresetKey(id, N[id])
  <2>1. N[id] \in 1 .. MaxKeyVersion
    OBVIOUS
  <2>2. /\ k \in KMS!Key /\ k # None /\ k.latest = N[id] /\ Len(k.material) = N[id]
        /\ \A v \in 1 .. N[id] : HasMaterial(k, v, k.material[v])
        /\ k.material[1].origin = Preset(id)
    BY <2>1, PresetKeyOK
  <2> HIDE DEF k
  <2>3. \A v \in 1 .. k.latest : HasMaterial(k, v, k.material[v])
    BY <2>2
  <2> QED
    BY <2>2, <2>3 DEF k
<1>3. /\ \A id \in PresetIds : ks[id] = KMS!PresetKey(id, N[id])
      /\ \A id \in Ids \ PresetIds : ks[id] = None
      /\ ks \in [Ids -> KMS!Key \cup {None}]
  BY <1>1, <1>2
<1> QED
  BY <1>1, <1>2, <1>3

LEMMA NoSecrets ==
  ASSUME vaults' = [vault \in Ids |-> None], stored' = [vault \in Ids |-> SM!Nothing],
         puts' = 0, vaultRecords' = {}
  PROVE  SM!SecretsTypeOK' /\ SecretsInv'
<1>1. << >> \in SM!BoundedSeq(Values, MaxStored)
  <2>1. << >> \in Seq(Values) /\ Len(<< >>) <= MaxStored
    BY SuiteAssumption
  <2> QED
    BY <2>1, BoundedValues, SuiteAssumption
<1>2. SM!Nothing \in [Names -> SM!BoundedSeq(Values, MaxStored)]
      /\ \A n \in Names : SM!Nothing[n] = << >>
  BY <1>1 DEF SM!Nothing
<1>3. 0 \in 0 .. MaxStored
  BY SuiteAssumption
<1>4. SM!SecretsTypeOK'
  BY <1>2, <1>3 DEF SM!SecretsTypeOK
<1>5. SecretsInv'
  BY <1>2 DEF SecretsInv, SecretInv, HasSecret
<1> QED
  BY <1>4, <1>5

LEMMA RestartStep ==
  ASSUME IInv, NEW base \in 1 .. MaxSecond, NEW N \in [PresetIds -> 1 .. MaxKeyVersion],
         Restart(base, N)
  PROVE  IInv'
<1>1. /\ second' = base /\ ids' = Shared(base) /\ UNCHANGED database
      /\ queues' = (IF database THEN queues ELSE {})
      /\ queueIds' = (IF database THEN Open(base, queues) ELSE base)
      /\ keys' = [id \in Ids |-> IF id \in PresetIds THEN KMS!PresetKey(id, N[id]) ELSE None]
      /\ drawn' = 0 /\ ciphertexts' = {c \in ciphertexts : c.id \in PresetIds}
      /\ vaultRecords' = {} /\ vaults' = [vault \in Ids |-> None]
      /\ stored' = [vault \in Ids |-> SM!Nothing] /\ puts' = 0
  BY DEF Restart, KMS!StartKeys, SM!StartSecrets
<1>2. /\ keys' \in [Ids -> KMS!Key \cup {None}]
      /\ \A id \in Ids \ PresetIds : keys'[id] = None
      /\ \A id \in PresetIds :
           /\ id \in Ids /\ keys'[id] # None
           /\ Len(keys'[id].material) = keys'[id].latest
           /\ \A v \in 1 .. keys'[id].latest :
                HasMaterial(keys'[id], v, keys'[id].material[v])
           /\ keys'[id].material[1].origin = Preset(id)
  BY <1>1, PresetKeys
<1>3. base \in Nat \ {0} /\ queues \in SUBSET Ids /\ 0 \in 0 .. MaxDrawn
  BY SuiteAssumption, IdsAreNumbers DEF IInv, TypeOK
<1>4. /\ Shared(base) \in Nat \ {0} /\ \A id \in PresetIds : id < Shared(base)
      /\ Open(base, queues) \in Nat \ {0} /\ \A id \in queues : id < Open(base, queues)
  BY <1>3, SharedBeyond, OpenBeyond
<1>5. SM!SecretsTypeOK' /\ SecretsInv'
  BY <1>1, NoSecrets
<1>6. TypeOK'
  <2>1. KMS!KeysTypeOK'
    BY <1>1, <1>2, <1>3 DEF IInv, TypeOK, KMS!KeysTypeOK
  <2> QED
    BY <1>1, <1>3, <1>4, <1>5, <2>1 DEF IInv, TypeOK
<1>7. KeyIds' = PresetIds
  BY <1>2 DEF KeyIds, KMS!HasKey
<1>8. IdsInv'
  <2>1. KeyAndVaultIds' = PresetIds
    BY <1>1, <1>7 DEF KeyAndVaultIds
  <2>2. \A id \in queues' : id < QueueGenerator'
    BY <1>1, <1>4 DEF QueueGenerator
  <2> QED
    BY <1>1, <1>4, <1>7, <2>1, <2>2 DEF IdsInv
<1>9. \A id \in Ids : KeyInv(id)'
  BY <1>2 DEF KeyInv, HasMaterial, KMS!HasKey
<1>10. ASSUME NEW c \in ciphertexts, c.id \in PresetIds
       PROVE  CiphertextInv(c)'
  <2>1. CiphertextInv(c) /\ c.id \in Ids
    BY <1>2, <1>10 DEF IInv, KeysInv
  <2>2. keys[c.id].material[1].origin = Preset(c.id)
    BY <1>10, <2>1 DEF IInv, KeysInv, KeyInv, CiphertextInv
  <2> QED
    BY <1>2, <1>10, <2>1, <2>2 DEF CiphertextInv, HasMaterial, KMS!HasKey
<1>11. KeysInv'
  BY <1>1, <1>9, <1>10 DEF KeysInv
<1> QED
  BY <1>5, <1>6, <1>8, <1>11 DEF IInv

-----------------------------------------------------------------------------
(* Invariance *)

LEMMA InitOK == Init => IInv
<1> SUFFICES ASSUME Init
             PROVE  IInv
  OBVIOUS
<1> DEFINE N == [id \in PresetIds |-> 1]
<1>1. N \in [PresetIds -> 1 .. MaxKeyVersion]
  BY SuiteAssumption
<1>2. keys = [id \in Ids |-> IF id \in PresetIds THEN KMS!PresetKey(id, N[id]) ELSE None]
  BY DEF Init
<1> HIDE DEF N
<1>3. /\ keys \in [Ids -> KMS!Key \cup {None}]
      /\ \A id \in Ids \ PresetIds : keys[id] = None
      /\ \A id \in PresetIds :
           /\ id \in Ids /\ keys[id] # None
           /\ Len(keys[id].material) = keys[id].latest
           /\ \A v \in 1 .. keys[id].latest :
                HasMaterial(keys[id], v, keys[id].material[v])
           /\ keys[id].material[1].origin = Preset(id)
  BY <1>1, <1>2, PresetKeys
<1>4. /\ database \in BOOLEAN /\ second = 1 /\ ids = Shared(second) /\ queueIds = second
      /\ queues = {} /\ drawn = 0 /\ ciphertexts = {} /\ vaultRecords = {}
      /\ vaults = [id \in Ids |-> None] /\ stored = [id \in Ids |-> SM!Nothing] /\ puts = 0
  BY DEF Init
<1>5. Shared(1) \in Nat \ {0} /\ \A id \in PresetIds : id < Shared(1)
  BY SharedBeyond
<1>6. 1 \in 1 .. MaxSecond /\ 0 \in 0 .. MaxDrawn /\ 0 \in 0 .. MaxStored
  BY SuiteAssumption, IdsAreNumbers
<1>7. SM!Nothing \in [Names -> SM!BoundedSeq(Values, MaxStored)]
      /\ \A n \in Names : SM!Nothing[n] = << >>
  <2>1. << >> \in Seq(Values) /\ Len(<< >>) <= MaxStored
    BY SuiteAssumption
  <2>2. << >> \in SM!BoundedSeq(Values, MaxStored)
    BY <2>1, BoundedValues, SuiteAssumption
  <2> QED
    BY <2>2 DEF SM!Nothing
<1>8. TypeOK
  BY <1>3, <1>4, <1>5, <1>6, <1>7 DEF TypeOK, KMS!KeysTypeOK, SM!SecretsTypeOK
<1>9. KeyIds = PresetIds
  BY <1>3 DEF KeyIds, KMS!HasKey
<1>10. IdsInv
  BY <1>4, <1>5, <1>9 DEF IdsInv, KeyAndVaultIds
<1>11. KeysInv
  BY <1>3, <1>4 DEF KeysInv, KeyInv, KMS!HasKey
<1>12. SecretsInv
  BY <1>4, <1>7 DEF SecretsInv, SecretInv, HasSecret
<1> QED
  BY <1>8, <1>10, <1>11, <1>12 DEF IInv

LEMMA StepOK == IInv /\ [Next]_vars => IInv'
<1> SUFFICES ASSUME IInv, [Next]_vars
             PROVE  IInv'
  OBVIOUS
<1>1. CASE UNCHANGED vars
  <2>1. UNCHANGED <<database, second, ids, queueIds, queues, drawn>>
        /\ UNCHANGED kmsVars /\ UNCHANGED smVars
    BY <1>1 DEF vars, mqVars, kmsVars, smVars
  <2>2. KeysInv' /\ KeyIds' = KeyIds
    BY <2>1, KeysStay DEF IInv, kmsVars
  <2>3. SecretsInv'
    BY <2>1, SecretsStay DEF IInv
  <2>4. TypeOK'
    BY <2>1 DEF IInv, TypeOK, KMS!KeysTypeOK, SM!SecretsTypeOK, kmsVars, smVars
  <2>5. IdsInv'
    BY <2>1, <2>2 DEF IInv, IdsInv, KeyAndVaultIds, QueueGenerator, smVars
  <2> QED
    BY <2>2, <2>3, <2>4, <2>5 DEF IInv
<1> QED
  BY <1>1, KeysSteps, SecretsSteps, CreateQueueStep, DeleteQueueStep, RestartStep DEF Next

LEMMA Invariance == Spec => []IInv
BY InitOK, StepOK, PTL DEF Spec

\* The stores of the services keep what they may keep, however a generator is
\* shared and the process restarted.
THEOREM TypeCorrect == Spec => []TypeOK
<1>1. IInv => TypeOK
  BY DEF IInv
<1> QED
  BY <1>1, Invariance, PTL

\* One ID is never two resources' of the services that share a generator, and
\* neither is the next one to be handed out: a generator is beyond whatever
\* was preset, numbered, or found in the database.
THEOREM IdsStayDistinct == Spec => []IdsDistinct
<1>1. IInv => IdsDistinct
  <2> SUFFICES ASSUME IInv
               PROVE  IdsDistinct
    OBVIOUS
  <2>1. ids \in Nat /\ QueueGenerator \in Nat
    BY DEF IInv, TypeOK, QueueGenerator
  <2>2. ids \notin KeyAndVaultIds /\ QueueGenerator \notin queues
    BY <2>1 DEF IInv, IdsInv
  <2> QED
    BY <2>2 DEF IInv, IdsInv, IdsDistinct, KeyAndVaultIds, NextID
<1> QED
  BY <1>1, Invariance, PTL

\* A ciphertext decrypts, whatever became of its key and however often the
\* process was restarted, unless the key is suspended or was restarted at an
\* earlier version.
THEOREM CiphertextsDecrypt == Spec => []StaysReadable
<1>1. IInv => StaysReadable
  <2> SUFFICES ASSUME IInv, NEW c \in ciphertexts,
                      keys[c.id] # None, keys[c.id].status # "suspended",
                      c.id \in PresetIds => c.version <= keys[c.id].latest
               PROVE  KMS!Decrypts(c)
    BY DEF StaysReadable, KMS!StaysReadable
  <2> DEFINE k == keys[c.id]
  <2>1. CiphertextInv(c) /\ c \in KMS!Ciphertext
    BY DEF IInv, KeysInv, TypeOK, KMS!KeysTypeOK
  <2>2. /\ c.id \in Ids /\ c.version \in 1 .. MaxKeyVersion /\ c.material \in KMS!Material
        /\ KMS!HasKey(c.id)
    BY <2>1 DEF KMS!Ciphertext, KMS!HasKey
  <2>3. /\ k \in KMS!Key /\ k.latest \in 1 .. MaxKeyVersion /\ Len(k.material) = k.latest
        /\ \A v \in 1 .. k.latest : HasMaterial(k, v, k.material[v])
    BY <2>2, KeyThere
  <2>4. c.version <= k.latest
    BY <2>1 DEF CiphertextInv
  <2>5. c.version \in 1 .. k.latest
    BY <2>2, <2>3, <2>4, SuiteAssumption
  <2>6. k.material[c.version] \in KMS!Material
    <3>1. k.material \in Seq(KMS!Material)
      BY <2>3, KeyTyped
    <3> QED
      BY <2>3, <2>5, <3>1
  <2>7. k.material[c.version] = c.material
    <3>1. /\ k.material[c.version].origin = c.material.origin
          /\ k.material[c.version].hashed = c.material.hashed
      BY <2>1, <2>3, <2>5 DEF HasMaterial, CiphertextInv
    <3>2. \A a, b \in KMS!Material : a.origin = b.origin /\ a.hashed = b.hashed => a = b
      BY DEF KMS!Material
    <3> QED
      BY <2>2, <2>6, <3>1, <3>2
  <2> QED
    BY <2>2, <2>3, <2>5, <2>7 DEF KMS!Decrypts
<1> QED
  BY <1>1, Invariance, PTL

\* What Unveil answers are the last MaxSecretVersions values stored under a
\* name since the secret was made, each under its own number, and no other.
THEOREM LatestVersionsKept == Spec => []VersionsKept
<1>1. IInv => VersionsKept
  <2> SUFFICES ASSUME IInv, NEW vault \in Ids, NEW name \in Names,
                      NEW version \in 1 .. MaxStored, NEW value \in Values
               PROVE  LET values == stored[vault][name]
                      IN  SM!Unveils(vault, name, version, value) <=>
                            /\ version <= Len(values)
                            /\ version > Len(values) - MaxSecretVersions
                            /\ values[version] = value
    BY DEF VersionsKept, SM!VersionsKept
  <2> DEFINE vs == stored[vault][name]
  <2>1. SecretInv(vault, name) /\ vs \in Seq(Values) /\ Len(vs) \in Nat
        /\ version \in Nat /\ 1 <= version
    BY SecretsTyped, SuiteAssumption DEF IInv, SecretsInv
  <2>2. CASE HasSecret(vault, name)
    <3>1. Keeps(vaults[vault][name], vs)
      BY <2>1, <2>2 DEF SecretInv
    <3>2. version \in DOMAIN vaults[vault][name].versions <=>
            version <= Len(vs) /\ version > Len(vs) - MaxSecretVersions
      BY <2>1, <3>1 DEF Keeps
    <3> QED
      BY <2>2, <3>1, <3>2 DEF SM!Unveils, HasSecret, Keeps
  <2>3. CASE ~ HasSecret(vault, name)
    BY <2>1, <2>3 DEF SecretInv, SM!Unveils, HasSecret
  <2> QED
    BY <2>2, <2>3
<1> QED
  BY <1>1, Invariance, PTL
=============================================================================
