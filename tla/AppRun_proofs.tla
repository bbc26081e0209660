---------------------------- MODULE AppRun_proofs ----------------------------
(***************************************************************************)
(* Proofs about the AppRun store, for any number of requests, applications *)
(* and versions and any limits.                                            *)
(*                                                                         *)
(* LatestKept is not inductive: that the version a request is about to     *)
(* delete is not the latest one rests on what the request saw, three       *)
(* critical sections earlier, and on versions being numbered in the order  *)
(* they are made (Pending, Ordered, Owned, Numbered).                      *)
(*                                                                         *)
(* HealthyIsServed is not inductive either: an application without a       *)
(* container is excused only by a request that is still to start one or to *)
(* delete it, wherever other requests may have got to, or because it never *)
(* had one and no request has yet deployed a version that names a registry *)
(* (Served).                                                               *)
(***************************************************************************)
EXTENDS AppRun, SequenceTheorems, TLAPS

\* Applications and versions are numbered from 1, and neither is made twice.
Numbered ==
    /\ \A a \in AppIds : Exists(a) => a <= madeApps
    /\ \A v \in VersionNos : owner[v] # None => v <= madeVers /\ owner[v] <= madeApps

\* The versions of an application were made for it ...
Owned ==
    \A a \in AppIds : Exists(a) =>
        \A i \in 1 .. Len(versions[a]) : owner[versions[a][i]] = a

\* ... and are listed in the order they were made.
Ordered ==
    \A a \in AppIds : Exists(a) =>
        \A i, j \in 1 .. Len(versions[a]) : i < j => versions[a][i] < versions[a][j]

StoreOK == Numbered /\ Owned /\ Ordered /\ LatestKept

\* How far a request has got says what it has in hand; one that may delete a
\* version knows a later one, or will find nothing to delete.
Shape(r) ==
    /\ r.pc \notin {"idle", "create"} => r.app \in 1 .. madeApps
    /\ r.pc = "create" => r.image \in Images
    /\ r.pc \in {"list", "put", "stop", "start"} => r.ver \in VersionNos /\ r.ver <= madeVers
    /\ r.pc = "put" => r.newest \in VersionNos

Pending(r) ==
    r.pc \in {"read", "traffic", "deleteVersion"} =>
        /\ r.ver \in 1 .. madeVers
        /\ r.newest \in VersionNos
        /\ Exists(r.app) => r.newest <= Last(versions[r.app])
        /\ owner[r.ver] = r.app => r.ver <= r.newest
        /\ r.pc # "read" => r.ver # r.newest

RequestsOK == \A c \in Clients : Shape(req[c]) /\ Pending(req[c])

IInv == TypeOK /\ StoreOK /\ RequestsOK

-----------------------------------------------------------------------------
(* Sequences of versions *)

\* What Keep leaves of a sequence is a suffix of it, its last element included.
LEMMA KeepSuffix ==
  ASSUME NEW u \in Seq(VersionNos), Len(u) >= 1
  PROVE  /\ Keep(u) \in Seq(VersionNos)
         /\ Len(Keep(u)) >= 1
         /\ Last(Keep(u)) = Last(u)
         /\ \E k \in Nat : /\ Len(Keep(u)) + k = Len(u)
                           /\ \A i \in 1 .. Len(Keep(u)) : Keep(u)[i] = u[i + k]
<1>1. CASE Len(u) > KeptVersions
  <2> DEFINE n == Len(u) - KeptVersions
  <2>1. n \in Nat /\ Keep(u) = SubSeq(u, n + 1, Len(u))
    BY <1>1, ConstantsAssumption DEF Keep
  <2>2. Keep(u) \in Seq(VersionNos) /\ Len(Keep(u)) = KeptVersions
    BY <1>1, <2>1, ConstantsAssumption
  <2>3. \A i \in 1 .. KeptVersions : Keep(u)[i] = u[i + n]
    BY <1>1, <2>1, ConstantsAssumption
  <2>4. KeptVersions \in 1 .. KeptVersions /\ KeptVersions + n = Len(u)
    BY ConstantsAssumption
  <2> HIDE DEF n
  <2>5. Last(Keep(u)) = Last(u)
    BY <2>2, <2>3, <2>4 DEF Last
  <2>6. \E k \in Nat : /\ Len(Keep(u)) + k = Len(u)
                       /\ \A i \in 1 .. Len(Keep(u)) : Keep(u)[i] = u[i + k]
    <3>1. n \in Nat
      BY <2>1
    <3> WITNESS n \in Nat
    <3> QED
      BY <2>2, <2>3, <2>4
  <2>7. Len(Keep(u)) >= 1
    BY <2>2, ConstantsAssumption
  <2> QED
    BY <2>2, <2>5, <2>6, <2>7, Zenon
<1>2. CASE ~ (Len(u) > KeptVersions)
  <2>1. Keep(u) = u
    BY <1>2 DEF Keep
  <2>2. \E k \in Nat : /\ Len(u) + k = Len(u)
                       /\ \A i \in 1 .. Len(u) : u[i] = u[i + k]
    <3> WITNESS 0 \in Nat
    <3> QED
      OBVIOUS
  <2> QED
    BY <2>1, <2>2
<1> QED
  BY <1>1, <1>2

\* Without leaves every element but one, in its order.
LEMMA WithoutOne ==
  ASSUME NEW s \in Seq(VersionNos), NEW i \in 1 .. Len(s)
  PROVE  /\ Without(s, i) \in Seq(VersionNos)
         /\ Len(Without(s, i)) = Len(s) - 1
         /\ \A j \in 1 .. Len(s) - 1 :
              Without(s, i)[j] = s[IF j < i THEN j ELSE j + 1]
<1> DEFINE p == SubSeq(s, 1, i - 1)
           q == SubSeq(s, i + 1, Len(s))
<1>1. p \in Seq(VersionNos) /\ Len(p) = i - 1 /\ \A j \in 1 .. i - 1 : p[j] = s[j]
  OBVIOUS
<1>2. /\ q \in Seq(VersionNos)
      /\ Len(q) = Len(s) - i
      /\ \A j \in 1 .. Len(s) - i : q[j] = s[i + j]
  OBVIOUS
<1>3. Without(s, i) = p \o q
  BY DEF Without
<1> HIDE DEF p, q
<1>4. /\ p \o q \in Seq(VersionNos)
      /\ Len(p \o q) = Len(p) + Len(q)
      /\ \A j \in 1 .. Len(p) + Len(q) :
           (p \o q)[j] = IF j <= Len(p) THEN p[j] ELSE q[j - Len(p)]
  BY <1>1, <1>2, ConcatProperties
<1>5. Len(p) + Len(q) = Len(s) - 1
  BY <1>1, <1>2
<1>6. ASSUME NEW j \in 1 .. Len(s) - 1, j < i
      PROVE  (p \o q)[j] = s[j]
  BY <1>1, <1>4, <1>5, <1>6
<1>7. ASSUME NEW j \in 1 .. Len(s) - 1, ~ (j < i)
      PROVE  (p \o q)[j] = s[j + 1]
  <2>1. /\ j - (i - 1) \in 1 .. Len(s) - i
        /\ i + (j - (i - 1)) = j + 1
        /\ ~ (j <= i - 1)
    BY <1>7
  <2>2. (p \o q)[j] = q[j - (i - 1)]
    BY <1>1, <1>4, <1>5, <2>1
  <2> QED
    BY <1>2, <2>1, <2>2
<1> QED
  BY <1>3, <1>4, <1>5, <1>6, <1>7

-----------------------------------------------------------------------------
(* Steps that leave the versions alone *)

\* What the store's invariants are about.
ledger == <<versions, owner, madeApps, madeVers>>

LEMMA LedgerKept ==
  ASSUME StoreOK, UNCHANGED ledger
  PROVE  /\ StoreOK'
         /\ \A r \in Request : /\ Shape(r)' <=> Shape(r)
                               /\ Pending(r)' <=> Pending(r)
  BY DEF StoreOK, Numbered, Owned, Ordered, LatestKept, Shape, Pending, Exists, ledger

LEMMA RequestMoves ==
  ASSUME IInv, TypeOK', UNCHANGED ledger,
         NEW c \in Clients, NEW r \in Request, Shape(r), Pending(r),
         req' = [req EXCEPT ![c] = r]
  PROVE  IInv'
<1>1. StoreOK'
  BY LedgerKept DEF IInv
<1>2. ASSUME NEW d \in Clients
      PROVE  (Shape(req[d]) /\ Pending(req[d]))'
  <2>1. req'[d] = IF d = c THEN r ELSE req[d]
    BY DEF IInv, TypeOK
  <2>2. Shape(req'[d]) /\ Pending(req'[d])
    BY <2>1 DEF IInv, RequestsOK
  <2> QED
    BY <2>2 DEF Shape, Pending, Exists, ledger
<1> QED
  BY <1>1, <1>2 DEF IInv, RequestsOK

LEMMA StoreMoves ==
  ASSUME IInv, TypeOK', UNCHANGED <<ledger, req>>
  PROVE  IInv'
<1>1. StoreOK'
  BY LedgerKept DEF IInv
<1>2. ASSUME NEW d \in Clients
      PROVE  (Shape(req[d]) /\ Pending(req[d]))'
  BY DEF IInv, RequestsOK, Shape, Pending, Exists, ledger
<1> QED
  BY <1>1, <1>2 DEF IInv, RequestsOK

\* A critical section that only reads.
LEMMA OnlyRequestMoves ==
  ASSUME IInv, UNCHANGED <<store, containers, docker, open>>,
         NEW c \in Clients, NEW r \in Request, Shape(r), Pending(r),
         req' = [req EXCEPT ![c] = r]
  PROVE  IInv'
<1>1. TypeOK'
  BY DEF IInv, TypeOK, store
<1>2. UNCHANGED ledger
  BY DEF store, ledger
<1> QED
  BY <1>1, <1>2, RequestMoves

-----------------------------------------------------------------------------
(* The latest version *)

LEMMA LastTyped ==
  ASSUME IInv, NEW a \in AppIds, Exists(a)
  PROVE  /\ versions[a] \in Seq(VersionNos)
         /\ Len(versions[a]) \in Nat /\ Len(versions[a]) >= 1
         /\ Last(versions[a]) \in VersionNos
         /\ Last(versions[a]) <= madeVers
<1>1. versions[a] \in Seq(VersionNos) /\ versions[a] # << >>
  BY DEF IInv, TypeOK, StoreOK, LatestKept, Exists
<1>2. Len(versions[a]) \in Nat /\ Len(versions[a]) >= 1
  BY <1>1
<1>3. Last(versions[a]) \in VersionNos
  BY <1>1, <1>2 DEF Last
<1>4. owner[Last(versions[a])] = a
  BY <1>2 DEF IInv, StoreOK, Owned, Last
<1>5. owner[Last(versions[a])] # None
  BY <1>4, NoneAssumption DEF AppIds
<1> QED
  BY <1>1, <1>2, <1>3, <1>5 DEF IInv, StoreOK, Numbered

-----------------------------------------------------------------------------
(* What the docker commands leave *)

LEMMA LostTyped ==
  ASSUME IInv, NEW a \in AppIds
  PROVE  /\ Lost(a) \in Container \cup {None}
         /\ Lost(a) # None => Lost(a).lost /\ docker[a] # None
<1>1. CASE docker[a] = None
  BY <1>1 DEF Lost
<1>2. CASE docker[a] # None
  <2>1. docker[a] \in Container
    BY <1>2 DEF IInv, TypeOK
  <2> QED
    BY <1>2, <2>1 DEF Lost, Container
<1> QED
  BY <1>1, <1>2

\* A container that should be removed is gone, or lost.
LEMMA RemoveLeaves ==
  ASSUME IInv, NEW apps \in SUBSET AppIds, Remove(apps)
  PROVE  /\ docker' \in [AppIds -> Container \cup {None}]
         /\ \A a \in AppIds \ apps : docker'[a] = docker[a]
         /\ \A a \in apps : docker'[a] # None => docker'[a].lost /\ docker[a] # None
<1>1. PICK kept \in MayFail("rm", apps) :
        docker' = [a \in AppIds |-> IF a \in kept THEN Lost(a)
                                   ELSE IF a \in apps THEN None ELSE docker[a]]
  BY DEF Remove
<1>2. kept \subseteq apps
  BY DEF MayFail
<1>3. ASSUME NEW a \in AppIds
      PROVE  docker'[a] \in Container \cup {None}
  BY <1>1, <1>3, LostTyped DEF IInv, TypeOK
<1> QED
  BY <1>1, <1>2, <1>3, LostTyped

LEMMA StopLeaves ==
  ASSUME IInv, NEW a \in AppIds, StopContainer(a)
  PROVE  /\ containers' = [containers EXCEPT ![a] = None]
         /\ docker' \in [AppIds -> Container \cup {None}]
         /\ \A b \in AppIds : b # a \/ containers[a] = None => docker'[b] = docker[b]
         /\ containers[a] # None /\ docker'[a] # None => docker'[a].lost
         /\ docker'[a] # None => docker[a] # None
<1>1. Known \cap {a} \in SUBSET AppIds /\ Remove(Known \cap {a})
  BY DEF StopContainer, Known
<1>2. a \in Known <=> containers[a] # None
  BY DEF Known
<1>3. containers' = [containers EXCEPT ![a] = None]
  BY DEF StopContainer
<1>4. \A b \in AppIds : b \in Known \cap {a} <=> b = a /\ containers[a] # None
  BY <1>2
<1> QED
  BY <1>1, <1>3, <1>4, RemoveLeaves

\* A container just made, and one given up at once.
LEMMA MadeTyped ==
  ASSUME NEW v \in VersionNos, NEW b \in BOOLEAN
  PROVE  /\ Made(v, b) \in Container /\ Made(v, b) # None
         /\ Made(v, b).version = v /\ Made(v, b).running = b /\ Made(v, b).lost = FALSE
         /\ [Made(v, b) EXCEPT !.lost = TRUE] \in Container
         /\ [Made(v, b) EXCEPT !.lost = TRUE].lost = TRUE
<1>1. Made(v, b) \in Container
  BY DEF Made, Container
<1> QED
  BY <1>1, NoneAssumption DEF Made, Container

-----------------------------------------------------------------------------
(* Arrivals *)

LEMMA IdleTyped ==
  /\ Idle \in Request
  /\ Idle.pc = "idle"
  /\ Shape(Idle) /\ Pending(Idle)
  BY DEF Idle, Request, PCs, Shape, Pending

LEMMA CheckLimitStep ==
  ASSUME IInv, NEW c \in Clients, NEW img \in Images, CheckLimit(c, img)
  PROVE  IInv'
<1> DEFINE r == [Idle EXCEPT !.pc = "create", !.image = img]
<1>1. r \in Request /\ Shape(r) /\ Pending(r)
  BY DEF Idle, Request, PCs, Shape, Pending
<1>2. req' = [req EXCEPT ![c] = r] /\ UNCHANGED <<store, containers, docker, open>>
  BY DEF CheckLimit
<1> HIDE DEF r
<1> QED
  BY <1>1, <1>2, OnlyRequestMoves

LEMMA ReadApplicationStep ==
  ASSUME IInv, NEW c \in Clients, NEW a \in 1 .. madeApps,
         NEW img \in Images \cup {None}, NEW all \in BOOLEAN,
         ReadApplication(c, a, img, all)
  PROVE  IInv'
<1> DEFINE r == [Begin(c, "update", a) EXCEPT !.image = img, !.all = all]
<1>1. r \in Request /\ Shape(r) /\ Pending(r)
  <2>1. a \in AppIds
    BY ConstantsAssumption DEF IInv, TypeOK, AppIds
  <2>2. r \in Request /\ r.pc = "update" /\ r.app = a
    BY <2>1 DEF Begin, Idle, Request, PCs
  <2> QED
    BY <2>2 DEF Shape, Pending
<1>2. req' = [req EXCEPT ![c] = r] /\ UNCHANGED <<store, containers, docker, open>>
  BY DEF ReadApplication
<1> HIDE DEF r
<1> QED
  BY <1>1, <1>2, OnlyRequestMoves

LEMMA StopForDeleteStep ==
  ASSUME IInv, NEW c \in Clients, NEW a \in 1 .. madeApps, StopForDelete(c, a)
  PROVE  IInv'
<1> DEFINE r == Begin(c, "delete", a)
<1>1. r \in Request /\ Shape(r) /\ Pending(r)
  <2>1. a \in AppIds
    BY ConstantsAssumption DEF IInv, TypeOK, AppIds
  <2>2. r \in Request /\ r.pc = "delete" /\ r.app = a
    BY <2>1 DEF Begin, Idle, Request, PCs
  <2> QED
    BY <2>2 DEF Shape, Pending
<1>2. req' = [req EXCEPT ![c] = r] /\ UNCHANGED <<store, open>> /\ StopContainer(a)
  BY DEF StopForDelete
<1> HIDE DEF r
<1>3. TypeOK'
  <2>1. a \in AppIds
    BY ConstantsAssumption DEF IInv, TypeOK, AppIds
  <2>2. /\ containers' = [containers EXCEPT ![a] = None]
        /\ docker' \in [AppIds -> Container \cup {None}]
    BY <1>2, <2>1, StopLeaves
  <2> QED
    BY <1>1, <1>2, <2>2 DEF IInv, TypeOK, store
<1>4. UNCHANGED ledger
  BY <1>2 DEF store, ledger
<1> QED
  BY <1>1, <1>2, <1>3, <1>4, RequestMoves

LEMMA ListVersionsStep ==
  ASSUME IInv, NEW c \in Clients, NEW a \in 1 .. madeApps, NEW v \in 1 .. madeVers,
         ListVersions(c, a, v)
  PROVE  IInv'
<1> DEFINE r == [Begin(c, "read", a) EXCEPT !.ver = v, !.newest = Last(versions[a])]
<1>1. a \in AppIds /\ v \in VersionNos /\ Exists(a)
  BY ConstantsAssumption DEF IInv, TypeOK, AppIds, VersionNos, ListVersions
<1>2. Last(versions[a]) \in VersionNos
  BY <1>1 DEF IInv, TypeOK, StoreOK, LatestKept, Last, Exists
<1>3. r \in Request /\ Shape(r) /\ Pending(r)
  <2>1. /\ r \in Request
        /\ r.pc = "read" /\ r.app = a /\ r.ver = v /\ r.newest = Last(versions[a])
    BY <1>1, <1>2 DEF Begin, Idle, Request, PCs
  <2>2. owner[v] = a => v <= Last(versions[a])
    BY <1>1 DEF IInv, StoreOK, LatestKept
  <2> HIDE DEF r
  <2> QED
    BY <1>1, <1>2, <2>1, <2>2 DEF Shape, Pending, VersionNos
<1>4. req' = [req EXCEPT ![c] = r] /\ UNCHANGED <<store, containers, docker, open>>
  BY DEF ListVersions
<1> HIDE DEF r
<1> QED
  BY <1>3, <1>4, OnlyRequestMoves

-----------------------------------------------------------------------------
(* Critical sections *)

LEMMA RespondOnly ==
  ASSUME IInv, NEW c \in Clients, Respond(c), UNCHANGED <<store, containers, docker, open>>
  PROVE  IInv'
  BY IdleTyped, OnlyRequestMoves DEF Respond

\* A request in hand, as the invariant has it.
LEMMA InHand ==
  ASSUME IInv, NEW c \in Clients
  PROVE  req[c] \in Request /\ Shape(req[c]) /\ Pending(req[c])
  BY DEF IInv, TypeOK, RequestsOK

\* Its application, and the version it goes on with.
LEMMA AppInHand ==
  ASSUME IInv, NEW c \in Clients, req[c].pc \notin {"idle", "create"}
  PROVE  /\ req[c].app \in 1 .. madeApps /\ req[c].app \in AppIds
         /\ req[c].pc \in {"list", "put", "stop", "start"} =>
              req[c].ver \in VersionNos /\ req[c].ver <= madeVers
<1>1. Shape(req[c])
  BY InHand
<1>2. madeApps \in 0 .. MaxApps
  BY DEF IInv, TypeOK
<1> QED
  BY <1>1, <1>2, ConstantsAssumption DEF Shape, AppIds

LEMMA RereadStep ==
  ASSUME IInv, NEW c \in Clients, Reread(c)
  PROVE  IInv'
<1>1. UNCHANGED <<store, containers, docker, open>>
  BY DEF Reread
<1>2. CASE Exists(req[c].app)
  <2> DEFINE a == req[c].app
             r == [req[c] EXCEPT !.pc = IF req[c].all THEN "list" ELSE "stop",
                                 !.ver = Last(versions[a])]
  <2>1. a \in 1 .. madeApps /\ a \in AppIds
    <3>1. req[c].pc = "reread"
      BY DEF Reread, At
    <3> QED
      BY <3>1, AppInHand
  <2>2. Last(versions[a]) \in VersionNos /\ Last(versions[a]) <= madeVers
    BY <1>2, <2>1, LastTyped
  <2>3. /\ r \in Request
        /\ r.pc \in {"list", "stop"} /\ r.app = a
        /\ r.ver \in VersionNos /\ r.ver <= madeVers
    BY InHand, <2>2 DEF Request, PCs
  <2>4. req' = [req EXCEPT ![c] = r]
    BY <1>2, InHand DEF Reread, IInv, TypeOK, Request
  <2> HIDE DEF r
  <2>5. Shape(r) /\ Pending(r)
    BY <2>1, <2>3 DEF Shape, Pending
  <2> QED
    BY <1>1, <2>3, <2>4, <2>5, OnlyRequestMoves
<1>3. CASE ~ Exists(req[c].app)
  BY <1>1, <1>3, RespondOnly DEF Reread
<1> QED
  BY <1>2, <1>3

LEMMA ListLatestStep ==
  ASSUME IInv, NEW c \in Clients, ListLatest(c)
  PROVE  IInv'
<1> DEFINE a == req[c].app
<1>1. UNCHANGED <<store, containers, docker, open>>
  BY DEF ListLatest
<1>2. /\ a \in 1 .. madeApps /\ a \in AppIds
      /\ req[c].ver \in VersionNos /\ req[c].ver <= madeVers
  BY AppInHand DEF ListLatest, At
<1>3. CASE Exists(a)
  <2> DEFINE r == [req[c] EXCEPT !.pc = "put", !.newest = Last(versions[a])]
  <2>1. Last(versions[a]) \in VersionNos
    BY <1>2, <1>3 DEF IInv, TypeOK, StoreOK, LatestKept, Last, Exists
  <2>2. /\ r \in Request
        /\ r.pc = "put" /\ r.app = a /\ r.ver = req[c].ver /\ r.newest = Last(versions[a])
    BY InHand, <2>1 DEF Request, PCs
  <2>3. req' = [req EXCEPT ![c] = r]
    BY <1>3, InHand DEF ListLatest, IInv, TypeOK, Request
  <2> HIDE DEF r
  <2>4. Shape(r) /\ Pending(r)
    BY <1>2, <2>1, <2>2 DEF Shape, Pending
  <2> QED
    BY <1>1, <2>2, <2>3, <2>4, OnlyRequestMoves
<1>4. CASE ~ Exists(a)
  <2> DEFINE r == [req[c] EXCEPT !.pc = "stop"]
  <2>1. r \in Request /\ r.pc = "stop" /\ r.app = a /\ r.ver = req[c].ver
    BY InHand DEF Request, PCs
  <2>2. req' = [req EXCEPT ![c] = r]
    BY <1>4, InHand DEF ListLatest, Goto, IInv, TypeOK, Request
  <2> HIDE DEF r
  <2>3. Shape(r) /\ Pending(r)
    BY <1>2, <2>1 DEF Shape, Pending
  <2> QED
    BY <1>1, <2>1, <2>2, <2>3, OnlyRequestMoves
<1> QED
  BY <1>3, <1>4

LEMMA PutAllTrafficStep ==
  ASSUME IInv, NEW c \in Clients, PutAllTraffic(c)
  PROVE  IInv'
<1> DEFINE a == req[c].app
           r == [req[c] EXCEPT !.pc = "stop"]
<1>1. req[c].pc = "put" /\ UNCHANGED ledger
  BY DEF PutAllTraffic, At, ledger
<1>2. /\ a \in 1 .. madeApps /\ a \in AppIds
      /\ req[c].ver \in VersionNos /\ req[c].ver <= madeVers
      /\ req[c].newest \in VersionNos
  <2>1. req[c].newest \in VersionNos
    BY <1>1, InHand DEF Shape
  <2> QED
    BY <1>1, <2>1, AppInHand
<1>3. r \in Request /\ r.pc = "stop" /\ r.app = a /\ r.ver = req[c].ver
  BY InHand DEF Request, PCs
<1>4. req' = [req EXCEPT ![c] = r]
  BY InHand DEF PutAllTraffic, Goto, IInv, TypeOK, Request
<1>5. traffic' = IF Exists(a) THEN [traffic EXCEPT ![a] = {req[c].newest}] ELSE traffic
  BY DEF PutAllTraffic
<1> HIDE DEF r
<1>6. traffic' \in [AppIds -> SUBSET VersionNos]
  BY <1>2, <1>5 DEF IInv, TypeOK
<1>7. TypeOK'
  BY <1>3, <1>4, <1>6 DEF PutAllTraffic, IInv, TypeOK
<1>8. Shape(r) /\ Pending(r)
  BY <1>2, <1>3 DEF Shape, Pending
<1> QED
  BY <1>1, <1>3, <1>4, <1>7, <1>8, RequestMoves

LEMMA DeployNothingStep ==
  ASSUME IInv, NEW c \in Clients, DeployNothing(c)
  PROVE  IInv'
  BY RespondOnly DEF DeployNothing

LEMMA StopStep ==
  ASSUME IInv, NEW c \in Clients, Stop(c)
  PROVE  IInv'
<1> DEFINE r == [req[c] EXCEPT !.pc = "start", !.restart = TRUE]
<1>1. req[c].pc = "stop" /\ UNCHANGED <<store, open>> /\ StopContainer(req[c].app)
  BY DEF Stop, At
<1>2. /\ req[c].app \in 1 .. madeApps /\ req[c].app \in AppIds
      /\ req[c].ver \in VersionNos /\ req[c].ver <= madeVers
  BY <1>1, AppInHand
<1>3. r \in Request /\ r.pc = "start" /\ r.app = req[c].app /\ r.ver = req[c].ver
  BY InHand DEF Request, PCs
<1>4. req' = [req EXCEPT ![c] = r]
  BY InHand DEF Stop, IInv, TypeOK, Request
<1> HIDE DEF r
<1>5. TypeOK' /\ UNCHANGED ledger
  <2>1. /\ containers' \in [AppIds -> VersionNos \cup {None}]
        /\ docker' \in [AppIds -> Container \cup {None}]
    BY <1>1, <1>2, StopLeaves DEF IInv, TypeOK
  <2> QED
    BY <1>1, <1>3, <1>4, <2>1 DEF store, ledger, IInv, TypeOK
<1>6. Shape(r) /\ Pending(r)
  BY <1>2, <1>3 DEF Shape, Pending
<1> QED
  BY <1>3, <1>4, <1>5, <1>6, RequestMoves

LEMMA StartContainerStep ==
  ASSUME IInv, NEW c \in Clients, StartContainer(c)
  PROVE  IInv'
<1> DEFINE a == req[c].app
           v == req[c].ver
<1>1. /\ req[c].pc = "start"
      /\ Runs(a, v) \/ ExitsAtOnce(a, v) \/ RunsUnseen(a, v) \/ Fails(a, v)
      /\ req' = [req EXCEPT ![c] = Idle]
      /\ UNCHANGED <<versions, traffic, image, owner, madeApps, madeVers, open>>
  BY DEF StartContainer, At, Respond
<1>2. a \in AppIds /\ v \in VersionNos
  BY <1>1, AppInHand
<1> HIDE DEF a, v
<1>3. /\ containers' \in [AppIds -> VersionNos \cup {None}]
      /\ docker' \in [AppIds -> Container \cup {None}]
      /\ status' \in [AppIds -> {"Healthy", "UnHealthy"}]
  <2>1. CASE Runs(a, v)
    BY <1>2, <2>1, MadeTyped DEF IInv, TypeOK, Runs, SetStatus
  <2>2. CASE ExitsAtOnce(a, v)
    BY <1>2, <2>2, MadeTyped DEF IInv, TypeOK, ExitsAtOnce, SetStatus
  <2>3. CASE RunsUnseen(a, v)
    BY <1>2, <2>3, MadeTyped DEF IInv, TypeOK, RunsUnseen, SetStatus
  <2>4. CASE Fails(a, v)
    BY <1>2, <2>4 DEF IInv, TypeOK, Fails, SetStatus
  <2> QED
    BY <1>1, <2>1, <2>2, <2>3, <2>4
<1>4. TypeOK' /\ UNCHANGED ledger
  BY <1>1, <1>3, IdleTyped DEF IInv, TypeOK, ledger
<1> QED
  BY <1>1, <1>4, IdleTyped, RequestMoves

LEMMA ReadVersionStep ==
  ASSUME IInv, NEW c \in Clients, ReadVersion(c)
  PROVE  IInv'
<1>1. req[c].pc = "read" /\ UNCHANGED <<store, containers, docker, open>>
  BY DEF ReadVersion, At
<1>2. CASE Has(req[c].app, req[c].ver) /\ req[c].ver # req[c].newest
  <2> DEFINE r == [req[c] EXCEPT !.pc = "traffic"]
  <2>1. /\ r \in Request /\ r.pc = "traffic"
        /\ r.app = req[c].app /\ r.ver = req[c].ver /\ r.newest = req[c].newest
    BY InHand DEF Request, PCs
  <2>2. req' = [req EXCEPT ![c] = r]
    BY <1>2, InHand DEF ReadVersion, Goto, IInv, TypeOK, Request
  <2> HIDE DEF r
  <2>3. Shape(r) /\ Pending(r)
    BY <1>1, <1>2, <2>1, InHand DEF Shape, Pending
  <2> QED
    BY <1>1, <2>1, <2>2, <2>3, OnlyRequestMoves
<1>3. CASE ~ (Has(req[c].app, req[c].ver) /\ req[c].ver # req[c].newest)
  <2>1. Respond(c)
    BY <1>3 DEF ReadVersion
  <2> QED
    BY <1>1, <2>1, RespondOnly
<1> QED
  BY <1>2, <1>3

LEMMA GetTrafficStep ==
  ASSUME IInv, NEW c \in Clients, GetTraffic(c)
  PROVE  IInv'
<1>1. req[c].pc = "traffic" /\ UNCHANGED <<store, containers, docker, open>>
  BY DEF GetTraffic, At
<1>2. CASE req[c].ver \notin traffic[req[c].app]
  <2> DEFINE r == [req[c] EXCEPT !.pc = "deleteVersion"]
  <2>1. /\ r \in Request /\ r.pc = "deleteVersion"
        /\ r.app = req[c].app /\ r.ver = req[c].ver /\ r.newest = req[c].newest
    BY InHand DEF Request, PCs
  <2>2. req' = [req EXCEPT ![c] = r]
    BY <1>2, InHand DEF GetTraffic, Goto, IInv, TypeOK, Request
  <2> HIDE DEF r
  <2>3. Shape(r) /\ Pending(r)
    BY <1>1, <2>1, InHand DEF Shape, Pending
  <2> QED
    BY <1>1, <2>1, <2>2, <2>3, OnlyRequestMoves
<1>3. CASE req[c].ver \in traffic[req[c].app]
  <2>1. Respond(c)
    BY <1>3 DEF GetTraffic
  <2> QED
    BY <1>1, <2>1, RespondOnly
<1> QED
  BY <1>2, <1>3

-----------------------------------------------------------------------------
(* The rest of the system *)

LEMMA PutTrafficStep ==
  ASSUME IInv, NEW a \in AppIds, NEW targets \in SUBSET (1 .. madeVers),
         PutTraffic(a, targets)
  PROVE  IInv'
<1>1. targets \subseteq VersionNos
  BY ConstantsAssumption DEF IInv, TypeOK, VersionNos
<1>2. traffic' = [traffic EXCEPT ![a] = targets]
  BY DEF PutTraffic
<1>3. traffic' \in [AppIds -> SUBSET VersionNos]
  BY <1>1, <1>2 DEF IInv, TypeOK
<1>4. TypeOK' /\ UNCHANGED <<ledger, req>>
  BY <1>3 DEF PutTraffic, IInv, TypeOK, ledger
<1> QED
  BY <1>4, StoreMoves

LEMMA ExitStep ==
  ASSUME IInv, NEW a \in AppIds, Exit(a)
  PROVE  IInv'
<1>1. docker[a] \in Container
  BY DEF Exit, IInv, TypeOK
<1>2. [docker[a] EXCEPT !.running = FALSE] \in Container
  BY <1>1 DEF Container
<1>3. docker' \in [AppIds -> Container \cup {None}]
  BY <1>2 DEF Exit, IInv, TypeOK
<1>4. TypeOK' /\ UNCHANGED <<ledger, req>>
  BY <1>3 DEF Exit, IInv, TypeOK, store, ledger
<1> QED
  BY <1>4, StoreMoves

LEMMA CheckContainersStep ==
  ASSUME IInv, CheckContainers
  PROVE  IInv'
<1>1. /\ docker' \in [AppIds -> Container \cup {None}]
      /\ containers' \in [AppIds -> VersionNos \cup {None}]
      /\ status' \in [AppIds -> {"Healthy", "UnHealthy"}]
  <2>1. PICK blind \in MayFail("inspect", Known) :
          /\ containers' = [a \in AppIds |-> IF a \in Unseen(blind) THEN None ELSE containers[a]]
          /\ status' = [a \in AppIds |-> IF a \in Unseen(blind) /\ Exists(a) THEN "UnHealthy"
                                                                           ELSE status[a]]
          /\ docker' = [a \in AppIds |-> IF a \in blind THEN Lost(a) ELSE docker[a]]
    BY DEF CheckContainers
  <2>2. \A a \in AppIds : docker'[a] \in Container \cup {None}
    BY <2>1, LostTyped DEF IInv, TypeOK
  <2> QED
    BY <2>1, <2>2 DEF IInv, TypeOK
<1>2. TypeOK' /\ UNCHANGED <<ledger, req>>
  BY <1>1 DEF CheckContainers, IInv, TypeOK, ledger
<1> QED
  BY <1>2, StoreMoves

LEMMA CloseStep ==
  ASSUME IInv, Close
  PROVE  IInv'
<1>1. docker' \in [AppIds -> Container \cup {None}]
  BY RemoveLeaves DEF Close, Known
<1>2. TypeOK' /\ UNCHANGED <<ledger, req>>
  BY <1>1 DEF Close, IInv, TypeOK, store, ledger
<1> QED
  BY <1>2, StoreMoves

-----------------------------------------------------------------------------
(* Steps that change the versions *)

\* Such a step makes no application out of one there was and moves no latest
\* version backwards; so what a request knows stays true.
Grows ==
    /\ madeApps <= madeApps' /\ madeVers <= madeVers'
    /\ \A v \in 1 .. madeVers : owner'[v] = owner[v]
    /\ \A a \in 1 .. madeApps : Exists(a)' =>
         /\ Exists(a)
         /\ Last(versions'[a]) \in VersionNos
         /\ Last(versions[a]) <= Last(versions'[a])

LEMMA LedgerMoves ==
  ASSUME IInv, TypeOK', StoreOK', Grows,
         NEW c \in Clients, NEW r \in Request,
         req' = [req EXCEPT ![c] = r],
         r.pc \notin {"read", "traffic", "deleteVersion"}, Shape(r)'
  PROVE  IInv'
<1>1. ASSUME NEW d \in Clients
      PROVE  (Shape(req[d]) /\ Pending(req[d]))'
  <2>1. CASE d = c
    <3>1. req'[d] = r
      BY <2>1 DEF IInv, TypeOK
    <3> QED
      BY <3>1 DEF Shape, Pending
  <2>2. CASE d # c
    <3>0. PICK q \in Request : q = req[d]
      BY InHand
    <3>1. req'[d] = q
      BY <2>2, <3>0 DEF IInv, TypeOK
    <3>2. q \in Request /\ Shape(q) /\ Pending(q)
      BY <3>0, InHand
    <3>3. madeApps \in Nat /\ madeApps' \in Nat /\ madeVers \in Nat /\ madeVers' \in Nat
      BY ConstantsAssumption DEF IInv, TypeOK
    <3>4. /\ q.pc \notin {"idle", "create"} => q.app \in 1 .. madeApps'
          /\ q.pc \in {"list", "put", "stop", "start"} =>
               q.ver \in VersionNos /\ q.ver <= madeVers'
      BY <3>2, <3>3 DEF Shape, Grows, VersionNos
    <3>5. ASSUME q.pc \in {"read", "traffic", "deleteVersion"}
          PROVE  /\ q.ver \in 1 .. madeVers'
                 /\ q.newest \in VersionNos
                 /\ Exists(q.app)' => q.newest <= Last(versions'[q.app])
                 /\ owner'[q.ver] = q.app => q.ver <= q.newest
                 /\ q.pc # "read" => q.ver # q.newest
      <4>1. /\ q.app \in 1 .. madeApps /\ q.ver \in 1 .. madeVers /\ q.newest \in VersionNos
            /\ Exists(q.app) => q.newest <= Last(versions[q.app])
            /\ owner[q.ver] = q.app => q.ver <= q.newest
            /\ q.pc # "read" => q.ver # q.newest
        BY <3>2, <3>5 DEF Shape, Pending
      <4>2. q.ver \in 1 .. madeVers' /\ owner'[q.ver] = owner[q.ver]
        BY <3>3, <4>1 DEF Grows
      <4>3. ASSUME Exists(q.app)'
            PROVE  q.newest <= Last(versions'[q.app])
        <5>1. q.app \in AppIds
          BY <4>1, ConstantsAssumption DEF IInv, TypeOK, AppIds
        <5>2. /\ Exists(q.app) /\ Last(versions'[q.app]) \in VersionNos
              /\ Last(versions[q.app]) <= Last(versions'[q.app])
          BY <4>1, <4>3 DEF Grows, Exists
        <5>3. Last(versions[q.app]) \in VersionNos
          BY <5>1, <5>2, LastTyped
        <5> QED
          BY <4>1, <5>2, <5>3 DEF VersionNos
      <4> QED
        BY <4>1, <4>2, <4>3
    <3> QED
      BY <3>1, <3>2, <3>4, <3>5 DEF Shape, Pending, Exists
  <2> QED
    BY <2>1, <2>2
<1> QED
  BY <1>1 DEF IInv, RequestsOK

LEMMA DeleteApplicationStep ==
  ASSUME IInv, NEW c \in Clients, DeleteApplication(c)
  PROVE  IInv'
<1> DEFINE a == req[c].app
<1>1. /\ req[c].pc = "delete"
      /\ versions' = [versions EXCEPT ![a] = None]
      /\ traffic' = [traffic EXCEPT ![a] = {}]
      /\ req' = [req EXCEPT ![c] = Idle]
      /\ UNCHANGED <<status, image, owner, madeApps, madeVers, containers, docker, open>>
  BY DEF DeleteApplication, At, Respond
<1>2. a \in AppIds
  BY <1>1, AppInHand
<1>3. TypeOK'
  BY <1>1, <1>2, IdleTyped DEF IInv, TypeOK
<1> HIDE DEF a
<1>4. \A b \in AppIds : Exists(b)' => Exists(b) /\ versions'[b] = versions[b]
  BY <1>1, <1>2 DEF Exists, IInv, TypeOK
<1>5. StoreOK'
  BY <1>1, <1>4 DEF IInv, StoreOK, Numbered, Owned, Ordered, LatestKept
<1>6. Grows
  <2>1. ASSUME NEW b \in 1 .. madeApps, Exists(b)'
        PROVE  /\ Exists(b) /\ Last(versions'[b]) \in VersionNos
               /\ Last(versions[b]) <= Last(versions'[b])
    <3>1. b \in AppIds
      BY ConstantsAssumption DEF IInv, TypeOK, AppIds
    <3> QED
      BY <1>4, <2>1, <3>1, LastTyped DEF VersionNos
  <2> QED
    BY <1>1, <2>1, ConstantsAssumption DEF Grows, IInv, TypeOK
<1>7. Shape(Idle)'
  BY DEF Shape, Idle
<1> QED
  BY <1>1, <1>3, <1>5, <1>6, <1>7, IdleTyped, LedgerMoves

\* CreateApplication: version v is the only one of application a, both new.
LEMMA CreateApplicationStep ==
  ASSUME IInv, NEW c \in Clients, CreateApplication(c)
  PROVE  IInv'
<1>0. PICK a \in Nat, v \in Nat : a = madeApps + 1 /\ v = madeVers + 1
  BY ConstantsAssumption DEF IInv, TypeOK
<1> DEFINE r == [Idle EXCEPT !.pc = "start", !.app = a, !.ver = v]
<1>1. /\ req[c].pc = "create"
      /\ a \in AppIds /\ v \in VersionNos
      /\ madeApps' = a /\ madeVers' = v
      /\ versions' = [versions EXCEPT ![a] = <<v>>]
      /\ traffic' = [traffic EXCEPT ![a] = {v}]
      /\ status' = [status EXCEPT ![a] = "Healthy"]
      /\ image' = [image EXCEPT ![v] = req[c].image]
      /\ owner' = [owner EXCEPT ![v] = a]
      /\ req' = [req EXCEPT ![c] = r]
      /\ UNCHANGED <<containers, docker, open>>
  BY <1>0 DEF CreateApplication, At
<1>2. madeApps \in Nat /\ madeVers \in Nat /\ madeApps < a /\ madeVers < v
  BY <1>0, ConstantsAssumption DEF IInv, TypeOK
<1>3. r \in Request /\ r.pc = "start" /\ r.app = a /\ r.ver = v
  BY <1>1 DEF Idle, Request, PCs
<1> HIDE DEF r
<1>4. req[c].image \in Images
  BY <1>1, InHand DEF Shape
<1>5. TypeOK'
  <2>1. versions' \in [AppIds -> Seq(VersionNos) \cup {None}]
    BY <1>1 DEF IInv, TypeOK
  <2>2. traffic' \in [AppIds -> SUBSET VersionNos] /\ status' \in [AppIds -> {"Healthy", "UnHealthy"}]
    BY <1>1 DEF IInv, TypeOK
  <2>3. image' \in [VersionNos -> Images \cup {None}] /\ owner' \in [VersionNos -> AppIds \cup {None}]
    BY <1>1, <1>4 DEF IInv, TypeOK
  <2>4. madeApps' \in 0 .. MaxApps /\ madeVers' \in 0 .. MaxVersions
    BY <1>1, ConstantsAssumption DEF AppIds, VersionNos
  <2>5. req' \in [Clients -> Request]
    BY <1>1, <1>3 DEF IInv, TypeOK
  <2> QED
    BY <1>1, <2>1, <2>2, <2>3, <2>4, <2>5 DEF IInv, TypeOK
<1>6. /\ versions'[a] = <<v>> /\ owner'[v] = a
      /\ \A b \in AppIds : b # a => versions'[b] = versions[b]
      /\ \A w \in VersionNos : w # v => owner'[w] = owner[w]
  BY <1>1 DEF IInv, TypeOK
<1>7. Numbered'
  <2>1. ASSUME NEW b \in AppIds, Exists(b)'
        PROVE  b <= madeApps'
    <3>1. CASE b = a
      BY <1>1, <1>2, <3>1
    <3>2. CASE b # a
      <4>1. Exists(b)
        BY <1>6, <2>1, <3>2 DEF Exists
      <4> QED
        BY <1>1, <1>2, <4>1 DEF IInv, StoreOK, Numbered, AppIds
    <3> QED
      BY <3>1, <3>2
  <2>2. ASSUME NEW w \in VersionNos, owner'[w] # None
        PROVE  w <= madeVers' /\ owner'[w] <= madeApps'
    <3>1. CASE w = v
      BY <1>1, <1>2, <1>6, <3>1
    <3>2. CASE w # v
      <4>1. owner'[w] = owner[w] /\ owner[w] \in AppIds
        BY <1>6, <2>2, <3>2 DEF IInv, TypeOK
      <4>2. w <= madeVers /\ owner[w] <= madeApps
        BY <2>2, <4>1 DEF IInv, StoreOK, Numbered
      <4> QED
        BY <1>1, <1>2, <4>1, <4>2 DEF AppIds, VersionNos
    <3> QED
      BY <3>1, <3>2
  <2> QED
    BY <2>1, <2>2 DEF Numbered, Exists
<1>8. \A b \in AppIds : Exists(b) =>
        b # a /\ \A i \in 1 .. Len(versions[b]) : versions[b][i] \in VersionNos /\ versions[b][i] # v
  <2>1. ASSUME NEW b \in AppIds, Exists(b)
        PROVE  b # a
    BY <1>2, <2>1 DEF IInv, StoreOK, Numbered, AppIds
  <2>2. owner[v] = None
    BY <1>1, <1>2 DEF IInv, StoreOK, Numbered, VersionNos
  <2>3. ASSUME NEW b \in AppIds, Exists(b), NEW i \in 1 .. Len(versions[b])
        PROVE  versions[b][i] \in VersionNos /\ versions[b][i] # v
    <3>1. owner[versions[b][i]] # None
      BY <2>3, NoneAssumption DEF IInv, StoreOK, Owned, AppIds
    <3>2. versions[b] \in Seq(VersionNos)
      BY <2>3, LastTyped
    <3> QED
      BY <2>2, <3>1, <3>2
  <2> QED
    BY <2>1, <2>3
<1>9. ASSUME NEW b \in AppIds, Exists(b)'
      PROVE  /\ \A i \in 1 .. Len(versions'[b]) : owner'[versions'[b][i]] = b
             /\ \A i, j \in 1 .. Len(versions'[b]) : i < j => versions'[b][i] < versions'[b][j]
             /\ versions'[b] # << >>
             /\ \A w \in VersionNos : owner'[w] = b => w <= Last(versions'[b])
  <2>1. CASE b = a
    <3>1. /\ Len(versions'[b]) = 1
          /\ versions'[b][1] = v
          /\ versions'[b] # << >>
      <4>1. versions'[b] = <<v>>
        BY <1>6, <2>1
      <4> QED
        BY <4>1
    <3>3a. Last(versions'[b]) = v
      BY <3>1 DEF Last
    <3>2. \A w \in VersionNos : w # v => owner[w] # a
      BY <1>1, <1>2, NoneAssumption DEF IInv, StoreOK, Numbered, AppIds
    <3> QED
      BY <1>1, <1>6, <2>1, <3>1, <3>3a, <3>2 DEF VersionNos
  <2>2. CASE b # a
    <3>1. versions'[b] = versions[b] /\ Exists(b)
      BY <1>6, <1>9, <2>2 DEF Exists
    <3> QED
      BY <1>6, <1>8, <2>2, <3>1 DEF IInv, StoreOK, Owned, Ordered, LatestKept
  <2> QED
    BY <2>1, <2>2
<1>10. StoreOK'
  BY <1>7, <1>9 DEF StoreOK, Owned, Ordered, LatestKept, Exists, Last
<1>11. Grows
  <2>1. ASSUME NEW b \in 1 .. madeApps, Exists(b)'
        PROVE  /\ Exists(b) /\ Last(versions'[b]) \in VersionNos
               /\ Last(versions[b]) <= Last(versions'[b])
    <3>1. b \in AppIds /\ b # a
      BY <1>2, ConstantsAssumption DEF IInv, TypeOK, AppIds
    <3>2. Exists(b) /\ versions'[b] = versions[b]
      BY <1>6, <2>1, <3>1 DEF Exists
    <3> QED
      BY <3>1, <3>2, LastTyped DEF VersionNos
  <2>2. \A w \in 1 .. madeVers : owner'[w] = owner[w]
    BY <1>1, <1>2, <1>6 DEF VersionNos
  <2> QED
    BY <1>1, <1>2, <1>0, <2>1, <2>2 DEF Grows, Exists
<1>12. Shape(r)'
  BY <1>1, <1>2, <1>3 DEF Shape, AppIds, r, Idle
<1> QED
  BY <1>1, <1>3, <1>5, <1>10, <1>11, <1>12, LedgerMoves

\* UpdateApplication: version v, new, becomes the latest of application a.
LEMMA UpdateApplicationStep ==
  ASSUME IInv, NEW c \in Clients, UpdateApplication(c)
  PROVE  IInv'
<1>1. /\ req[c].pc = "update"
      /\ UNCHANGED <<traffic, status, madeApps, containers, docker, open>>
  BY DEF UpdateApplication, At
<1>2. CASE /\ ~ Exists(req[c].app)
           /\ Respond(c)
           /\ UNCHANGED <<madeVers, versions, image, owner>>
  BY <1>1, <1>2, RespondOnly DEF store
<1>3. CASE Exists(req[c].app)
  <2>1. PICK a \in AppIds, v \in Nat : a = req[c].app /\ v = madeVers + 1 /\ a <= madeApps
    <3>1. req[c].app \in 1 .. madeApps
      BY <1>1, InHand DEF Shape
    <3> QED
      BY <3>1, ConstantsAssumption DEF IInv, TypeOK, AppIds
  <2> DEFINE s == versions[a]
             u == Append(s, v)
             t == Keep(u)
             r == [req[c] EXCEPT !.pc = "reread"]
  <2>2. /\ v \in VersionNos
        /\ madeVers' = v
        /\ versions' = [versions EXCEPT ![a] = t]
        /\ image' = [image EXCEPT ![v] = IF req[c].image # None THEN req[c].image
                                         ELSE image[Last(versions[a])]]
        /\ owner' = [owner EXCEPT ![v] = a]
        /\ Goto(c, "reread")
    BY <1>3, <2>1 DEF UpdateApplication
  <2>3. /\ s \in Seq(VersionNos)
        /\ Len(s) \in Nat
        /\ Last(s) \in VersionNos
        /\ Last(s) <= madeVers
        /\ Exists(a)
    BY <1>3, <2>1, LastTyped
  <2>4. madeVers \in Nat /\ madeApps \in Nat /\ madeVers < v
    BY <2>1, ConstantsAssumption DEF IInv, TypeOK
  <2>5. /\ u \in Seq(VersionNos)
        /\ Len(u) = Len(s) + 1
        /\ \A i \in 1 .. Len(s) : u[i] = s[i]
        /\ u[Len(s) + 1] = v
        /\ Last(u) = v
    BY <2>2, <2>3, AppendProperties DEF Last
  <2> HIDE DEF u
  <2>6. /\ t \in Seq(VersionNos)
        /\ Len(t) >= 1
        /\ Last(t) = v
    BY <2>3, <2>5, KeepSuffix
  <2>7. PICK k \in Nat : /\ Len(t) + k = Len(s) + 1
                         /\ \A i \in 1 .. Len(t) : t[i] = u[i + k]
    <3>1. Len(u) >= 1
      BY <2>3, <2>5
    <3>2. PICK k \in Nat : /\ Len(t) + k = Len(u)
                           /\ \A i \in 1 .. Len(t) : t[i] = u[i + k]
      BY <2>5, <3>1, KeepSuffix
    <3> QED
      BY <2>5, <3>2
  <2>8. r \in Request /\ r.pc = "reread" /\ r.app = a /\ req' = [req EXCEPT ![c] = r]
    <3>1. req[c] \in Request /\ "reread" \in PCs
      BY InHand DEF PCs
    <3>2. r \in Request /\ r.pc = "reread" /\ r.app = req[c].app
      BY <3>1 DEF Request
    <3>3. req' = [req EXCEPT ![c] = r]
      BY <2>2 DEF Goto
    <3> QED
      BY <2>1, <3>2, <3>3
  <2> HIDE DEF t, s
  <2>9. /\ versions'[a] = t /\ owner'[v] = a
        /\ \A b \in AppIds : b # a => versions'[b] = versions[b]
        /\ \A w \in VersionNos : w # v => owner'[w] = owner[w]
    BY <2>2 DEF IInv, TypeOK
  <2>10. TypeOK'
    <3>1. versions' \in [AppIds -> Seq(VersionNos) \cup {None}]
      BY <2>2, <2>6 DEF IInv, TypeOK
    <3>2. (IF req[c].image # None THEN req[c].image ELSE image[Last(versions[a])])
            \in Images \cup {None}
      BY <2>3, InHand DEF IInv, TypeOK, Request, s
    <3>3. image' \in [VersionNos -> Images \cup {None}] /\ owner' \in [VersionNos -> AppIds \cup {None}]
      BY <2>2, <3>2 DEF IInv, TypeOK
    <3>4. req' \in [Clients -> Request]
      BY <2>8 DEF IInv, TypeOK
    <3>5. madeVers' \in 0 .. MaxVersions
      BY <2>2, ConstantsAssumption DEF VersionNos
    <3> QED
      BY <1>1, <3>1, <3>3, <3>4, <3>5 DEF IInv, TypeOK
  <2> HIDE DEF r
  <2>11. \A b \in AppIds : Exists(b) =>
           \A i \in 1 .. Len(versions[b]) :
             versions[b][i] \in VersionNos /\ versions[b][i] < v
    <3>1. ASSUME NEW b \in AppIds, Exists(b), NEW i \in 1 .. Len(versions[b])
          PROVE  versions[b][i] \in VersionNos /\ versions[b][i] < v
      <4>1. owner[versions[b][i]] # None
        BY <3>1, NoneAssumption DEF IInv, StoreOK, Owned, AppIds
      <4>2. versions[b][i] \in VersionNos
        BY <3>1, LastTyped
      <4> QED
        BY <2>4, <4>1, <4>2 DEF IInv, StoreOK, Numbered, VersionNos
    <3> QED
      BY <3>1
  <2>12. Numbered'
    <3>1. ASSUME NEW b \in AppIds, Exists(b)'
          PROVE  b <= madeApps'
      <4>1. Exists(b)
        BY <2>3, <2>9, <3>1 DEF Exists
      <4> QED
        BY <1>1, <4>1 DEF IInv, StoreOK, Numbered
    <3>2. ASSUME NEW w \in VersionNos, owner'[w] # None
          PROVE  w <= madeVers' /\ owner'[w] <= madeApps'
      <4>1. CASE w = v
        BY <1>1, <2>1, <2>2, <2>9, <4>1
      <4>2. CASE w # v
        BY <1>1, <2>2, <2>4, <2>9, <3>2, <4>2 DEF IInv, StoreOK, Numbered, VersionNos
      <4> QED
        BY <4>1, <4>2
    <3> QED
      BY <3>1, <3>2 DEF Numbered, Exists
  \* The versions kept are those of u from some place on.
  <2>13. \A i \in 1 .. Len(t) :
           /\ t[i] = IF i + k = Len(s) + 1 THEN v ELSE s[i + k]
           /\ i + k # Len(s) + 1 => i + k \in 1 .. Len(s)
    <3>1. ASSUME NEW i \in 1 .. Len(t)
          PROVE  i + k \in 1 .. Len(s) + 1 /\ t[i] = u[i + k]
      BY <2>3, <2>6, <2>7
    <3> QED
      BY <2>3, <2>5, <3>1
  <2>14. ASSUME NEW b \in AppIds, Exists(b)'
         PROVE  /\ \A i \in 1 .. Len(versions'[b]) : owner'[versions'[b][i]] = b
                /\ \A i, j \in 1 .. Len(versions'[b]) : i < j => versions'[b][i] < versions'[b][j]
                /\ versions'[b] # << >>
                /\ \A w \in VersionNos : owner'[w] = b => w <= Last(versions'[b])
    <3>1. CASE b = a
      <4>1. \A i \in 1 .. Len(t) : owner'[t[i]] = a
        <5>1. ASSUME NEW i \in 1 .. Len(t), i + k # Len(s) + 1
              PROVE  owner'[t[i]] = a
          <6>1. i + k \in 1 .. Len(s) /\ t[i] = s[i + k]
            BY <2>13, <5>1
          <6>2. s[i + k] \in VersionNos /\ s[i + k] # v
            BY <2>3, <2>4, <2>11, <6>1 DEF s
          <6>3. owner[s[i + k]] = a
            BY <2>3, <6>1 DEF IInv, StoreOK, Owned, s
          <6> QED
            BY <2>9, <6>1, <6>2, <6>3
        <5>2. ASSUME NEW i \in 1 .. Len(t), i + k = Len(s) + 1
              PROVE  owner'[t[i]] = a
          BY <2>9, <2>13, <5>2
        <5> QED
          BY <5>1, <5>2
      <4>2. ASSUME NEW i \in 1 .. Len(t), NEW j \in 1 .. Len(t), i < j
            PROVE  t[i] < t[j]
        <5>1. i + k # Len(s) + 1 /\ i + k < j + k
          BY <2>3, <2>7, <4>2
        <5>2. i + k \in 1 .. Len(s) /\ t[i] = s[i + k]
          BY <2>13, <5>1
        <5>3. CASE j + k = Len(s) + 1
          BY <2>3, <2>11, <2>13, <5>2, <5>3 DEF s
        <5>4. CASE j + k # Len(s) + 1
          BY <2>3, <2>13, <5>1, <5>2, <5>4 DEF IInv, StoreOK, Ordered, s
        <5> QED
          BY <5>3, <5>4
      <4>3. \A w \in VersionNos : owner'[w] = a => w <= v
        <5>1. \A w \in VersionNos : w # v /\ owner[w] = a => w <= Last(s)
          BY <2>3 DEF IInv, StoreOK, LatestKept, s
        <5> QED
          BY <2>3, <2>4, <2>9, <5>1 DEF VersionNos
      <4> QED
        BY <2>6, <2>9, <3>1, <4>1, <4>2, <4>3
    <3>2. CASE b # a
      <4>1. versions'[b] = versions[b] /\ Exists(b)
        BY <2>9, <2>14, <3>2 DEF Exists
      <4>2. \A i \in 1 .. Len(versions[b]) : owner'[versions[b][i]] = b
        BY <2>9, <2>11, <4>1 DEF IInv, StoreOK, Owned, VersionNos
      <4>3. \A w \in VersionNos : owner'[w] = b => owner[w] = b
        BY <2>9, <3>2
      <4> QED
        BY <4>1, <4>2, <4>3 DEF IInv, StoreOK, Ordered, LatestKept
    <3> QED
      BY <3>1, <3>2
  <2>15. StoreOK'
    BY <2>12, <2>14 DEF StoreOK, Owned, Ordered, LatestKept, Exists, Last
  <2>16. Grows
    <3>1. ASSUME NEW b \in 1 .. madeApps, Exists(b)'
          PROVE  /\ Exists(b) /\ Last(versions'[b]) \in VersionNos
                 /\ Last(versions[b]) <= Last(versions'[b])
      <4>1. b \in AppIds
        BY ConstantsAssumption DEF IInv, TypeOK, AppIds
      <4>2. CASE b = a
        BY <2>2, <2>3, <2>4, <2>6, <2>9, <4>2 DEF s, VersionNos
      <4>3. CASE b # a
        <5>1. Exists(b) /\ versions'[b] = versions[b]
          BY <2>9, <3>1, <4>1, <4>3 DEF Exists
        <5> QED
          BY <4>1, <5>1, LastTyped DEF VersionNos
      <4> QED
        BY <4>2, <4>3
    <3>2. \A w \in 1 .. madeVers : owner'[w] = owner[w]
      BY <2>2, <2>4, <2>9 DEF VersionNos
    <3> QED
      BY <1>1, <2>2, <2>4, <3>1, <3>2 DEF Grows, Exists
  <2>17. PICK q \in Request : q = r
    BY <2>8
  <2>18. Shape(q)'
    BY <1>1, <2>1, <2>8, <2>17 DEF Shape, AppIds
  <2> QED
    BY <2>8, <2>10, <2>15, <2>16, <2>17, <2>18, LedgerMoves
<1> QED
  BY <1>2, <1>3 DEF UpdateApplication

\* DeleteVersion: what a request is left to delete is not the latest version.
LEMMA DeleteVersionStep ==
  ASSUME IInv, NEW c \in Clients, DeleteVersion(c)
  PROVE  IInv'
<1> DEFINE ver == req[c].ver
<1>1. /\ req[c].pc = "deleteVersion"
      /\ req' = [req EXCEPT ![c] = Idle]
      /\ UNCHANGED <<traffic, status, image, owner, madeApps, madeVers,
                     containers, docker, open>>
  BY DEF DeleteVersion, At, Respond
<1>2. CASE ~ Has(req[c].app, ver)
  <2>1. UNCHANGED versions
    BY <1>2 DEF DeleteVersion
  <2> QED
    BY <1>1, <2>1, RespondOnly DEF Respond, store
<1>3. CASE Has(req[c].app, ver)
  <2>1. PICK a \in AppIds : a = req[c].app
    BY <1>1, AppInHand
  <2> DEFINE s == versions[a]
  <2>2. PICK i \in 1 .. Len(s) : s[i] = ver /\ versions' = [versions EXCEPT ![a] = Without(@, i)]
    BY <1>3, <2>1 DEF DeleteVersion
  <2> DEFINE t == Without(s, i)
  <2>3. /\ Exists(a) /\ s \in Seq(VersionNos) /\ Len(s) \in Nat
        /\ \A j \in 1 .. Len(s) : s[j] \in VersionNos
    BY <1>3, <2>1, LastTyped DEF Has
  <2>4. ver < Last(s)
    <3>1. owner[ver] = a
      BY <2>2, <2>3 DEF IInv, StoreOK, Owned
    <3>2. /\ ver \in 1 .. madeVers /\ req[c].newest \in VersionNos
          /\ req[c].newest <= Last(s) /\ ver <= req[c].newest /\ ver # req[c].newest
      BY <1>1, <2>1, <2>3, <3>1, InHand DEF Pending
    <3>3. Last(s) \in VersionNos
      BY <2>3, LastTyped
    <3> QED
      BY <3>2, <3>3 DEF VersionNos
  <2>5. i < Len(s)
    BY <2>2, <2>3, <2>4 DEF Last, VersionNos
  <2>6. /\ t \in Seq(VersionNos)
        /\ Len(t) = Len(s) - 1
        /\ \A j \in 1 .. Len(s) - 1 : t[j] = s[IF j < i THEN j ELSE j + 1]
    BY <2>3, WithoutOne
  <2> HIDE DEF t
  <2>7. versions'[a] = t /\ \A b \in AppIds : b # a => versions'[b] = versions[b]
    BY <2>2 DEF IInv, TypeOK, t
  <2> HIDE DEF s
  <2>8. Len(t) >= 1 /\ t # << >> /\ Last(t) = Last(s)
    <3>1. Len(s) - 1 \in 1 .. Len(s) - 1 /\ ~ (Len(s) - 1 < i) /\ (Len(s) - 1) + 1 = Len(s)
      BY <2>3, <2>5
    <3>2. t[Len(s) - 1] = s[Len(s)]
      BY <2>6, <3>1
    <3> QED
      BY <2>3, <2>6, <3>1, <3>2 DEF Last
  <2>9. TypeOK'
    <3>1. versions' \in [AppIds -> Seq(VersionNos) \cup {None}]
      BY <2>2, <2>6 DEF IInv, TypeOK, t, s
    <3> QED
      BY <1>1, <3>1, IdleTyped DEF IInv, TypeOK
  <2>10. \A b \in AppIds : Exists(b)' => Exists(b) /\ (b # a => versions'[b] = versions[b])
    BY <2>3, <2>7 DEF Exists
  <2>11. ASSUME NEW b \in AppIds, Exists(b)'
         PROVE  /\ \A j \in 1 .. Len(versions'[b]) : owner'[versions'[b][j]] = b
                /\ \A j, k \in 1 .. Len(versions'[b]) : j < k => versions'[b][j] < versions'[b][k]
                /\ versions'[b] # << >>
                /\ \A w \in VersionNos : owner'[w] = b => w <= Last(versions'[b])
    <3>1. CASE b = a
      <4> DEFINE at(j) == IF j < i THEN j ELSE j + 1
      <4>1. \A j \in 1 .. Len(t) : at(j) \in 1 .. Len(s) /\ t[j] = s[at(j)]
        BY <2>3, <2>6
      <4>2. \A j, k \in 1 .. Len(t) : j < k => at(j) < at(k)
        BY <2>3, <2>6
      <4> HIDE DEF at
      <4>3. \A j \in 1 .. Len(t) : owner[t[j]] = a
        BY <2>3, <4>1 DEF IInv, StoreOK, Owned, s
      <4>4. \A j, k \in 1 .. Len(t) : j < k => t[j] < t[k]
        BY <2>3, <4>1, <4>2 DEF IInv, StoreOK, Ordered, s
      <4>5. \A w \in VersionNos : owner[w] = a => w <= Last(t)
        BY <2>3, <2>8 DEF IInv, StoreOK, LatestKept, s
      <4> QED
        BY <1>1, <2>7, <2>8, <3>1, <4>3, <4>4, <4>5
    <3>2. CASE b # a
      BY <1>1, <2>10, <2>11, <3>2 DEF IInv, StoreOK, Owned, Ordered, LatestKept
    <3> QED
      BY <3>1, <3>2
  <2>12. StoreOK'
    <3>1. Numbered'
      BY <1>1, <2>10 DEF IInv, StoreOK, Numbered
    <3> QED
      BY <2>11, <3>1 DEF StoreOK, Owned, Ordered, LatestKept, Exists, Last
  <2>13. Grows
    <3>1. ASSUME NEW b \in 1 .. madeApps, Exists(b)'
          PROVE  /\ Exists(b) /\ Last(versions'[b]) \in VersionNos
                 /\ Last(versions[b]) <= Last(versions'[b])
      <4>1. b \in AppIds /\ Exists(b)
        <5>1. b \in AppIds
          BY ConstantsAssumption DEF IInv, TypeOK, AppIds
        <5> QED
          BY <2>10, <3>1, <5>1 DEF Exists
      <4>2. Last(versions'[b]) = Last(versions[b])
        BY <2>7, <2>8, <4>1 DEF s
      <4> QED
        BY <4>1, <4>2, LastTyped DEF VersionNos
    <3> QED
      BY <1>1, <3>1, ConstantsAssumption DEF Grows, Exists, IInv, TypeOK
  <2>14. Shape(Idle)'
    BY DEF Shape, Idle
  <2> QED
    BY <1>1, <2>9, <2>12, <2>13, <2>14, IdleTyped, LedgerMoves
<1> QED
  BY <1>2, <1>3

-----------------------------------------------------------------------------
(* The theorems *)

LEMMA InitIInv == Init => IInv
<1> SUFFICES ASSUME Init PROVE IInv
  OBVIOUS
<1>1. TypeOK
  BY IdleTyped, ConstantsAssumption DEF Init, TypeOK
<1>2. StoreOK
  <2>1. \A a \in AppIds : ~ Exists(a)
    BY DEF Init, Exists
  <2> QED
    BY <2>1 DEF Init, StoreOK, Numbered, Owned, Ordered, LatestKept
<1>3. RequestsOK
  BY IdleTyped DEF Init, RequestsOK
<1> QED
  BY <1>1, <1>2, <1>3 DEF IInv

LEMMA NextIInv == IInv /\ [Next]_vars => IInv'
<1> SUFFICES ASSUME IInv, [Next]_vars PROVE IInv'
  OBVIOUS
<1>1. ASSUME NEW c \in Clients, Arrive(c)
      PROVE  IInv'
  BY <1>1, CheckLimitStep, ReadApplicationStep, StopForDeleteStep, ListVersionsStep
     DEF Arrive
<1>2. ASSUME NEW c \in Clients, Handler(c)
      PROVE  IInv'
  BY <1>2, CreateApplicationStep, UpdateApplicationStep, RereadStep, ListLatestStep,
     PutAllTrafficStep, DeployNothingStep, StopStep, StartContainerStep, DeleteApplicationStep,
     ReadVersionStep, GetTrafficStep, DeleteVersionStep
     DEF Handler
<1>3. ASSUME NEW a \in AppIds, NEW targets \in SUBSET (1 .. madeVers), PutTraffic(a, targets)
      PROVE  IInv'
  BY <1>3, PutTrafficStep
<1>4. ASSUME NEW a \in AppIds, Exit(a)
      PROVE  IInv'
  BY <1>4, ExitStep
<1>5. CASE CheckContainers
  BY <1>5, CheckContainersStep
<1>6. CASE Close
  BY <1>6, CloseStep
<1>7. CASE UNCHANGED vars
  <2>1. TypeOK' /\ UNCHANGED <<ledger, req>>
    BY <1>7 DEF vars, store, ledger, IInv, TypeOK
  <2> QED
    BY <2>1, StoreMoves
<1> QED
  BY <1>1, <1>2, <1>3, <1>4, <1>5, <1>6, <1>7 DEF Next

LEMMA Invariance == Spec => []IInv
  BY InitIInv, NextIInv, PTL DEF Spec

\* Every variable keeps its type: no handler, however its critical sections
\* interleave with others, leaves the store or the manager in a shape the code
\* does not have.
THEOREM TypeCorrect == Spec => []TypeOK
  BY Invariance, PTL DEF IInv

\* The version an application was last given is there, as its latest, however
\* many requests update it, prune it and delete versions of it at once: the
\* four critical sections of DeleteVersion cannot be interleaved so that the
\* latest version is the one deleted.
THEOREM LatestAlwaysKept == Spec => []LatestKept
  BY Invariance, PTL DEF IInv, StoreOK

-----------------------------------------------------------------------------
(* The manager and Docker *)

LEMMA KnownWithStop ==
  ASSUME IInv, RunningIsKnown, NEW a \in AppIds, StopContainer(a)
  PROVE  RunningIsKnown'
<1>1. \A b \in AppIds : b # a => containers'[b] = containers[b] /\ docker'[b] = docker[b]
  BY StopLeaves DEF IInv, TypeOK
<1>2. /\ containers'[a] = None
      /\ containers[a] = None => docker'[a] = docker[a]
      /\ containers[a] # None /\ docker'[a] # None => docker'[a].lost
  BY StopLeaves DEF IInv, TypeOK
<1> QED
  BY <1>1, <1>2 DEF RunningIsKnown

LEMMA KnownWithStart ==
  ASSUME IInv, RunningIsKnown, NEW c \in Clients, StartContainer(c)
  PROVE  RunningIsKnown'
<1>1. PICK a \in AppIds, v \in VersionNos :
        /\ a = req[c].app /\ v = req[c].ver
        /\ Runs(a, v) \/ ExitsAtOnce(a, v) \/ RunsUnseen(a, v) \/ Fails(a, v)
  <2>1. req[c].pc = "start"
    BY DEF StartContainer, At
  <2>2. req[c].app \in AppIds /\ req[c].ver \in VersionNos
    BY <2>1, AppInHand
  <2> QED
    BY <2>2 DEF StartContainer
<1>2. v # None
  BY NoneAssumption DEF VersionNos
<1>3. CASE Runs(a, v)
  BY <1>2, <1>3, MadeTyped DEF Runs, RunningIsKnown, IInv, TypeOK
<1>4. CASE ExitsAtOnce(a, v)
  BY <1>4, MadeTyped DEF ExitsAtOnce, RunningIsKnown, IInv, TypeOK
<1>5. CASE RunsUnseen(a, v)
  BY <1>5, MadeTyped DEF RunsUnseen, RunningIsKnown, IInv, TypeOK
<1>6. CASE Fails(a, v)
  BY <1>6 DEF Fails, RunningIsKnown
<1> QED
  BY <1>1, <1>3, <1>4, <1>5, <1>6

LEMMA KnownWithNext ==
  ASSUME IInv, RunningIsKnown, [Next]_vars
  PROVE  RunningIsKnown'
<1>1. CASE UNCHANGED <<containers, docker>>
  BY <1>1 DEF RunningIsKnown
<1>2. ASSUME NEW c \in Clients, NEW a \in 1 .. madeApps, StopForDelete(c, a)
      PROVE  RunningIsKnown'
  <2>1. a \in AppIds
    BY ConstantsAssumption DEF IInv, TypeOK, AppIds
  <2> QED
    BY <1>2, <2>1, KnownWithStop DEF StopForDelete
<1>3. ASSUME NEW c \in Clients, Stop(c)
      PROVE  RunningIsKnown'
  <2>1. req[c].pc = "stop"
    BY <1>3 DEF Stop, At
  <2>2. req[c].app \in AppIds
    BY <2>1, AppInHand
  <2> QED
    BY <1>3, <2>2, KnownWithStop DEF Stop
<1>4. ASSUME NEW c \in Clients, StartContainer(c)
      PROVE  RunningIsKnown'
  BY <1>4, KnownWithStart
<1>5. ASSUME NEW a \in AppIds, Exit(a)
      PROVE  RunningIsKnown'
  <2>1. docker[a] \in Container /\ docker[a] # None /\ UNCHANGED containers
    BY <1>5 DEF Exit, IInv, TypeOK
  <2>2. docker' = [docker EXCEPT ![a].running = FALSE]
    BY <1>5 DEF Exit
  <2>3. /\ docker'[a].version = docker[a].version
        /\ docker'[a].running = FALSE
        /\ docker'[a].lost = docker[a].lost
        /\ docker'[a] \in Container
        /\ \A b \in AppIds : b # a => docker'[b] = docker[b]
    BY <2>1, <2>2 DEF IInv, TypeOK, Container
  <2>4. docker'[a] # None
    BY <2>3, NoneAssumption
  <2> QED
    BY <2>1, <2>3, <2>4 DEF RunningIsKnown
<1>6. CASE CheckContainers
  <2>1. PICK blind \in MayFail("inspect", Known) :
          \A a \in AppIds :
            /\ containers'[a] = IF a \in Unseen(blind) THEN None ELSE containers[a]
            /\ docker'[a] = IF a \in blind THEN Lost(a) ELSE docker[a]
    BY <1>6 DEF CheckContainers
  <2>2. ASSUME NEW a \in AppIds
        PROVE  /\ containers'[a] # None =>
                    /\ docker'[a] # None
                    /\ docker'[a].version = containers'[a] /\ ~ docker'[a].lost
               /\ docker'[a] # None /\ docker'[a].running =>
                    containers'[a] # None \/ docker'[a].lost
    <3>1. CASE a \in blind
      BY <2>1, <3>1, LostTyped DEF Unseen
    <3>2. CASE a \notin blind /\ Exited(a)
      BY <2>1, <3>2 DEF Unseen, Exited
    <3>3. CASE a \notin Unseen(blind)
      <4>1. containers'[a] = containers[a] /\ docker'[a] = docker[a]
        BY <2>1, <3>3 DEF Unseen
      <4> QED
        BY <4>1 DEF RunningIsKnown
    <3> QED
      BY <3>1, <3>2, <3>3 DEF Unseen
  <2> QED
    BY <2>2 DEF RunningIsKnown
<1>7. CASE Close
  <2>1. Known \in SUBSET AppIds /\ Remove(Known) /\ \A a \in AppIds : containers'[a] = None
    BY <1>7 DEF Close, Known
  <2>2. ASSUME NEW a \in AppIds, docker'[a] # None, docker'[a].running
        PROVE  docker'[a].lost
    <3>1. CASE containers[a] # None
      BY <2>1, <2>2, <3>1, RemoveLeaves DEF Known
    <3>2. CASE containers[a] = None
      <4>1. docker'[a] = docker[a]
        BY <2>1, <3>2, RemoveLeaves DEF Known
      <4> QED
        BY <2>2, <3>2, <4>1 DEF RunningIsKnown
    <3> QED
      BY <3>1, <3>2
  <2> QED
    BY <2>1, <2>2 DEF RunningIsKnown
<1>8. ASSUME NEW c \in Clients, Arrive(c)
      PROVE  RunningIsKnown'
  BY <1>1, <1>2, <1>8 DEF Arrive, CheckLimit, ReadApplication, ListVersions
<1>9. ASSUME NEW c \in Clients, Handler(c)
      PROVE  RunningIsKnown'
  BY <1>1, <1>3, <1>4, <1>9
     DEF Handler, CreateApplication, UpdateApplication, Reread, ListLatest, PutAllTraffic,
         DeployNothing, DeleteApplication, ReadVersion, GetTraffic, DeleteVersion
<1>10. ASSUME NEW a \in AppIds, NEW targets \in SUBSET (1 .. madeVers), PutTraffic(a, targets)
       PROVE  RunningIsKnown'
  BY <1>1, <1>10 DEF PutTraffic
<1>11. CASE UNCHANGED vars
  BY <1>1, <1>11 DEF vars
<1> QED
  BY <1>5, <1>6, <1>7, <1>8, <1>9, <1>10, <1>11 DEF Next

\* The manager and Docker agree however requests, the monitor, exits, failing
\* docker commands and the shutdown interleave: what the manager knows is what
\* Docker has, and what runs it knows, but for a container about which a docker
\* command failed.
THEOREM RunningAlwaysKnown == Spec => []RunningIsKnown
<1>1. Init => RunningIsKnown
  BY DEF Init, RunningIsKnown
<1>2. IInv /\ RunningIsKnown /\ [Next]_vars => RunningIsKnown'
  BY KnownWithNext
<1> QED
  BY <1>1, <1>2, Invariance, PTL DEF Spec
-----------------------------------------------------------------------------
(* Applications and their containers *)

\* What HealthyIsServed comes down to between the steps of a handler.  An
\* application loses its container, or is to be given its first, only at a
\* request that is still to start one or to delete the application ...
Starts(c) == At(c, "delete") \/ (At(c, "start") /\ image[req[c].ver] # "bare")

Started(a) == \A c \in Clients : req[c].app = a => ~ Starts(c)

\* ... and one that never had a container has as its latest version one without
\* a registry, or one that a request has yet to deploy.
OnWay(c, a) ==
    /\ req[c].app = a
    /\ \/ At(c, "reread")
       \/ req[c].pc \in {"list", "put", "stop"} /\ req[c].ver = Last(versions[a])

Bare(a) ==
    /\ docker[a] = None
    /\ \/ image[Last(versions[a])] = "bare"
       \/ \E c \in Clients : OnWay(c, a)

ServedApp(a) ==
    open /\ Exists(a) /\ status[a] = "Healthy" /\ Started(a) => containers[a] # None \/ Bare(a)

\* Docker has nothing of an application that is still to be created.
Served == \A a \in AppIds : ServedApp(a) /\ (docker[a] # None => a <= madeApps)

\* A step moves the request of c only, and leaves the images of the versions
\* there are.
Moves(c) ==
    /\ \A d \in Clients : d # c => req'[d] = req[d]
    /\ \A v \in 1 .. madeVers : image'[v] = image[v]

\* The latest version stays the latest while none is made.
LEMMA LastKept ==
  ASSUME IInv, IInv', UNCHANGED owner, NEW a \in AppIds, Exists(a), Exists(a)'
  PROVE  Last(versions'[a]) = Last(versions[a])
<1>1. /\ versions[a] \in Seq(VersionNos) /\ versions[a] # << >>
      /\ versions'[a] \in Seq(VersionNos) /\ versions'[a] # << >>
  BY DEF IInv, TypeOK, StoreOK, LatestKept, Exists
<1>2. /\ Len(versions[a]) \in 1 .. Len(versions[a])
      /\ Len(versions'[a]) \in 1 .. Len(versions'[a])
  BY <1>1
<1>3. /\ Last(versions[a]) \in VersionNos /\ owner[Last(versions[a])] = a
      /\ Last(versions'[a]) \in VersionNos /\ owner'[Last(versions'[a])] = a
  BY <1>1, <1>2 DEF IInv, StoreOK, Owned, Last, Exists
<1>4. /\ Last(versions'[a]) <= Last(versions[a])
      /\ Last(versions[a]) <= Last(versions'[a])
  BY <1>3 DEF IInv, StoreOK, LatestKept, Last, Exists
<1> QED
  BY <1>3, <1>4 DEF VersionNos

\* An application stays served when nothing of it changes, no request that is
\* still to start or delete it is over, and it is as bare as it was.
LEMMA ServedFrame ==
  ASSUME Served, NEW a \in AppIds,
         open' => open, Exists(a)' => Exists(a),
         status'[a] = "Healthy" => status[a] = "Healthy",
         Started(a)' => Started(a), containers'[a] = containers[a],
         Exists(a)' /\ Bare(a) => Bare(a)'
  PROVE  ServedApp(a)'
  BY DEF Served, ServedApp

\* A step of a request that ends no excuse for an application.
LEMMA StartedFrame ==
  ASSUME IInv, NEW c \in Clients, Moves(c), NEW a \in AppIds,
         req[c].app = a => ~ Starts(c)
  PROVE  Started(a)' => Started(a)
<1>1. ASSUME NEW d \in Clients, req[d].app = a, Starts(d)
      PROVE  req'[d].app = a /\ Starts(d)'
  <2>1. d # c /\ req'[d] = req[d]
    BY <1>1 DEF Moves
  <2>2. CASE req[d].pc = "delete"
    BY <1>1, <2>1, <2>2 DEF Starts, At
  <2>3. CASE req[d].pc = "start" /\ image[req[d].ver] # "bare"
    <3>1. req[d].ver \in 1 .. madeVers
      BY <2>3, AppInHand DEF VersionNos
    <3>2. image'[req[d].ver] = image[req[d].ver]
      BY <3>1 DEF Moves
    <3> QED
      BY <1>1, <2>1, <2>3, <3>2 DEF Starts, At
  <2> QED
    BY <1>1, <2>2, <2>3 DEF Starts, At
<1> QED
  BY <1>1 DEF Started

\* A step that leaves the latest version, and each request on its way to deploy
\* it, where they were.
LEMMA BareFrame ==
  ASSUME IInv, NEW c \in Clients, Moves(c), NEW a \in AppIds, Exists(a),
         docker'[a] = docker[a], Last(versions'[a]) = Last(versions[a]),
         OnWay(c, a) => OnWay(c, a)'
  PROVE  Bare(a) => Bare(a)'
<1>1. image'[Last(versions[a])] = image[Last(versions[a])]
  <2>1. Last(versions[a]) \in 1 .. madeVers
    BY LastTyped DEF VersionNos
  <2> QED
    BY <2>1 DEF Moves
<1>2. \A d \in Clients : OnWay(d, a) => OnWay(d, a)'
  BY DEF OnWay, Moves, At
<1> QED
  BY <1>1, <1>2 DEF Bare

\* A step of a request before its start that makes no version and leaves the
\* containers, the statuses and what exists alone.
LEMMA ServedOnTheWay ==
  ASSUME IInv, IInv', Served, NEW c \in Clients, Moves(c), ~ Starts(c),
         UNCHANGED <<owner, status, containers, docker, open, madeApps>>,
         \A a \in AppIds : Exists(a)' => Exists(a),
         \A a \in AppIds : Exists(a)' /\ OnWay(c, a) => OnWay(c, a)'
  PROVE  Served'
<1>1. ASSUME NEW a \in AppIds
      PROVE  ServedApp(a)'
  <2>1. Started(a)' => Started(a)
    BY StartedFrame
  <2>2. ASSUME Exists(a)'
        PROVE  Bare(a) => Bare(a)'
    <3>1. Exists(a) /\ Last(versions'[a]) = Last(versions[a])
      BY <2>2, LastKept
    <3> QED
      BY <2>2, <3>1, BareFrame
  <2> QED
    BY <2>1, <2>2, ServedFrame
<1> QED
  BY <1>1 DEF Served

\* The same for one that was not on its way to deploy a version.
LEMMA ServedElsewhere ==
  ASSUME IInv, IInv', Served, NEW c \in Clients, Moves(c),
         req[c].pc \in {"idle", "read", "traffic", "deleteVersion"},
         UNCHANGED <<owner, status, containers, docker, open, madeApps>>,
         \A a \in AppIds : Exists(a)' => Exists(a)
  PROVE  Served'
<1>1. ~ Starts(c) /\ \A a \in AppIds : ~ OnWay(c, a)
  BY DEF Starts, OnWay, At
<1> QED
  BY <1>1, ServedOnTheWay

\* A new version is its maker's to deploy.
LEMMA ServedWithUpdate ==
  ASSUME IInv, IInv', Served, NEW c \in Clients, UpdateApplication(c)
  PROVE  Served'
<1> DEFINE a == req[c].app
<1>1. /\ req[c].pc = "update" /\ UNCHANGED <<status, containers, docker, open, madeApps>>
      /\ \A d \in Clients : d # c => req'[d] = req[d]
  BY DEF UpdateApplication, At, Goto, Respond, IInv, TypeOK
<1>2. a \in AppIds /\ req[c] \in Request
  BY <1>1, AppInHand, InHand
<1>3. ~ Starts(c) /\ \A b \in AppIds : ~ OnWay(c, b)
  BY <1>1 DEF Starts, OnWay, At
<1>4. CASE ~ Exists(a)
  <2>1. UNCHANGED <<versions, image, owner>>
    BY <1>4 DEF UpdateApplication
  <2> QED
    BY <1>1, <1>3, <2>1, ServedOnTheWay DEF Moves, Exists
<1>5. CASE Exists(a)
  <2>1. /\ \A b \in AppIds : b # a => versions'[b] = versions[b]
        /\ req'[c].app = a /\ req'[c].pc = "reread"
    BY <1>2, <1>5 DEF UpdateApplication, Goto, Request, IInv, TypeOK
  <2>2. Moves(c)
    <3>1. madeVers \in Nat
      BY ConstantsAssumption DEF IInv, TypeOK
    <3>2. PICK img : image' = [image EXCEPT ![madeVers + 1] = img]
      BY <1>5 DEF UpdateApplication
    <3> QED
      BY <1>1, <3>1, <3>2, ConstantsAssumption DEF Moves, IInv, TypeOK, VersionNos
  <2>3. ASSUME NEW b \in AppIds
        PROVE  ServedApp(b)'
    <3>1. Started(b)' => Started(b)
      BY <1>3, <2>2, StartedFrame
    <3>2. CASE b = a
      <4>1. OnWay(c, b)'
        BY <2>1, <3>2 DEF OnWay, At
      <4>2. Bare(b) => Bare(b)'
        BY <1>1, <4>1 DEF Bare
      <4> QED
        BY <1>1, <1>5, <3>1, <3>2, <4>2, ServedFrame
    <3>3. CASE b # a
      <4>1. Exists(b)' => Exists(b)
        BY <2>1, <3>3 DEF Exists
      <4>2. Exists(b) => (Bare(b) => Bare(b)')
        BY <1>1, <1>3, <2>1, <2>2, <3>3, BareFrame
      <4> QED
        BY <1>1, <3>1, <4>1, <4>2, ServedFrame
    <3> QED
      BY <3>2, <3>3
  <2> QED
    BY <1>1, <2>3 DEF Served
<1> QED
  BY <1>4, <1>5

\* A request that finds no registry leaves the application as it is.
LEMMA ServedWithNothing ==
  ASSUME IInv, IInv', Served, NEW c \in Clients, DeployNothing(c)
  PROVE  Served'
<1>1. /\ req[c].pc \in {"stop", "start"} /\ image[req[c].ver] = "bare"
      /\ UNCHANGED <<versions, owner, image, status, containers, docker, open, madeApps, madeVers>>
      /\ \A d \in Clients : d # c => req'[d] = req[d]
  BY DEF DeployNothing, At, Respond, store, IInv, TypeOK
<1>2. ~ Starts(c) /\ Moves(c)
  BY <1>1 DEF Starts, Moves, At
<1>3. ASSUME NEW a \in AppIds
      PROVE  ServedApp(a)'
  <2>1. Started(a)' => Started(a)
    BY <1>2, StartedFrame
  <2>2. ASSUME Bare(a)
        PROVE  Bare(a)'
    <3>1. CASE OnWay(c, a)
      <4>1. image[Last(versions[a])] = "bare"
        BY <1>1, <3>1 DEF OnWay, At
      <4> QED
        BY <1>1, <2>2, <4>1 DEF Bare
    <3>2. CASE ~ OnWay(c, a)
      <4>1. \A d \in Clients : OnWay(d, a) => OnWay(d, a)'
        BY <1>1, <3>2 DEF OnWay, At
      <4> QED
        BY <1>1, <2>2, <4>1 DEF Bare
    <3> QED
      BY <3>1, <3>2
  <2> QED
    BY <1>1, <2>1, <2>2, ServedFrame DEF Exists
<1> QED
  BY <1>1, <1>3 DEF Served

\* A request that is to start or to delete its application excuses it.
LEMMA ServedWithStop ==
  ASSUME IInv, Served, NEW c \in Clients, NEW a \in AppIds, StopContainer(a),
         \A d \in Clients : d # c => req'[d] = req[d],
         ~ Starts(c), \A b \in AppIds : OnWay(c, b) => b = a,
         req'[c].app = a, Starts(c)',
         UNCHANGED <<store, open>>
  PROVE  Served'
<1>1. ~ Started(a)' /\ Moves(c)
  BY DEF Started, Moves, store
<1>2. ASSUME NEW b \in AppIds
      PROVE  ServedApp(b)'
  <2>1. CASE b = a
    BY <1>1, <2>1 DEF ServedApp
  <2>2. CASE b # a
    <3>1. containers'[b] = containers[b] /\ docker'[b] = docker[b]
      BY <2>2, StopLeaves DEF IInv, TypeOK
    <3>2. Started(b)' => Started(b)
      BY <1>1, StartedFrame
    <3>3. Exists(b) => (Bare(b) => Bare(b)')
      BY <1>1, <2>2, <3>1, BareFrame DEF store
    <3> QED
      BY <3>1, <3>2, <3>3, ServedFrame DEF store, Exists
  <2> QED
    BY <2>1, <2>2
<1>3. \A b \in AppIds : docker'[b] # None => docker[b] # None
  BY StopLeaves
<1> QED
  BY <1>2, <1>3 DEF Served, store

\* The start of a container gives the application one, or says that it has none.
LEMMA ServedWithStart ==
  ASSUME IInv, Served, NEW c \in Clients, StartContainer(c)
  PROVE  Served'
<1>1. PICK a \in AppIds, v \in VersionNos :
        /\ a = req[c].app /\ v = req[c].ver /\ a <= madeApps
        /\ Runs(a, v) \/ ExitsAtOnce(a, v) \/ RunsUnseen(a, v) \/ Fails(a, v)
  <2>1. req[c].pc = "start"
    BY DEF StartContainer, At
  <2>2. /\ req[c].app \in AppIds /\ req[c].ver \in VersionNos /\ req[c].app \in 1 .. madeApps
    BY <2>1, AppInHand
  <2> QED
    BY <2>2 DEF StartContainer
<1>2. /\ Moves(c) /\ ~ OnWay(c, a)
      /\ UNCHANGED <<versions, open, madeApps>>
  BY DEF StartContainer, At, Respond, Moves, OnWay, IInv, TypeOK
<1>3. /\ containers'[a] # None \/ ~ Exists(a) \/ status'[a] = "UnHealthy"
      /\ \A b \in AppIds : b # a =>
           containers'[b] = containers[b] /\ status'[b] = status[b] /\ docker'[b] = docker[b]
  <2>1. v # None
    BY NoneAssumption DEF VersionNos
  <2>2. CASE Runs(a, v)
    BY <2>1, <2>2 DEF Runs, SetStatus, IInv, TypeOK
  <2>3. CASE ExitsAtOnce(a, v)
    BY <2>3 DEF ExitsAtOnce, SetStatus, IInv, TypeOK
  <2>4. CASE RunsUnseen(a, v)
    BY <2>4 DEF RunsUnseen, SetStatus, IInv, TypeOK
  <2>5. CASE Fails(a, v)
    BY <2>5 DEF Fails, SetStatus, IInv, TypeOK
  <2> QED
    BY <1>1, <2>2, <2>3, <2>4, <2>5
<1>4. ASSUME NEW b \in AppIds
      PROVE  ServedApp(b)'
  <2>1. CASE b = a
    BY <1>2, <1>3, <2>1 DEF ServedApp, Exists
  <2>2. CASE b # a
    <3>1. Started(b)' => Started(b)
      BY <1>1, <1>2, <2>2, StartedFrame
    <3>2. ~ OnWay(c, b)
      BY <1>1, <2>2 DEF OnWay, At
    <3>3. Exists(b) => (Bare(b) => Bare(b)')
      BY <1>2, <1>3, <2>2, <3>2, BareFrame
    <3> QED
      BY <1>2, <1>3, <2>2, <3>1, <3>3, ServedFrame DEF Exists
  <2> QED
    BY <2>1, <2>2
<1>5. \A b \in AppIds : docker'[b] # None => b <= madeApps
  BY <1>1, <1>3 DEF Served
<1> QED
  BY <1>2, <1>4, <1>5 DEF Served

\* A new application comes with the request that is to start its container, or
\* with a version that names no registry.
LEMMA ServedWithCreate ==
  ASSUME IInv, Served, NEW c \in Clients, CreateApplication(c)
  PROVE  Served'
<1>1. PICK a \in AppIds, v \in VersionNos : a = madeApps + 1 /\ v = madeVers + 1
  BY DEF CreateApplication
<1>2. /\ madeApps \in Nat /\ madeVers \in Nat
      /\ madeApps' = a /\ UNCHANGED <<containers, docker, open>>
      /\ req[c].pc = "create" /\ \A d \in Clients : d # c => req'[d] = req[d]
  BY <1>1, ConstantsAssumption DEF CreateApplication, At, IInv, TypeOK
<1>3. /\ req'[c].app = a /\ req'[c].pc = "start" /\ req'[c].ver = v
      /\ versions'[a] = <<v>>
      /\ \A b \in AppIds : b # a => versions'[b] = versions[b] /\ status'[b] = status[b]
  BY <1>1 DEF CreateApplication, Idle, IInv, TypeOK
<1>4. Moves(c)
  BY <1>1, <1>2 DEF CreateApplication, Moves, IInv, TypeOK, VersionNos
<1>5. docker[a] = None
  BY <1>1, <1>2 DEF Served
<1>6. ~ Starts(c) /\ \A b \in AppIds : ~ OnWay(c, b)
  BY <1>2 DEF Starts, OnWay, At
<1>7. ASSUME NEW b \in AppIds
      PROVE  ServedApp(b)'
  <2>1. CASE b = a /\ image'[v] # "bare"
    <3>1. Starts(c)'
      BY <1>3, <2>1 DEF Starts, At
    <3> QED
      BY <1>3, <2>1, <3>1 DEF ServedApp, Started
  <2>2. CASE b = a /\ image'[v] = "bare"
    <3>1. Last(versions'[a]) = v
      BY <1>3 DEF Last
    <3>2. Bare(b)'
      BY <1>2, <1>5, <2>2, <3>1 DEF Bare, Last
    <3> QED
      BY <3>2 DEF ServedApp
  <2>3. CASE b # a
    <3>1. Started(b)' => Started(b)
      BY <1>4, <1>6, StartedFrame
    <3>2. Exists(b) => (Bare(b) => Bare(b)')
      BY <1>2, <1>3, <1>4, <1>6, <2>3, BareFrame
    <3> QED
      BY <1>2, <1>3, <2>3, <3>1, <3>2, ServedFrame DEF Exists
  <2> QED
    BY <2>1, <2>2, <2>3
<1>8. \A b \in AppIds : docker'[b] # None => b <= madeApps'
  BY <1>1, <1>2 DEF Served, AppIds
<1> QED
  BY <1>7, <1>8 DEF Served

\* The application that a request deletes is gone.
LEMMA ServedWithDelete ==
  ASSUME IInv, Served, NEW c \in Clients, DeleteApplication(c)
  PROVE  Served'
<1> DEFINE a == req[c].app
<1>1. a \in AppIds
  BY AppInHand DEF DeleteApplication, At
<1>2. /\ Moves(c)
      /\ versions'[a] = None
      /\ \A b \in AppIds : b # a => versions'[b] = versions[b]
      /\ UNCHANGED <<status, containers, docker, open, madeApps>>
  BY <1>1 DEF DeleteApplication, Respond, Moves, IInv, TypeOK
<1>3. \A b \in AppIds : ~ OnWay(c, b)
  BY DEF DeleteApplication, At, OnWay
<1>4. ASSUME NEW b \in AppIds
      PROVE  ServedApp(b)'
  <2>1. CASE b = a
    BY <1>2, <2>1 DEF ServedApp, Exists
  <2>2. CASE b # a
    <3>1. Started(b)' => Started(b)
      BY <1>2, <2>2, StartedFrame
    <3>2. Exists(b) => (Bare(b) => Bare(b)')
      BY <1>2, <1>3, <2>2, BareFrame
    <3> QED
      BY <1>2, <2>2, <3>1, <3>2, ServedFrame DEF Exists
  <2> QED
    BY <2>1, <2>2
<1> QED
  BY <1>2, <1>4 DEF Served

\* Nothing of an application but its container in Docker is touched, and that is
\* one there was.
LEMMA ServedInDocker ==
  ASSUME Served, NEW a \in AppIds,
         UNCHANGED <<versions, image, req, open>>,
         containers'[a] = containers[a], status'[a] = status[a],
         docker[a] = None => docker'[a] = None
  PROVE  ServedApp(a)'
<1>1. Bare(a) => Bare(a)'
  BY DEF Bare, OnWay, At
<1> QED
  BY <1>1, ServedFrame DEF Exists, Started, Starts, At

\* The monitor marks each application whose container it drops.
LEMMA ServedWithMonitor ==
  ASSUME IInv, Served, CheckContainers
  PROVE  Served'
<1>1. UNCHANGED <<versions, image, req, open, madeApps>>
  BY DEF CheckContainers
<1>2. PICK blind \in MayFail("inspect", Known) : \A a \in AppIds :
        /\ a \notin Unseen(blind) => containers'[a] = containers[a] /\ status'[a] = status[a]
        /\ a \in Unseen(blind) /\ Exists(a) => status'[a] = "UnHealthy"
        /\ docker'[a] = IF a \in blind THEN Lost(a) ELSE docker[a]
  BY DEF CheckContainers
<1>3. \A a \in AppIds : docker[a] = None => docker'[a] = None
  BY <1>2 DEF Lost
<1>4. ASSUME NEW a \in AppIds
      PROVE  ServedApp(a)'
  <2>1. CASE a \in Unseen(blind)
    BY <1>1, <1>2, <2>1 DEF ServedApp, Exists
  <2>2. CASE a \notin Unseen(blind)
    BY <1>1, <1>2, <1>3, <2>2, ServedInDocker
  <2> QED
    BY <2>1, <2>2
<1> QED
  BY <1>1, <1>3, <1>4 DEF Served

LEMMA ServedWithArrival ==
  ASSUME IInv, IInv', Served, NEW c \in Clients, Arrive(c)
  PROVE  Served'
<1>1. ASSUME req[c].pc = "idle", UNCHANGED <<store, containers, docker, open>>,
             \A d \in Clients : d # c => req'[d] = req[d]
      PROVE  Served'
  BY <1>1, ServedElsewhere DEF store, Exists, Moves
<1>2. ASSUME NEW img \in Images, CheckLimit(c, img)
      PROVE  Served'
  BY <1>1, <1>2 DEF CheckLimit, Accepts, IInv, TypeOK
<1>3. ASSUME NEW a \in 1 .. madeApps, NEW img \in Images \cup {None}, NEW all \in BOOLEAN,
             ReadApplication(c, a, img, all)
      PROVE  Served'
  BY <1>1, <1>3 DEF ReadApplication, Accepts, IInv, TypeOK
<1>4. ASSUME NEW a \in 1 .. madeApps, StopForDelete(c, a)
      PROVE  Served'
  <2>1. a \in AppIds
    BY ConstantsAssumption DEF IInv, TypeOK, AppIds
  <2>2. /\ \A d \in Clients : d # c => req'[d] = req[d]
        /\ req'[c].app = a /\ req'[c].pc = "delete"
    BY <1>4 DEF StopForDelete, Begin, Idle, IInv, TypeOK
  <2>3. ~ Starts(c) /\ Starts(c)' /\ \A b \in AppIds : ~ OnWay(c, b)
    BY <1>4, <2>2 DEF StopForDelete, Accepts, Starts, OnWay, At
  <2> QED
    BY <1>4, <2>1, <2>2, <2>3, ServedWithStop DEF StopForDelete
<1>5. ASSUME NEW a \in 1 .. madeApps, NEW v \in 1 .. madeVers, ListVersions(c, a, v)
      PROVE  Served'
  BY <1>1, <1>5 DEF ListVersions, Accepts, IInv, TypeOK
<1> QED
  BY <1>2, <1>3, <1>4, <1>5 DEF Arrive

\* A request on its way to deploy the latest version stays on it.
LEMMA ServedOnward ==
  ASSUME IInv, IInv', Served, NEW c \in Clients, Reread(c) \/ ListLatest(c) \/ PutAllTraffic(c)
  PROVE  Served'
<1> DEFINE a == req[c].app
<1>1. /\ req[c].pc \in {"reread", "list", "put"}
      /\ UNCHANGED <<versions, owner, image, status, containers, docker, open, madeApps, madeVers>>
  BY DEF Reread, ListLatest, PutAllTraffic, At, store
<1>2. a \in AppIds /\ req[c] \in Request
  BY <1>1, AppInHand, InHand
<1>3. \A d \in Clients : d # c => req'[d] = req[d]
  BY DEF Reread, ListLatest, PutAllTraffic, Goto, Respond, IInv, TypeOK
<1>4. CASE Reread(c)
  <2>1. Exists(a) => /\ req'[c].app = a /\ req'[c].pc \in {"list", "stop"}
                     /\ req'[c].ver = Last(versions[a])
    BY <1>2, <1>4 DEF Reread, Request, IInv, TypeOK
  <2>2. \A b \in AppIds : Exists(b)' /\ OnWay(c, b) => OnWay(c, b)'
    BY <1>1, <2>1 DEF OnWay, Exists, At
  <2> QED
    BY <1>1, <1>3, <2>2, ServedOnTheWay DEF Starts, Moves, Exists, At
<1>5. CASE ListLatest(c) \/ PutAllTraffic(c)
  <2>1. /\ req'[c].app = a /\ req'[c].pc \in {"put", "stop"} /\ req'[c].ver = req[c].ver
        /\ req[c].pc \in {"list", "put"}
    BY <1>2, <1>5 DEF ListLatest, PutAllTraffic, Goto, At, Request, IInv, TypeOK
  <2>2. \A b \in AppIds : Exists(b)' /\ OnWay(c, b) => OnWay(c, b)'
    BY <1>1, <2>1 DEF OnWay, At
  <2> QED
    BY <1>1, <1>3, <2>2, ServedOnTheWay DEF Starts, Moves, Exists, At
<1> QED
  BY <1>4, <1>5

LEMMA ServedWithHandler ==
  ASSUME IInv, IInv', Served, NEW c \in Clients, Handler(c)
  PROVE  Served'
<1>1. ASSUME req[c].pc \in {"read", "traffic", "deleteVersion"},
             UNCHANGED <<owner, image, status, containers, docker, open, madeApps>>,
             \A a \in AppIds : Exists(a)' => Exists(a),
             \A d \in Clients : d # c => req'[d] = req[d]
      PROVE  Served'
  BY <1>1, ServedElsewhere DEF Moves
<1>2. CASE Stop(c)
  <2>1. req[c].pc = "stop" /\ image[req[c].ver] # "bare"
    BY <1>2 DEF Stop, At
  <2>2. req[c].app \in AppIds /\ req[c] \in Request
    BY <2>1, AppInHand, InHand
  <2>3. /\ \A d \in Clients : d # c => req'[d] = req[d]
        /\ req'[c].app = req[c].app /\ req'[c].pc = "start" /\ req'[c].ver = req[c].ver
        /\ UNCHANGED image
    BY <1>2, <2>2 DEF Stop, store, Request, IInv, TypeOK
  <2>4. /\ ~ Starts(c) /\ Starts(c)'
        /\ \A b \in AppIds : OnWay(c, b) => b = req[c].app
    BY <2>1, <2>3 DEF Starts, OnWay, At
  <2> QED
    BY <1>2, <2>2, <2>3, <2>4, ServedWithStop DEF Stop
<1>3. CASE ReadVersion(c)
  BY <1>1, <1>3 DEF ReadVersion, At, Goto, Respond, store, Exists, IInv, TypeOK
<1>4. CASE GetTraffic(c)
  BY <1>1, <1>4 DEF GetTraffic, At, Goto, Respond, store, Exists, IInv, TypeOK
<1>5. CASE DeleteVersion(c)
  <2>1. \A a \in AppIds : Exists(a)' => Exists(a)
    BY <1>5 DEF DeleteVersion, Has, Exists, IInv, TypeOK
  <2>2. \A d \in Clients : d # c => req'[d] = req[d]
    BY <1>5 DEF DeleteVersion, Respond, IInv, TypeOK
  <2> QED
    BY <1>1, <1>5, <2>1, <2>2 DEF DeleteVersion, At
<1> QED
  BY <1>2, <1>3, <1>4, <1>5, ServedOnward, ServedWithUpdate, ServedWithNothing,
     ServedWithCreate, ServedWithStart, ServedWithDelete
     DEF Handler

LEMMA ServedWithNext ==
  ASSUME IInv, IInv', Served, [Next]_vars
  PROVE  Served'
<1>1. ASSUME UNCHANGED <<versions, image, status, containers, req, open, madeApps>>,
             \A a \in AppIds : docker[a] = None => docker'[a] = None
      PROVE  Served'
  <2>1. \A a \in AppIds : ServedApp(a)'
    BY <1>1, ServedInDocker
  <2> QED
    BY <1>1, <2>1 DEF Served
<1>2. ASSUME NEW a \in AppIds, NEW targets \in SUBSET (1 .. madeVers), PutTraffic(a, targets)
      PROVE  Served'
  BY <1>1, <1>2 DEF PutTraffic
<1>3. ASSUME NEW a \in AppIds, Exit(a)
      PROVE  Served'
  <2>1. \A b \in AppIds : docker[b] = None => docker'[b] = None
    BY <1>3 DEF Exit, IInv, TypeOK
  <2> QED
    BY <1>1, <1>3, <2>1 DEF Exit, store
<1>4. CASE Close
  <2>1. \A a \in AppIds : docker'[a] # None => docker[a] # None
    BY <1>4, RemoveLeaves DEF Close, Known
  <2> QED
    BY <1>4, <2>1 DEF Close, Served, ServedApp, store
<1>5. CASE UNCHANGED vars
  BY <1>1, <1>5 DEF vars, store
<1> QED
  BY <1>2, <1>3, <1>4, <1>5, ServedWithArrival, ServedWithHandler, ServedWithMonitor DEF Next

\* An application that is shown as Healthy has a container, or has as its latest
\* version one that names no registry and never had a container, whatever
\* starts, stops, exits, failing docker commands and turns of the monitor its
\* requests are interleaved with: a start that another request's container makes
\* fail says so.
THEOREM HealthyAlwaysServed == Spec => []HealthyIsServed
<1>1. Init => Served
  BY DEF Init, Served, ServedApp, Exists
<1>2. IInv /\ IInv' /\ Served /\ [Next]_vars => Served'
  BY ServedWithNext
<1>3. Served => HealthyIsServed
  BY DEF Served, ServedApp, Started, Bare, OnWay, HealthyIsServed, At
<1> QED
  BY <1>1, <1>2, <1>3, Invariance, PTL DEF Spec
=============================================================================
