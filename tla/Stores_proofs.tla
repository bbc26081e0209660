---------------------------- MODULE Stores_proofs ----------------------------
(***************************************************************************)
(* Proofs about the stores: of each an inductive invariant of its own      *)
(* instance, and what follows from it.  They say nothing of the process:   *)
(* that it serves one service from its start to its end, and so keeps the  *)
(* invariant of that one, is for Sakumock_proofs.  Of a store X, XStarts   *)
(* and XSteps show its invariant XInv, XRests that a step of nobody keeps  *)
(* it, and XKeeps what it implies.                                         *)
(***************************************************************************)
EXTENDS Stores, Orders, FiniteSetTheorems, WellFoundedInduction, TLAPS

-----------------------------------------------------------------------------
(* Orders *)

\* A set of numbers that is not empty has a least one: induction, as far as it is
\* needed here.
LEMMA LeastNumber == ASSUME NEW T, T \subseteq Nat, T # {} PROVE \E x \in T : \A y \in T : x <= y
<1> DEFINE R == OpToRel(<, Nat)
<1>1. IsWellFoundedOn(R, Nat)
  BY NatLessThanWellFounded
<1> HIDE DEF R
<1>2. PICK x \in T : \A y \in T : ~ (<<y, x>> \in R)
  BY <1>1, WFMin
<1>3. \A y \in T : ~ (y < x)
  BY <1>2 DEF R, OpToRel
<1> QED
  BY <1>3

KeptStep(s, S, g, i) ==
    IF i = 0 THEN <<>> ELSE IF s[i] \in S THEN Append(g[i - 1], s[i]) ELSE g[i - 1]
IsKept(s, S, n, g) == g = [i \in 0 .. n |-> KeptStep(s, S, g, i)]

\* The loop of Among has a result for every turn: else there is a first turn without.
LEMMA KeptExists == ASSUME NEW s, NEW S, NEW n \in Nat PROVE \E g : IsKept(s, S, n, g)
<1> DEFINE Bad == {m \in Nat : ~ \E g : IsKept(s, S, m, g)}
<1>1. SUFFICES ASSUME Bad # {} PROVE FALSE
  OBVIOUS
<1>2. PICK m \in Bad : \A k \in Bad : m <= k
  BY <1>1, LeastNumber
<1>3. m # 0
  <2>1. IsKept(s, S, 0, [i \in 0 .. 0 |-> <<>>])
    BY DEF IsKept, KeptStep
  <2> QED BY <2>1
<1>4. m - 1 \in Nat /\ m - 1 \notin Bad
  BY <1>2, <1>3
<1>5. PICK g : IsKept(s, S, m - 1, g)
  BY <1>4
<1> DEFINE h == [i \in 0 .. m |-> IF i = m THEN KeptStep(s, S, g, m) ELSE g[i]]
<1>6. \A i \in 0 .. m : h[i] = KeptStep(s, S, h, i)
  <2>1. ASSUME NEW i \in 0 .. m PROVE h[i] = KeptStep(s, S, h, i)
    <3>1. i # 0 => h[i - 1] = g[i - 1]
      BY <1>2
    <3>2. i # m => g[i] = KeptStep(s, S, g, i)
      BY <1>2, <1>5 DEF IsKept
    <3> QED BY <3>1, <3>2, <1>2 DEF KeptStep
  <2> QED BY <2>1
<1>7. IsKept(s, S, m, h)
  BY <1>6 DEF IsKept
<1> QED BY <1>2, <1>7

\* Among is the last of them.
LEMMA AmongIsKept ==
  ASSUME NEW s, NEW S, Len(s) \in Nat
  PROVE  \E g : IsKept(s, S, Len(s), g) /\ Among(s, S) = g[Len(s)]
<1> DEFINE kept == CHOOSE g : g = [i \in 0 .. Len(s) |-> IF i = 0 THEN <<>>
            ELSE IF s[i] \in S THEN Append(g[i - 1], s[i]) ELSE g[i - 1]]
<1>1. PICK g : IsKept(s, S, Len(s), g)
  BY KeptExists
<1>2. g = [i \in 0 .. Len(s) |-> IF i = 0 THEN <<>>
            ELSE IF s[i] \in S THEN Append(g[i - 1], s[i]) ELSE g[i - 1]]
  BY <1>1 DEF IsKept, KeptStep
<1>3. kept = [i \in 0 .. Len(s) |-> IF i = 0 THEN <<>>
            ELSE IF s[i] \in S THEN Append(kept[i - 1], s[i]) ELSE kept[i - 1]]
  BY <1>2
<1>4. Among(s, S) = kept[Len(s)]
  BY DEF Among
<1> HIDE DEF kept
<1> QED
  BY <1>3, <1>4 DEF IsKept, KeptStep

\* f tells where in s the members of S stand that t consists of.
Picks(s, S, n, t, f) ==
    /\ f \in [1 .. Len(t) -> {i \in 1 .. n : s[i] \in S}]
    /\ \A j \in 1 .. Len(t) : t[j] = s[f[j]]
    /\ \A i, j \in 1 .. Len(t) : i < j => f[i] < f[j]
    /\ \A i \in 1 .. n : s[i] \in S => \E j \in 1 .. Len(t) : f[j] = i

\* What it holds after n turns is what it has picked from the first n.
LEMMA KeptPicks ==
  ASSUME NEW X, NEW s \in Seq(X), NEW S, NEW g, IsKept(s, S, Len(s), g)
  PROVE  \A n \in 0 .. Len(s) : g[n] \in Seq(X) /\ \E f : Picks(s, S, n, g[n], f)
<1> DEFINE Bad == {n \in 0 .. Len(s) : ~ (g[n] \in Seq(X) /\ \E f : Picks(s, S, n, g[n], f))}
<1>1. SUFFICES ASSUME Bad # {} PROVE FALSE
  OBVIOUS
<1>2. PICK n \in Bad : \A k \in Bad : n <= k
  <2>1. Bad \subseteq Nat
    OBVIOUS
  <2> QED
    BY <1>1, <2>1, LeastNumber
<1>3. g[n] = KeptStep(s, S, g, n)
  BY <1>2 DEF IsKept
<1>4. CASE n = 0
  <2>1. g[n] = <<>>
    BY <1>3, <1>4 DEF KeptStep
  <2>2. g[n] \in Seq(X)
    BY <2>1
  <2>3. Picks(s, S, n, g[n], [j \in 1 .. 0 |-> 0])
    BY <1>4, <2>1 DEF Picks
  <2> QED
    BY <1>2, <2>2, <2>3
<1>5. CASE n # 0
  <2>1. n - 1 \in 0 .. Len(s) /\ n \in 1 .. Len(s)
    BY <1>2, <1>5
  <2>2. g[n - 1] \in Seq(X)
    BY <1>2, <2>1
  <2>3. PICK f : Picks(s, S, n - 1, g[n - 1], f)
    BY <1>2, <2>1
  <2>4. CASE s[n] \in S
    <3> DEFINE l == Len(g[n - 1])
               h == [j \in 1 .. l + 1 |-> IF j = l + 1 THEN n ELSE f[j]]
    <3>1. g[n] = Append(g[n - 1], s[n]) /\ l \in Nat
      BY <1>3, <1>5, <2>2, <2>4 DEF KeptStep
    <3>2. /\ g[n] \in Seq(X) /\ Len(g[n]) = l + 1 /\ g[n][l + 1] = s[n]
          /\ \A j \in 1 .. l : g[n][j] = g[n - 1][j]
      BY <2>1, <2>2, <3>1
    <3> HIDE DEF l
    <3>3. \A j \in 1 .. l : f[j] \in 1 .. n - 1 /\ s[f[j]] \in S /\ g[n - 1][j] = s[f[j]]
      BY <2>3 DEF Picks, l
    <3>4. h \in [1 .. l + 1 -> {i \in 1 .. n : s[i] \in S}]
      BY <2>1, <2>4, <3>1, <3>3
    <3>5. \A j \in 1 .. l + 1 : g[n][j] = s[h[j]]
      BY <3>1, <3>2, <3>3
    <3>6. \A i, j \in 1 .. l + 1 : i < j => h[i] < h[j]
      BY <2>1, <2>3, <3>1, <3>3 DEF Picks, l
    <3>7. \A i \in 1 .. n : s[i] \in S => \E j \in 1 .. l + 1 : h[j] = i
      <4>1. ASSUME NEW i \in 1 .. n - 1, s[i] \in S
            PROVE  \E j \in 1 .. l + 1 : h[j] = i
        <5>1. PICK j \in 1 .. l : f[j] = i
          BY <2>3, <4>1 DEF Picks, l
        <5> QED
          BY <3>1, <5>1
      <4>2. h[l + 1] = n /\ l + 1 \in 1 .. l + 1
        BY <3>1
      <4> QED
        BY <2>1, <4>1, <4>2
    <3>8. Picks(s, S, n, g[n], h)
      BY <3>2, <3>4, <3>5, <3>6, <3>7 DEF Picks
    <3> QED
      BY <1>2, <3>2, <3>8
  <2>5. CASE s[n] \notin S
    <3>1. g[n] = g[n - 1]
      BY <1>3, <1>5, <2>5 DEF KeptStep
    <3>2. \A i \in 1 .. n : s[i] \in S => i \in 1 .. n - 1
      BY <2>1, <2>5
    <3>3. \A i \in 1 .. n - 1 : i \in 1 .. n
      BY <2>1
    <3>4. Picks(s, S, n, g[n], f)
      BY <2>3, <3>1, <3>2, <3>3 DEF Picks
    <3> QED
      BY <1>2, <2>2, <3>1, <3>4
  <2> QED
    BY <2>4, <2>5
<1> QED
  BY <1>4, <1>5

\* And in the end, from all.
LEMMA AmongPicks ==
  ASSUME NEW X, NEW s \in Seq(X), NEW S
  PROVE  Among(s, S) \in Seq(X) /\ \E f : Picks(s, S, Len(s), Among(s, S), f)
<1>1. Len(s) \in Nat
  OBVIOUS
<1>2. PICK g : IsKept(s, S, Len(s), g) /\ Among(s, S) = g[Len(s)]
  BY <1>1, AmongIsKept
<1> QED
  BY <1>1, <1>2, KeptPicks

\* What rises by one at least is never behind its number.
LEMMA Increasing ==
  ASSUME NEW n \in Nat, NEW m \in Nat, NEW f \in [1 .. m -> 1 .. n],
         \A i, j \in 1 .. m : i < j => f[i] < f[j]
  PROVE  \A j \in 1 .. m : j <= f[j]
<1> DEFINE Bad == {j \in 1 .. m : ~ (j <= f[j])}
<1>1. SUFFICES ASSUME Bad # {} PROVE FALSE
  OBVIOUS
<1>2. PICK j \in Bad : \A k \in Bad : j <= k
  <2>1. Bad \subseteq Nat
    OBVIOUS
  <2> QED
    BY <1>1, <2>1, LeastNumber
<1>3. j \in 1 .. m /\ f[j] < j /\ f[j] \in 1 .. n
  BY <1>2
<1>4. j # 1
  BY <1>3
<1>5. j - 1 \in 1 .. m /\ j - 1 \notin Bad
  BY <1>2, <1>3, <1>4
<1>6. j - 1 <= f[j - 1] /\ f[j - 1] < f[j] /\ f[j - 1] \in 1 .. n
  BY <1>3, <1>5
<1> QED
  BY <1>3, <1>6

\* What stays of a sequence: the members of S, each not behind where it was, and
\* once if it was there once.
LEMMA AmongMembers ==
  ASSUME NEW X, NEW s \in Seq(X), NEW S
  PROVE  /\ Among(s, S) \in Seq(X)
         /\ \A j \in 1 .. Len(Among(s, S)) :
              \E i \in 1 .. Len(s) : j <= i /\ s[i] \in S /\ Among(s, S)[j] = s[i]
         /\ \A i \in 1 .. Len(s) : s[i] \in S =>
              \E j \in 1 .. Len(Among(s, S)) : j <= i /\ Among(s, S)[j] = s[i]
<1> DEFINE t == Among(s, S)
<1>1. t \in Seq(X)
  BY AmongPicks
<1>2. PICK f : Picks(s, S, Len(s), t, f)
  BY AmongPicks
<1> HIDE DEF t
<1>3. Len(s) \in Nat /\ Len(t) \in Nat
  BY <1>1
<1>4. f \in [1 .. Len(t) -> 1 .. Len(s)]
  BY <1>2 DEF Picks
<1>5. \A i, j \in 1 .. Len(t) : i < j => f[i] < f[j]
  BY <1>2 DEF Picks
<1>6. \A j \in 1 .. Len(t) : j <= f[j]
  BY <1>3, <1>4, <1>5, Increasing
<1>7. \A j \in 1 .. Len(t) : \E i \in 1 .. Len(s) : j <= i /\ s[i] \in S /\ t[j] = s[i]
  BY <1>2, <1>4, <1>6 DEF Picks
<1>8. \A i \in 1 .. Len(s) : s[i] \in S => \E j \in 1 .. Len(t) : j <= i /\ t[j] = s[i]
  BY <1>2, <1>6 DEF Picks
<1> QED
  BY <1>1, <1>7, <1>8 DEF t

\* Three facts of it, in the form in which they are cited.
LEMMA AmongSeq == \A X : \A s \in Seq(X) : \A S : Among(s, S) \in Seq(X)
  BY AmongPicks

LEMMA AmongEarlier ==
  \A X : \A s \in Seq(X) : \A S : \A i \in 1 .. Len(s) : s[i] \in S =>
     \E j \in 1 .. Len(Among(s, S)) : j <= i /\ Among(s, S)[j] = s[i]
  BY AmongMembers

LEMMA AmongOnly ==
  \A X : \A s \in Seq(X) : \A S : \A j \in 1 .. Len(Among(s, S)) :
     \E i \in 1 .. Len(s) : j <= i /\ s[i] \in S /\ Among(s, S)[j] = s[i]
  BY AmongMembers

Once(s) == \A i, j \in 1 .. Len(s) : s[i] = s[j] => i = j

\* Nothing comes to be there twice.
LEMMA AmongOnce ==
  ASSUME NEW X, NEW s \in Seq(X), NEW S, Once(s)
  PROVE  Once(Among(s, S))
<1> DEFINE t == Among(s, S)
<1>1. t \in Seq(X)
  BY AmongPicks
<1>2. PICK f : Picks(s, S, Len(s), t, f)
  BY AmongPicks
<1> HIDE DEF t
<1>3. f \in [1 .. Len(t) -> 1 .. Len(s)] /\ Len(s) \in Nat /\ Len(t) \in Nat
  BY <1>1, <1>2 DEF Picks
<1>4. ASSUME NEW i \in 1 .. Len(t), NEW j \in 1 .. Len(t), t[i] = t[j] PROVE i = j
  <2>1. s[f[i]] = s[f[j]]
    BY <1>2, <1>4 DEF Picks
  <2>2. f[i] = f[j]
    BY <1>3, <2>1 DEF Once
  <2>3. f[i] \in Nat /\ ~ (i < j) /\ ~ (j < i)
    BY <1>2, <1>3, <2>2 DEF Picks
  <2> QED
    BY <1>3, <2>3
<1> QED
  BY <1>4 DEF Once, t

Elems(s) == {s[i] : i \in 1 .. Len(s)}

\* Members of the set stay, the others go.
LEMMA AmongElems ==
  ASSUME NEW X, NEW s \in Seq(X), NEW S
  PROVE  Elems(Among(s, S)) = Elems(s) \cap S
<1> DEFINE t == Among(s, S)
<1>1. \A j \in 1 .. Len(t) : \E i \in 1 .. Len(s) : s[i] \in S /\ t[j] = s[i]
  BY AmongOnly
<1>2. \A i \in 1 .. Len(s) : s[i] \in S => \E j \in 1 .. Len(t) : t[j] = s[i]
  BY AmongEarlier
<1> HIDE DEF t
<1>3. ASSUME NEW x \in Elems(t) PROVE x \in Elems(s) \cap S
  <2>1. PICK j \in 1 .. Len(t) : x = t[j]
    BY <1>3 DEF Elems
  <2>2. PICK i \in 1 .. Len(s) : s[i] \in S /\ t[j] = s[i]
    BY <1>1
  <2> QED
    BY <2>1, <2>2 DEF Elems
<1>4. ASSUME NEW x \in Elems(s) \cap S PROVE x \in Elems(t)
  <2>1. PICK i \in 1 .. Len(s) : x = s[i]
    BY <1>4 DEF Elems
  <2>2. PICK j \in 1 .. Len(t) : t[j] = s[i]
    BY <1>2, <1>4, <2>1
  <2> QED
    BY <2>1, <2>2 DEF Elems
<1>5. Elems(t) = Elems(s) \cap S
  BY <1>3, <1>4
<1> QED
  BY <1>5 DEF t

LEMMA ElemsEmpty == Elems(<<>>) = {} /\ Once(<<>>)
  BY DEF Elems, Once

LEMMA ElemsType == \A X : \A s \in Seq(X) : Elems(s) \subseteq X
  BY DEF Elems

\* The members of the slices that the handlers make of a slice.
LEMMA ElemsAppend ==
  ASSUME NEW X, NEW s \in Seq(X), NEW x \in X
  PROVE  /\ Append(s, x) \in Seq(X) /\ Elems(Append(s, x)) = Elems(s) \cup {x}
         /\ Once(s) /\ x \notin Elems(s) => Once(Append(s, x))
<1> DEFINE t == Append(s, x)
<1>1. /\ t \in Seq(X) /\ Len(t) = Len(s) + 1 /\ Len(s) \in Nat /\ t[Len(s) + 1] = x
      /\ \A i \in 1 .. Len(s) : t[i] = s[i]
  OBVIOUS
<1> HIDE DEF t
<1>2. \A i \in 1 .. Len(t) : i \in 1 .. Len(s) \/ i = Len(s) + 1
  BY <1>1
<1>3. 1 .. Len(s) \subseteq 1 .. Len(t) /\ Len(s) + 1 \in 1 .. Len(t)
  BY <1>1
<1>4. Elems(t) = Elems(s) \cup {x}
  BY <1>1, <1>2, <1>3 DEF Elems
<1>5. ASSUME Once(s), x \notin Elems(s) PROVE Once(t)
  BY <1>1, <1>2, <1>5 DEF Elems, Once
<1> QED
  BY <1>1, <1>4, <1>5 DEF t

LEMMA ElemsHeadTail ==
  ASSUME NEW X, NEW s \in Seq(X), s # <<>>
  PROVE  /\ Head(s) \in X /\ Tail(s) \in Seq(X)
         /\ Elems(s) = {Head(s)} \cup Elems(Tail(s))
<1> DEFINE t == Tail(s)
<1>1. /\ Len(s) \in Nat \ {0} /\ Head(s) = s[1] /\ s[1] \in X /\ t \in Seq(X)
      /\ Len(t) = Len(s) - 1 /\ \A i \in 1 .. Len(s) - 1 : t[i] = s[i + 1]
  OBVIOUS
<1> HIDE DEF t
<1>2. \A i \in 1 .. Len(t) : i + 1 \in 1 .. Len(s) /\ t[i] = s[i + 1]
  BY <1>1
<1>3. \A i \in 1 .. Len(s) : i = 1 \/ (i - 1 \in 1 .. Len(t) /\ t[i - 1] = s[i])
  BY <1>1
<1>4. 1 \in 1 .. Len(s)
  BY <1>1
<1>5. Elems(t) \subseteq Elems(s) /\ s[1] \in Elems(s)
  BY <1>2, <1>4 DEF Elems
<1>6. Elems(s) \subseteq {s[1]} \cup Elems(t)
  BY <1>3 DEF Elems
<1> QED
  BY <1>1, <1>5, <1>6 DEF t

\* What stays keeps its order.
LEMMA AmongOrder ==
  ASSUME NEW X, NEW s \in Seq(X), NEW S,
         NEW j \in 1 .. Len(Among(s, S)), NEW k \in 1 .. Len(Among(s, S)), j < k
  PROVE  \E i, l \in 1 .. Len(s) : i < l /\ Among(s, S)[j] = s[i] /\ Among(s, S)[k] = s[l]
<1> DEFINE t == Among(s, S)
<1>1. PICK f : Picks(s, S, Len(s), t, f)
  BY AmongPicks
<1> HIDE DEF t
<1>2. j \in 1 .. Len(t) /\ k \in 1 .. Len(t)
  BY DEF t
<1>3. f[j] \in 1 .. Len(s) /\ f[k] \in 1 .. Len(s) /\ f[j] < f[k] /\ t[j] = s[f[j]] /\ t[k] = s[f[k]]
  BY <1>1, <1>2 DEF Picks
<1> QED
  BY <1>3 DEF t

\* Taking IDs out of a slice leaves the others, none twice and in their order: that
\* is what removeFromOrder and the loops like it are for.
THEOREM AmongIsTheRest ==
  ASSUME NEW X, NEW s \in Seq(X), NEW S
  PROVE  /\ Among(s, S) \in Seq(X)
         /\ Elems(Among(s, S)) = Elems(s) \cap S
         /\ Once(s) => Once(Among(s, S))
         /\ \A j, k \in 1 .. Len(Among(s, S)) : j < k =>
              \E i, l \in 1 .. Len(s) :
                 i < l /\ Among(s, S)[j] = s[i] /\ Among(s, S)[k] = s[l]
<1>1. Once(s) => Once(Among(s, S))
  BY AmongOnce
<1>2. Elems(Among(s, S)) = Elems(s) \cap S
  BY AmongElems
<1> QED
  BY <1>1, <1>2, AmongSeq, AmongOrder

LEMMA ElemsConcat ==
  ASSUME NEW X, NEW s \in Seq(X), NEW u \in Seq(X)
  PROVE  /\ s \o u \in Seq(X) /\ Elems(s \o u) = Elems(s) \cup Elems(u)
         /\ Once(s) /\ Once(u) /\ Elems(s) \cap Elems(u) = {} => Once(s \o u)
<1> DEFINE t == s \o u
<1>1. /\ t \in Seq(X) /\ Len(t) = Len(s) + Len(u) /\ Len(s) \in Nat /\ Len(u) \in Nat
      /\ \A i \in 1 .. Len(s) : t[i] = s[i]
      /\ \A i \in 1 .. Len(u) : t[Len(s) + i] = u[i]
  OBVIOUS
<1> HIDE DEF t
<1>2. \A i \in 1 .. Len(t) : i \in 1 .. Len(s) \/ (i - Len(s) \in 1 .. Len(u) /\ t[i] = u[i - Len(s)])
  <2>1. ASSUME NEW i \in 1 .. Len(t), i \notin 1 .. Len(s)
        PROVE  i - Len(s) \in 1 .. Len(u) /\ t[i] = u[i - Len(s)]
    <3>1. i - Len(s) \in 1 .. Len(u) /\ Len(s) + (i - Len(s)) = i
      BY <1>1, <2>1
    <3> QED
      BY <1>1, <3>1
  <2> QED
    BY <2>1
<1>3. /\ \A i \in 1 .. Len(s) : i \in 1 .. Len(t)
      /\ \A i \in 1 .. Len(u) : Len(s) + i \in 1 .. Len(t)
  BY <1>1
<1>4. Elems(t) \subseteq Elems(s) \cup Elems(u)
  BY <1>1, <1>2 DEF Elems
<1>5. Elems(s) \cup Elems(u) \subseteq Elems(t)
  <2>1. \A i \in 1 .. Len(s) : s[i] \in Elems(t)
    BY <1>1, <1>3 DEF Elems
  <2>2. \A i \in 1 .. Len(u) : u[i] \in Elems(t)
    BY <1>1, <1>3 DEF Elems
  <2> QED
    BY <2>1, <2>2 DEF Elems
<1>6. ASSUME Once(s), Once(u), Elems(s) \cap Elems(u) = {},
             NEW i \in 1 .. Len(t), NEW j \in 1 .. Len(t), t[i] = t[j]
      PROVE  i = j
  <2>1. CASE i \in 1 .. Len(s) /\ j \in 1 .. Len(s)
    BY <1>1, <1>6, <2>1 DEF Once
  <2>2. CASE i \in 1 .. Len(s) /\ j \notin 1 .. Len(s)
    <3>1. t[i] \in Elems(s) /\ t[j] \in Elems(u)
      BY <1>1, <1>2, <2>2 DEF Elems
    <3> QED
      BY <1>6, <3>1
  <2>3. CASE i \notin 1 .. Len(s) /\ j \in 1 .. Len(s)
    <3>1. t[i] \in Elems(u) /\ t[j] \in Elems(s)
      BY <1>1, <1>2, <2>3 DEF Elems
    <3> QED
      BY <1>6, <3>1
  <2>4. CASE i \notin 1 .. Len(s) /\ j \notin 1 .. Len(s)
    <3>1. i - Len(s) = j - Len(s)
      BY <1>2, <1>6, <2>4 DEF Once
    <3> QED
      BY <1>1, <3>1
  <2> QED
    BY <2>1, <2>2, <2>3, <2>4
<1>7. Elems(t) = Elems(s) \cup Elems(u)
  BY <1>4, <1>5
<1> QED
  BY <1>1, <1>6, <1>7 DEF t, Once

-----------------------------------------------------------------------------
(* CloudHSM *)

\* A module and its instance count alike.
LEMMA HSMCards ==
    /\ \A S : HSM!Cardinality(S) = Cardinality(S)
    /\ \A S : HSM!IsFiniteSet(S) = IsFiniteSet(S)
  BY DEF HSM!Cardinality, Cardinality, HSM!IsFiniteSet, IsFiniteSet

\* IDs given out lie behind the counter; a license has one document.
HsmInv ==
    /\ HSM!TypeOK
    /\ hsms \subseteq 1 .. lastID /\ licenses \subseteq 1 .. lastID
    /\ hsms \cap licenses = {}
    /\ \A id \in HSM!HsmIDs :
         /\ clients[id] # None <=> id \in hsms
         /\ peers[id] # None <=> id \in hsms
         /\ docs[id] # None <=> id \in licenses
    /\ \A id \in hsms : clients[id] \subseteq (1 .. lastID) \ (hsms \cup licenses)
    /\ \A i, j \in hsms : i # j => clients[i] \cap clients[j] = {}
    /\ \A id \in licenses : \E d \in HSM!HsmIDs : docs[id] = {d}

LEMMA HsmStarts == ASSUME HSM!BoundsOK, HSM!Init PROVE HsmInv
  BY DEF HSM!Init, HsmInv, HSM!TypeOK, HSM!BoundsOK, HSM!HsmIDs

LEMMA HsmSteps == ASSUME HSM!BoundsOK, HsmInv, HSM!Next PROVE HsmInv'
<1> USE DEF HSM!BoundsOK, HsmInv, HSM!TypeOK, HSM!HsmIDs
<1>1. CASE HSM!CreateCloudHSM
  <2>1. /\ lastID' = lastID + 1 /\ lastID' \in HSM!HsmIDs
        /\ lastID' \notin hsms \cup licenses
        /\ \A id \in hsms : lastID' \notin clients[id]
    BY <1>1 DEF HSM!CreateCloudHSM, HSM!Take
  <2>2. /\ hsms' = hsms \cup {lastID'}
        /\ clients' = [clients EXCEPT ![lastID'] = {}]
        /\ peers' = [peers EXCEPT ![lastID'] = {}]
        /\ UNCHANGED <<licenses, docs, adding>>
    BY <1>1 DEF HSM!CreateCloudHSM
  <2> QED
    BY <2>1, <2>2
<1>2. ASSUME NEW id \in HSM!HsmIDs, HSM!DeleteCloudHSM(id) PROVE HsmInv'
  BY <1>2 DEF HSM!DeleteCloudHSM
<1>3. ASSUME NEW id \in HSM!HsmIDs, HSM!CreateClient(id) PROVE HsmInv'
  <2>1. /\ lastID' = lastID + 1 /\ lastID' \in HSM!HsmIDs
        /\ lastID' \notin hsms \cup licenses /\ id \in hsms
        /\ \A i \in hsms : lastID' \notin clients[i]
    BY <1>3 DEF HSM!CreateClient, HSM!Take
  <2>2. /\ clients' = [clients EXCEPT ![id] = @ \cup {lastID'}]
        /\ UNCHANGED <<hsms, peers, licenses, docs, adding>>
    BY <1>3 DEF HSM!CreateClient
  <2>3. HSM!TypeOK'
    BY <2>1, <2>2
  <2>4. \A i \in HSM!HsmIDs : clients'[i] # None <=> i \in hsms'
    BY <2>1, <2>2
  <2>5. \A i \in hsms' : clients'[i] \subseteq (1 .. lastID') \ (hsms' \cup licenses')
    BY <2>1, <2>2
  <2>6. \A i, j \in hsms' : i # j => clients'[i] \cap clients'[j] = {}
    BY <2>1, <2>2
  <2> QED
    BY <2>1, <2>2, <2>3, <2>4, <2>5, <2>6
<1>4. ASSUME NEW id \in HSM!HsmIDs, NEW c \in HSM!HsmIDs, HSM!DeleteClient(id, c) PROVE HsmInv'
  BY <1>4 DEF HSM!DeleteClient
<1>5. ASSUME NEW r \in Requests, NEW id \in HSM!HsmIDs, HSM!FindHSM(r, id) PROVE HsmInv'
  BY <1>5 DEF HSM!FindHSM
<1>6. ASSUME NEW r \in Requests, NEW p \in PeerNames, HSM!CreatePeer(r, p) PROVE HsmInv'
  BY <1>6 DEF HSM!CreatePeer
<1>7. ASSUME NEW id \in HSM!HsmIDs, NEW p \in PeerNames, HSM!DeletePeer(id, p) PROVE HsmInv'
  BY <1>7 DEF HSM!DeletePeer
<1>8. CASE HSM!CreateLicense
  <2>1. /\ lastID' = lastID + 2 /\ lastID' \in HSM!HsmIDs /\ lastID + 1 \in HSM!HsmIDs
        /\ lastID + 1 \notin hsms \cup licenses
        /\ \A id \in hsms : lastID + 1 \notin clients[id]
    BY <1>8 DEF HSM!CreateLicense, HSM!Take
  <2>2. /\ licenses' = licenses \cup {lastID + 1}
        /\ docs' = [docs EXCEPT ![lastID + 1] = {lastID'}]
        /\ UNCHANGED <<hsms, clients, peers, adding>>
    BY <1>8 DEF HSM!CreateLicense
  <2>3. HSM!TypeOK'
    BY <2>1, <2>2
  <2>4. \A id \in HSM!HsmIDs : docs'[id] # None <=> id \in licenses'
    BY <2>1, <2>2
  <2>5. \A id \in licenses' : \E d \in HSM!HsmIDs : docs'[id] = {d}
    BY <2>1, <2>2
  <2> QED
    BY <2>1, <2>2, <2>3, <2>4, <2>5
<1>9. ASSUME NEW id \in HSM!HsmIDs, HSM!DeleteLicense(id) PROVE HsmInv'
  <2>1. /\ licenses' = licenses \ {id} /\ docs' = [docs EXCEPT ![id] = None]
        /\ UNCHANGED <<hsms, clients, peers, lastID, adding>>
    BY <1>9 DEF HSM!DeleteLicense
  <2>2. \A i \in licenses' : \E d \in HSM!HsmIDs : docs'[i] = {d}
    BY <2>1
  <2>3. HSM!TypeOK'
    BY <2>1
  <2> QED
    BY <2>1, <2>2, <2>3
<1> QED
  BY <1>1, <1>2, <1>3, <1>4, <1>5, <1>6, <1>7, <1>8, <1>9
  DEF HSM!Next, HSM!PartitionOps, HSM!ClientOps, HSM!PeerOps, HSM!LicenseOps

LEMMA HsmKeeps == ASSUME HsmInv PROVE HSM!TypeOK /\ HSM!MapsAgree
<1>1. \A d : HSM!Cardinality({d}) = 1
  BY HSMCards, FS_Singleton
<1> QED
  BY <1>1 DEF HsmInv, HSM!MapsAgree

-----------------------------------------------------------------------------
(* Notification *)

\* Settings that a reordering holds are the last that were put, unless they were
\* put since, and then the routing was crossed.
NoteInv ==
    /\ Notes!TypeOK
    /\ \A r \in gone : settings[r] = None
    /\ \A r \in RoutingIDs : settings[r] = None /\ r \notin gone => accepted[r] = 0
    /\ \A r \in RoutingIDs :
         settings[r] # None /\ r \notin crossed => settings[r] = accepted[r]
    /\ \A h \in Requests :
         ordering[h] # None /\ ordering[h].at # None /\ ordering[h].at \notin crossed
           => ordering[h].read = accepted[ordering[h].at]

LEMMA NotesStart == ASSUME Notes!BoundsOK, Notes!Init PROVE NoteInv
  BY DEF Notes!Init, NoteInv, Notes!TypeOK, Notes!BoundsOK

LEMMA NotesStep == ASSUME Notes!BoundsOK, NoteInv, Notes!Next PROVE NoteInv'
<1> USE DEF Notes!BoundsOK
<1>1. ASSUME NEW r \in RoutingIDs, Notes!CreateItem(r) PROVE NoteInv'
  BY <1>1 DEF Notes!CreateItem, NoteInv, Notes!TypeOK
<1>2. ASSUME NEW r \in RoutingIDs, Notes!UpdateItem(r) PROVE NoteInv'
  <2>1. accepted[r] \in Nat /\ accepted[r] < MaxEditions
    BY <1>2 DEF Notes!UpdateItem, NoteInv, Notes!TypeOK
  <2>2. /\ accepted' = [accepted EXCEPT ![r] = @ + 1]
        /\ settings' = [settings EXCEPT ![r] = accepted[r] + 1]
        /\ crossed \subseteq crossed' /\ crossed' \subseteq crossed \cup {r}
        /\ Notes!HeldBy(r) # {} => r \in crossed'
        /\ r \notin gone /\ gone' = gone /\ ordering' = ordering
    BY <1>2 DEF Notes!UpdateItem, Notes!Cross, NoteInv, Notes!TypeOK
  <2>3. Notes!TypeOK'
    BY <2>1, <2>2 DEF NoteInv, Notes!TypeOK
  <2>4. \A h \in Requests :
         ordering[h] # None /\ ordering[h].at # None /\ ordering[h].at \notin crossed'
           => ordering[h].read = accepted'[ordering[h].at]
    BY <2>1, <2>2 DEF Notes!HeldBy, NoteInv, Notes!TypeOK
  <2> QED
    BY <2>1, <2>2, <2>3, <2>4 DEF NoteInv, Notes!TypeOK
<1>3. ASSUME NEW r \in RoutingIDs, Notes!DeleteItem(r) PROVE NoteInv'
  BY <1>3 DEF Notes!DeleteItem, NoteInv, Notes!TypeOK
\* A request that goes on with settings nobody has put since, or with none.
<1>4. ASSUME NEW h \in Requests, NEW o \in Notes!Ordering \cup {None},
             ordering' = [ordering EXCEPT ![h] = o],
             o # None /\ o.at # None =>
               \/ o.at = ordering[h].at /\ o.read = ordering[h].read /\ ordering[h] # None
               \/ settings[o.at] # None /\ o.read = settings[o.at],
             UNCHANGED <<settings, gone, accepted, crossed>>
      PROVE  NoteInv'
  <2>1. Notes!TypeOK'
    BY <1>4 DEF NoteInv, Notes!TypeOK
  <2>2. o # None /\ o.at # None => o.at \in RoutingIDs
    BY DEF Notes!Ordering
  <2>3. \A k \in Requests :
         ordering'[k] # None /\ ordering'[k].at # None /\ ordering'[k].at \notin crossed
           => ordering'[k].read = accepted[ordering'[k].at]
    BY <1>4, <2>2 DEF NoteInv, Notes!TypeOK
  <2> QED
    BY <1>4, <2>1, <2>3 DEF NoteInv
<1>5. ASSUME NEW h \in Requests, NEW R \in SUBSET RoutingIDs, Notes!StartReorder(h, R) PROVE NoteInv'
  <2>1. [toCheck |-> R, toDo |-> R, at |-> None, read |-> 0] \in Notes!Ordering
    BY DEF Notes!Ordering
  <2> QED
    BY <1>4, <1>5, <2>1 DEF Notes!StartReorder
<1>6. ASSUME NEW h \in Requests, Notes!AnswerReorder(h), UNCHANGED <<settings, gone, accepted, crossed>>
      PROVE  NoteInv'
  BY <1>4, <1>6 DEF Notes!AnswerReorder
<1>7. ASSUME NEW h \in Requests, NEW r \in RoutingIDs, Notes!CheckRouting(h, r) PROVE NoteInv'
  <2>1. CASE Notes!AnswerReorder(h)
    BY <1>6, <1>7, <2>1 DEF Notes!CheckRouting
  <2>2. CASE ordering' = [ordering EXCEPT ![h].toCheck = @ \ {r}]
    <3> DEFINE o == [ordering[h] EXCEPT !.toCheck = @ \ {r}]
    <3>1. ordering[h] \in Notes!Ordering
      BY <1>7 DEF Notes!CheckRouting, NoteInv, Notes!TypeOK
    <3>2. o \in Notes!Ordering /\ o.at = ordering[h].at /\ o.read = ordering[h].read
      BY <3>1 DEF Notes!Ordering
    <3>3. ordering' = [ordering EXCEPT ![h] = o]
      BY <2>2 DEF NoteInv, Notes!TypeOK
    <3>4. ordering[h] # None /\ UNCHANGED <<settings, gone, accepted, crossed>>
      BY <1>7 DEF Notes!CheckRouting
    <3> HIDE DEF o
    <3>5. o \in Notes!Ordering \cup {None}
      BY <3>2
    <3> QED
      BY <1>4, <3>2, <3>3, <3>4, <3>5
  <2> QED
    BY <1>7, <2>1, <2>2 DEF Notes!CheckRouting
<1>8. ASSUME NEW h \in Requests, NEW r \in RoutingIDs, Notes!ReadSettings(h, r) PROVE NoteInv'
  <2>1. CASE Notes!AnswerReorder(h)
    BY <1>6, <1>8, <2>1 DEF Notes!ReadSettings
  <2>2. CASE settings[r] # None
    <3> DEFINE o == [ordering[h] EXCEPT !.at = r, !.read = settings[r], !.toDo = @ \ {r}]
    <3>1. ordering[h] \in Notes!Ordering /\ settings[r] \in 0 .. MaxEditions
      BY <1>8, <2>2 DEF Notes!ReadSettings, NoteInv, Notes!TypeOK
    <3>2. o \in Notes!Ordering /\ o.at = r /\ o.read = settings[r]
      BY <3>1 DEF Notes!Ordering
    <3>3. ordering' = [ordering EXCEPT ![h] = o]
      BY <1>8, <2>2, <3>1 DEF Notes!ReadSettings, NoteInv, Notes!TypeOK, Notes!Ordering
    <3> HIDE DEF o
    <3> QED
      BY <1>4, <1>8, <2>2, <3>2, <3>3 DEF Notes!ReadSettings
  <2> QED
    BY <1>8, <2>1, <2>2 DEF Notes!ReadSettings
<1>9. ASSUME NEW h \in Requests, Notes!WriteSettings(h) PROVE NoteInv'
  <2> DEFINE r == ordering[h].at
  <2>1. ordering[h] \in Notes!Ordering /\ r \in RoutingIDs
    BY <1>9 DEF Notes!WriteSettings, NoteInv, Notes!TypeOK, Notes!Ordering
  <2>2. CASE settings[r] = None
    BY <1>6, <1>9, <2>2 DEF Notes!WriteSettings
  <2>3. CASE settings[r] # None
    <3> DEFINE o == [ordering[h] EXCEPT !.at = None, !.read = 0]
    <3>0. 0 \in 0 .. MaxEditions
      OBVIOUS
    <3>1. o \in Notes!Ordering /\ o.at = None /\ ordering[h].read \in 0 .. MaxEditions
      BY <2>1, <3>0 DEF Notes!Ordering
    <3>2. /\ settings' = [settings EXCEPT ![r] = ordering[h].read]
          /\ ordering' = [ordering EXCEPT ![h] = o]
          /\ crossed \subseteq crossed' /\ crossed' \subseteq crossed \cup {r}
          /\ UNCHANGED <<gone, accepted>>
      BY <1>9, <2>1, <2>3
         DEF Notes!WriteSettings, Notes!Cross, NoteInv, Notes!TypeOK, Notes!Ordering
    <3>3. r \notin gone
      BY <2>3 DEF NoteInv
    <3> HIDE DEF o
    <3>4. Notes!TypeOK'
      BY <2>1, <3>1, <3>2 DEF NoteInv, Notes!TypeOK
    <3>5. r \notin crossed => ordering[h].read = accepted[r]
      BY <1>9 DEF Notes!WriteSettings, NoteInv
    <3>6. \A k \in Requests :
           ordering'[k] # None /\ ordering'[k].at # None /\ ordering'[k].at \notin crossed'
             => ordering'[k].read = accepted'[ordering'[k].at]
      BY <3>1, <3>2 DEF NoteInv, Notes!TypeOK
    <3> HIDE DEF r
    <3> QED
      BY <2>1, <3>1, <3>2, <3>3, <3>4, <3>5, <3>6 DEF NoteInv, Notes!TypeOK
  <2> QED
    BY <2>2, <2>3
<1>10. ASSUME NEW h \in Requests, Notes!FinishReorder(h) PROVE NoteInv'
  BY <1>6, <1>10 DEF Notes!FinishReorder
<1> QED
  BY <1>1, <1>2, <1>3, <1>5, <1>7, <1>8, <1>9, <1>10
     DEF Notes!Next, Notes!RoutingOps, Notes!ReorderOps

LEMMA NotesKeep == ASSUME NoteInv PROVE Notes!TypeOK /\ Notes!SettingsSurvive
  BY DEF NoteInv, Notes!SettingsSurvive

-----------------------------------------------------------------------------
(* SecurityControl *)

LEMMA ControlOrders == \A s, S : Control!Among(s, S) = Among(s, S)
  BY DEF Control!Among, Among

LEMMA ControlCards ==
    /\ \A S : Control!Cardinality(S) = Cardinality(S)
    /\ \A S : Control!IsFiniteSet(S) = IsFiniteSet(S)
  BY DEF Control!Cardinality, Cardinality, Control!IsFiniteSet, IsFiniteSet

\* What the walk w has to see stands in the list from where its next page starts
\* on, or up to where that page ends.
Ahead(w, as) ==
    w.way = "next" /\ ~ w.deletions =>
        \A a \in w.due \ w.seen :
            w.token # None /\ \E i \in 1 .. Len(as) : w.token < i /\ as[i] = a
Behind(w, as) ==
    w.way = "prev" =>
        \A a \in w.due \ w.seen :
            w.token # None /\ \E i \in 1 .. Len(as) : i <= w.token + PageSize /\ as[i] = a

ControlInv ==
    /\ Control!TypeOK
    /\ walk # None => Ahead(walk, actions) /\ Behind(walk, actions)

LEMMA ControlStarts == ASSUME Control!BoundsOK, Control!Init PROVE ControlInv
  BY DEF Control!Init, ControlInv, Control!TypeOK, Control!BoundsOK

\* Where a page starts and ends.
LEMMA PageBounds ==
  ASSUME Control!BoundsOK, actions \in Seq(Control!ActionIDs), NEW token \in Nat
  PROVE  /\ Control!PageStart(token) \in 0 .. Len(actions) /\ Control!PageEnd(token) \in 0 .. Len(actions)
         /\ Control!PageStart(token) = token \/ (token > Len(actions) /\ Control!PageStart(token) = Len(actions))
         /\ Control!PageEnd(token) = Len(actions) \/ Control!PageEnd(token) = Control!PageStart(token) + PageSize
         /\ Control!PageEnd(token) <= Control!PageStart(token) + PageSize
  BY DEF Control!BoundsOK, Control!PageStart, Control!PageEnd, Control!Less

\* A deletion moves what is behind it to the front, by one; the pages before do not
\* change, so who goes back misses nothing.
LEMMA ControlSteps == ASSUME Control!BoundsOK, ControlInv, Control!Next PROVE ControlInv'
<1> USE DEF Control!BoundsOK
<1>1. CASE Control!ActivationOps
  BY <1>1
     DEF Control!ActivationOps, Control!CreateActivation, Control!UpdateActivation, ControlInv,
         Control!TypeOK
<1>2. CASE Control!RuleOps
  BY <1>2 DEF Control!RuleOps, Control!UpdateEvaluationRule, ControlInv, Control!TypeOK
<1>3. CASE Control!CreateAutomatedAction
  <2>1. actions \in Seq(Control!ActionIDs) /\ lastAction + 1 \in Control!ActionIDs
    BY <1>3 DEF Control!CreateAutomatedAction, ControlInv, Control!TypeOK, Control!ActionIDs
  <2>2. actions' = Append(actions, lastAction + 1)
    BY <1>3 DEF Control!CreateAutomatedAction
  <2>3. /\ actions' \in Seq(Control!ActionIDs) /\ Len(actions') = Len(actions) + 1
        /\ \A i \in 1 .. Len(actions) : actions'[i] = actions[i] /\ i \in 1 .. Len(actions')
    BY <2>1, <2>2
  <2>4. Control!TypeOK'
    BY <1>3, <2>3 DEF Control!CreateAutomatedAction, ControlInv, Control!TypeOK
  <2>5. walk' = walk
    BY <1>3 DEF Control!CreateAutomatedAction
  <2>6. walk # None => Ahead(walk, actions')
    BY <2>3 DEF Ahead, ControlInv
  <2>7. walk # None => Behind(walk, actions')
    BY <2>3 DEF Behind, ControlInv
  <2> QED
    BY <2>4, <2>5, <2>6, <2>7 DEF ControlInv
<1>4. ASSUME NEW a \in Control!ActionIDs, Control!DeleteAutomatedAction(a) PROVE ControlInv'
  <2> DEFINE w == [walk EXCEPT !.due = @ \ {a}, !.deletions = TRUE]
  <2>1. actions \in Seq(Control!ActionIDs) /\ (walk # None => walk \in Control!Walk)
    BY DEF ControlInv, Control!TypeOK
  <2>2. actions' = Control!Among(actions, Control!ActionIDs \ {a})
    BY <1>4 DEF Control!DeleteAutomatedAction
  <2>3. /\ actions' \in Seq(Control!ActionIDs)
        /\ \A i \in 1 .. Len(actions) : actions[i] # a =>
              \E j \in 1 .. Len(actions') : j <= i /\ actions'[j] = actions[i]
    <3> DEFINE S == Control!ActionIDs \ {a}
    <3>1. \A i \in 1 .. Len(actions) : actions[i] # a => actions[i] \in S
      BY <2>1
    <3> HIDE DEF S
    <3>2. actions' = Control!Among(actions, S)
      BY <2>2 DEF S
    <3>3. /\ Control!Among(actions, S) \in Seq(Control!ActionIDs)
          /\ \A i \in 1 .. Len(actions) : actions[i] \in S =>
               \E j \in 1 .. Len(Control!Among(actions, S)) : j <= i /\ Control!Among(actions, S)[j] = actions[i]
      BY ControlOrders, <2>1, AmongSeq, AmongEarlier
    <3> QED
      BY <3>1, <3>2, <3>3
  <2>4. walk' = IF walk = None THEN None ELSE w
    BY <1>4 DEF Control!DeleteAutomatedAction
  <2>5. walk # None =>
          /\ w \in Control!Walk /\ w # None /\ w.way = walk.way /\ w.token = walk.token
          /\ w.due = walk.due \ {a} /\ w.seen = walk.seen /\ w.deletions
    BY <2>1 DEF Control!Walk
  <2> HIDE DEF w
  <2>6. Control!TypeOK'
    BY <1>4, <2>3, <2>4, <2>5 DEF Control!DeleteAutomatedAction, ControlInv, Control!TypeOK
  <2>7. walk # None => Ahead(w, actions')
    BY <2>5 DEF Ahead
  <2>8. walk # None => Behind(w, actions')
    <3> SUFFICES ASSUME walk # None, w.way = "prev", NEW x \in w.due \ w.seen
                 PROVE  w.token # None
                        /\ \E j \in 1 .. Len(actions') : j <= w.token + PageSize /\ actions'[j] = x
      BY DEF Behind
    <3>1. x \in walk.due \ walk.seen /\ x # a /\ walk.way = "prev"
      BY <2>5
    <3>2. walk.token # None /\ walk.token \in Nat
      BY <2>1, <3>1 DEF Behind, ControlInv, Control!Walk
    <3>3. PICK i \in 1 .. Len(actions) : i <= walk.token + PageSize /\ actions[i] = x
      BY <3>1 DEF Behind, ControlInv
    <3>4. PICK j \in 1 .. Len(actions') : j <= i /\ actions'[j] = x
      BY <2>3, <3>1, <3>3
    <3> QED
      BY <2>1, <2>3, <2>5, <3>2, <3>3, <3>4
  <2> QED
    BY <2>4, <2>5, <2>6, <2>7, <2>8 DEF ControlInv
<1>5. CASE Control!WalkForward
  <2> DEFINE w == [way |-> "next", token |-> 0, due |-> Control!InList, seen |-> {}, deletions |-> FALSE]
  <2>1. walk' = w /\ UNCHANGED <<activation, actions, lastAction, enabledRules>>
    BY <1>5 DEF Control!WalkForward
  <2>2. actions \in Seq(Control!ActionIDs)
    BY DEF ControlInv, Control!TypeOK
  <2>3. w \in Control!Walk
    BY <2>2 DEF Control!Walk, Control!InList
  <2>4. Ahead(w, actions)
    BY <2>2 DEF Ahead, Control!InList
  <2>5. Behind(w, actions)
    BY DEF Behind
  <2> HIDE DEF w
  <2> QED
    BY <2>1, <2>3, <2>4, <2>5 DEF ControlInv, Control!TypeOK
<1>6. CASE Control!ListAutomatedActions
  <2> DEFINE t == walk.token
             w == [walk EXCEPT !.seen = @ \cup Control!Page(t), !.token = Control!Follow(t)]
  <2>1. walk # None /\ t # None /\ walk' = w
        /\ UNCHANGED <<activation, actions, lastAction, enabledRules>>
    BY <1>6 DEF Control!ListAutomatedActions
  <2>2. actions \in Seq(Control!ActionIDs) /\ walk \in Control!Walk /\ t \in Nat
    BY <2>1 DEF ControlInv, Control!TypeOK, Control!Walk
  <2>3. /\ Control!PageStart(t) \in 0 .. Len(actions) /\ Control!PageEnd(t) \in 0 .. Len(actions)
        /\ Control!PageStart(t) = t \/ (t > Len(actions) /\ Control!PageStart(t) = Len(actions))
        /\ Control!PageEnd(t) = Len(actions) \/ Control!PageEnd(t) = Control!PageStart(t) + PageSize
        /\ Control!PageEnd(t) <= Control!PageStart(t) + PageSize
    BY <2>2, PageBounds
  <2>4. Control!Follow(t) \in Nat \cup {None}
    BY <2>3 DEF Control!Follow, Control!NextPageToken, Control!PrevPageToken
  <2>5. Control!Page(t) \subseteq Control!ActionIDs
    BY <2>2, <2>3 DEF Control!Page
  <2>6. /\ w \in Control!Walk /\ w.way = walk.way /\ w.token = Control!Follow(t) /\ w.due = walk.due
        /\ w.seen = walk.seen \cup Control!Page(t) /\ w.deletions = walk.deletions
    BY <2>2, <2>4, <2>5 DEF Control!Walk
  <2>7. \A i \in 1 .. Len(actions) : Control!PageStart(t) < i /\ i <= Control!PageEnd(t) => actions[i] \in Control!Page(t)
    BY <2>2, <2>3 DEF Control!Page
  <2>8. Ahead(w, actions)
    <3> SUFFICES ASSUME w.way = "next", ~ w.deletions, NEW a \in w.due \ w.seen
                 PROVE  w.token # None /\ \E i \in 1 .. Len(actions) : w.token < i /\ actions[i] = a
      BY DEF Ahead
    <3>1. a \in walk.due \ walk.seen /\ walk.way = "next" /\ ~ walk.deletions
      BY <2>6
    <3>2. PICK i \in 1 .. Len(actions) : t < i /\ actions[i] = a
      BY <2>1, <3>1 DEF Ahead, ControlInv
    <3>3. Control!PageEnd(t) < i
      BY <2>2, <2>3, <2>6, <2>7, <3>2
    <3>4. Control!Follow(t) = Control!PageEnd(t)
      BY <2>2, <2>3, <3>1, <3>3 DEF Control!Follow, Control!NextPageToken
    <3> HIDE DEF t, w
    <3> QED
      BY <2>3, <2>6, <3>2, <3>3, <3>4
  <2>9. Behind(w, actions)
    <3> SUFFICES ASSUME w.way = "prev", NEW a \in w.due \ w.seen
                 PROVE  w.token # None
                        /\ \E i \in 1 .. Len(actions) : i <= w.token + PageSize /\ actions[i] = a
      BY DEF Behind
    <3>1. a \in walk.due \ walk.seen /\ walk.way = "prev" /\ walk.way # "next"
      BY <2>6
    <3>2. PICK i \in 1 .. Len(actions) : i <= t + PageSize /\ actions[i] = a
      BY <2>1, <3>1 DEF Behind, ControlInv
    <3>3. i <= Control!PageStart(t)
      BY <2>2, <2>3, <2>6, <2>7, <3>2
    <3>4. Control!Follow(t) = IF Control!PageStart(t) > PageSize THEN Control!PageStart(t) - PageSize ELSE 0
      BY <2>2, <2>3, <3>1, <3>2, <3>3 DEF Control!Follow, Control!PrevPageToken
    <3>5. Control!Follow(t) \in Nat /\ i <= Control!Follow(t) + PageSize
      BY <2>2, <2>3, <3>2, <3>3, <3>4
    <3> HIDE DEF t, w
    <3> QED
      BY <2>6, <3>2, <3>5
  <2> HIDE DEF w
  <2> QED
    BY <2>1, <2>6, <2>8, <2>9 DEF ControlInv, Control!TypeOK
<1>7. CASE Control!TurnRound
  <2> DEFINE t == walk.token
             w == [way |-> "prev", token |-> Control!PrevPageToken(t), seen |-> {},
                   due |-> {actions[i] : i \in 1 .. Control!PageStart(t)}, deletions |-> FALSE]
  <2>1. walk # None /\ t # None /\ walk' = w
        /\ UNCHANGED <<activation, actions, lastAction, enabledRules>>
    BY <1>7 DEF Control!TurnRound
  <2>2. actions \in Seq(Control!ActionIDs) /\ t \in Nat
    BY <2>1 DEF ControlInv, Control!TypeOK, Control!Walk
  <2>3. Control!PageStart(t) \in 0 .. Len(actions)
    BY <2>2, PageBounds
  <2>4. w \in Control!Walk
    BY <2>2, <2>3 DEF Control!Walk, Control!PrevPageToken
  <2>5. Ahead(w, actions)
    BY DEF Ahead
  <2>6. Behind(w, actions)
    <3> SUFFICES ASSUME NEW i \in 1 .. Control!PageStart(t)
                 PROVE  /\ Control!PrevPageToken(t) # None
                        /\ i \in 1 .. Len(actions) /\ i <= Control!PrevPageToken(t) + PageSize
      BY DEF Behind
    <3> QED
      BY <2>2, <2>3 DEF Control!PrevPageToken
  <2> HIDE DEF w
  <2> QED
    BY <2>1, <2>4, <2>5, <2>6 DEF ControlInv, Control!TypeOK
<1>8. CASE Control!StopWalking
  BY <1>8 DEF Control!StopWalking, ControlInv, Control!TypeOK
<1> QED
  BY <1>1, <1>2, <1>3, <1>4, <1>5, <1>6, <1>7, <1>8
     DEF Control!Next, Control!ActionOps, Control!WalkOps

LEMMA ControlKeeps == ASSUME ControlInv PROVE Control!TypeOK /\ Control!WalksComplete
<1>1. Control!TypeOK
  BY DEF ControlInv
<1>2. ASSUME walk # None, walk.token = None, walk.way = "prev" \/ ~ walk.deletions
      PROVE  walk.due \subseteq walk.seen
  <2>1. walk \in Control!Walk /\ Ahead(walk, actions) /\ Behind(walk, actions)
    BY <1>2 DEF ControlInv, Control!TypeOK
  <2>2. walk.way \in {"next", "prev"}
    BY <2>1 DEF Control!Walk
  <2> QED
    BY <1>2, <2>1, <2>2 DEF Ahead, Behind
<1> QED
  BY <1>1, <1>2 DEF Control!WalksComplete

-----------------------------------------------------------------------------
(* SimpleMQSQLite *)

DBTyped ==
    /\ dbClock \in DB!Times /\ config \in Defaults
    /\ messages \in [DB!MsgIds -> DB!Message \cup {None}]
    /\ queues \in [DB!QueueIds -> DB!Queue \cup {None}]
    /\ sent \in 0 .. MaxMsgs /\ created \in 0 .. MaxQueues
    /\ request \in [Requests -> DB!Request \cup {None}]
    /\ gen \in [QueueNames -> Nat] /\ lease \in [DB!MsgIds -> Nat]

\* A request that is ready to receive has a clock and a span.
Spanned(q) ==
    /\ q.op # "delete" => q.now # None
    /\ q.ready /\ q.op # "delete" => q.span > 0

DBInv ==
    /\ DBTyped
    /\ DB!TablesAgree
    /\ \A m \in DB!MsgIds : m > sent => messages[m] = None /\ lease[m] = 0
    /\ \A m \in DB!MsgIds : messages[m] # None => lease[m] <= messages[m].visibleAt
    /\ \A c \in Requests : request[c] # None => Spanned(request[c])

LEMMA DBStarts == ASSUME DB!BoundsOK, DB!Init PROVE DBInv
  BY DEF DB!Init, DBInv, DBTyped, DB!TablesAgree, DB!BoundsOK, DB!Times

\* Only a request changes.
LEMMA DBRequest ==
  ASSUME DB!BoundsOK, DBInv, NEW c \in Requests, NEW q \in DB!Request \cup {None},
         request' = [request EXCEPT ![c] = q], q # None => Spanned(q),
         UNCHANGED <<dbClock, config, messages, queues, sent, created, gen, lease>>
  PROVE  DBInv'
<1>1. DBTyped'
  BY DEF DBInv, DBTyped
<1>2. \A k \in Requests : request'[k] # None => Spanned(request'[k])
  BY DEF DBInv, DBTyped
<1> QED
  BY <1>1, <1>2 DEF DBInv, DB!TablesAgree

\* Rows go, and a request is answered or none is.
LEMMA DBRemove ==
  ASSUME DB!BoundsOK, DBInv, NEW S, DB!Remove(S),
         request' = request \/ \E c \in Requests : request' = [request EXCEPT ![c] = None],
         UNCHANGED <<dbClock, config, queues, sent, created, gen, lease>>
  PROVE  DBInv'
<1>1. messages' = [m \in DB!MsgIds |-> IF m \in S THEN None ELSE messages[m]]
  BY DEF DB!Remove
<1>2. messages' \in [DB!MsgIds -> DB!Message \cup {None}]
  BY <1>1 DEF DBInv, DBTyped
<1>3. request' \in [Requests -> DB!Request \cup {None}]
  BY DEF DBInv, DBTyped
<1>4. DBTyped'
  BY <1>2, <1>3 DEF DBInv, DBTyped
<1>5. \A m \in DB!MsgIds : messages'[m] # None => messages'[m] = messages[m]
  BY <1>1
<1>6. \A m \in DB!MsgIds : messages[m] = None => messages'[m] = None
  BY <1>1
<1>7. \A k \in Requests : request'[k] # None => request'[k] = request[k]
  BY DEF DBInv, DBTyped
<1> QED
  BY <1>4, <1>5, <1>6, <1>7 DEF DBInv, DB!TablesAgree

\* One step for each statement, or transaction, of the database.
LEMMA DBSteps == ASSUME DB!BoundsOK, DBInv, DB!Next PROVE DBInv'
<1>1. ASSUME NEW c \in Requests, NEW n \in QueueNames, NEW op \in DB!Ops,
             NEW target \in DB!MsgIds \cup {None}, DB!Arrive(c, op, n, target)
      PROVE  DBInv'
  <2> DEFINE q == [op |-> op, name |-> n, target |-> target,
                   now |-> IF op = "delete" THEN None ELSE dbClock,
                   span |-> 0, ready |-> op = "delete"]
  <2>1. q \in DB!Request
    <3>1. (op = "delete") \in BOOLEAN /\ 0 \in Nat /\ dbClock \in DB!Times
      BY DEF DBInv, DBTyped
    <3> QED
      BY <3>1 DEF DB!Request
  <2>2. Spanned(q)
    <3>1. dbClock # None
      BY DEF DBInv, DBTyped, DB!BoundsOK, DB!Times
    <3> QED
      BY <3>1 DEF Spanned
  <2>3. request' = [request EXCEPT ![c] = q]
        /\ UNCHANGED <<dbClock, config, messages, queues, sent, created, gen, lease>>
    BY <1>1 DEF DB!Arrive
  <2> HIDE DEF q
  <2> QED
    BY <2>1, <2>2, <2>3, DBRequest
<1>2. ASSUME NEW c \in Requests, DB!QueueSettingsFor(c) PROVE DBInv'
  <2> DEFINE s == DB!Settings(request[c].name)
             sp == IF request[c].op = "send" THEN s.me ELSE s.vt
             q == [request[c] EXCEPT !.span = sp, !.ready = TRUE]
  <2>1. request[c] \in DB!Request /\ Spanned(request[c]) /\ request[c] # None
    BY <1>2 DEF DB!QueueSettingsFor, DBInv, DBTyped
  <2>2. s.vt \in Nat \ {0} /\ s.me \in Nat \ {0}
    <3> DEFINE T(n) == {id \in DB!Named(n) : queues[id].vtSecs > 0 /\ queues[id].expSecs > 0}
    <3>1. CASE T(request[c].name) = {}
      BY <3>1 DEF DB!Settings, DBInv, DBTyped, DB!BoundsOK
    <3>2. CASE T(request[c].name) # {}
      <4> DEFINE id == CHOOSE i \in T(request[c].name) : TRUE
      <4>1. id \in T(request[c].name)
        BY <3>2
      <4>2. s = [vt |-> queues[id].vtSecs * TicksPerSecond, me |-> queues[id].expSecs * TicksPerSecond]
        BY <3>2 DEF DB!Settings
      <4> HIDE DEF id
      <4>3. id \in DB!QueueIds /\ queues[id] # None /\ queues[id].vtSecs > 0 /\ queues[id].expSecs > 0
        BY <4>1 DEF DB!Named
      <4>4. queues[id].vtSecs \in Nat \ {0} /\ queues[id].expSecs \in Nat \ {0}
        BY <4>3 DEF DBInv, DBTyped, DB!Queue
      <4> HIDE DEF s
      <4>5. \A x, y \in Nat \ {0} : x * y \in Nat \ {0}
        OBVIOUS
      <4> QED
        BY <4>2, <4>4, <4>5 DEF DB!BoundsOK
    <3> QED
      BY <3>1, <3>2
  <2>3. request' = [request EXCEPT ![c] = q]
        /\ UNCHANGED <<dbClock, config, messages, queues, sent, created, gen, lease>>
    BY <1>2, <2>1 DEF DB!QueueSettingsFor, DBInv, DBTyped, DB!Request
  <2> HIDE DEF s
  <2>4. sp \in Nat /\ sp > 0
    BY <2>2
  <2> HIDE DEF sp
  <2>5. q \in DB!Request /\ q.op = request[c].op /\ q.now = request[c].now /\ q.span = sp
    BY <2>1, <2>4 DEF DB!Request
  <2> HIDE DEF q
  <2>6. Spanned(q)
    BY <2>1, <2>4, <2>5 DEF Spanned
  <2> QED
    BY <2>3, <2>5, <2>6, DBRequest
<1>3. ASSUME NEW c \in Requests, DB!Send(c) PROVE DBInv'
  <2> DEFINE row == [name |-> request[c].name, expiresAt |-> request[c].now + request[c].span,
                     visibleAt |-> 0, gen |-> gen[request[c].name]]
  <2>1. request[c] \in DB!Request /\ request[c].now # None
    BY <1>3 DEF DB!Send, DB!Ready, DBInv, DBTyped, Spanned
  <2>2. request[c].now \in Nat /\ request[c].span \in Nat /\ request[c].name \in QueueNames
    BY <2>1 DEF DB!Request, DB!Times
  <2>3. row \in DB!Message /\ row.name = request[c].name /\ row.visibleAt = 0
        /\ row.gen = gen[request[c].name]
    <3>1. gen[request[c].name] \in Nat /\ request[c].now + request[c].span \in Nat
      BY <2>2 DEF DBInv, DBTyped
    <3> QED
      BY <2>2, <3>1 DEF DB!Message
  <2>4. /\ sent < MaxMsgs /\ sent' = sent + 1
        /\ messages' = [messages EXCEPT ![sent + 1] = row]
        /\ request' = [request EXCEPT ![c] = None]
        /\ UNCHANGED <<dbClock, config, queues, created, gen, lease>>
    BY <1>3 DEF DB!Send, DB!Answer
  <2> HIDE DEF row
  <2>5. sent \in Nat /\ sent + 1 \in DB!MsgIds /\ sent' \in 0 .. MaxMsgs
    BY <2>4 DEF DBInv, DBTyped, DB!MsgIds, DB!BoundsOK
  <2>6. DBTyped'
    BY <2>3, <2>4, <2>5 DEF DBInv, DBTyped
  <2>7. messages \in [DB!MsgIds -> DB!Message \cup {None}]
    BY DEF DBInv, DBTyped
  <2>8. DB!TablesAgree'
    BY <2>3, <2>4, <2>5, <2>7 DEF DBInv, DB!TablesAgree
  <2>9. \A m \in DB!MsgIds : m > sent' => messages'[m] = None /\ lease'[m] = 0
    BY <2>4, <2>5, <2>7 DEF DBInv, DB!MsgIds
  <2>10. \A m \in DB!MsgIds : messages'[m] # None => lease'[m] <= messages'[m].visibleAt
    BY <2>3, <2>4, <2>5, <2>7 DEF DBInv, DB!MsgIds
  <2>11. \A k \in Requests : request'[k] # None => Spanned(request'[k])
    BY <2>4 DEF DBInv, DBTyped
  <2> QED
    BY <2>6, <2>8, <2>9, <2>10, <2>11 DEF DBInv
\* A row hidden until a later time, with the lease of that or none.
<1>4. ASSUME NEW c \in Requests, NEW m \in DB!MsgIds, messages[m] # None,
             NEW until \in Nat, NEW l \in {0, until},
             messages' = [messages EXCEPT ![m].visibleAt = until],
             lease' = [lease EXCEPT ![m] = l],
             request' = [request EXCEPT ![c] = None],
             UNCHANGED <<dbClock, config, queues, sent, created, gen>>
      PROVE  DBInv'
  <2> DEFINE row == [messages[m] EXCEPT !.visibleAt = until]
  <2>1. messages \in [DB!MsgIds -> DB!Message \cup {None}] /\ messages[m] \in DB!Message
    BY <1>4 DEF DBInv, DBTyped
  <2>2. row \in DB!Message /\ row.name = messages[m].name /\ row.gen = messages[m].gen
        /\ row.visibleAt = until
    BY <2>1 DEF DB!Message
  <2>3. messages' = [messages EXCEPT ![m] = row]
    BY <1>4, <2>1 DEF DB!Message
  <2> HIDE DEF row
  <2>4. DBTyped'
    BY <1>4, <2>2, <2>3 DEF DBInv, DBTyped
  <2>5. DB!TablesAgree'
    BY <1>4, <2>1, <2>2, <2>3 DEF DBInv, DB!TablesAgree
  <2>6. ~ (m > sent)
    BY <1>4 DEF DBInv
  <2>7. lease \in [DB!MsgIds -> Nat]
    BY DEF DBInv, DBTyped
  <2>8. \A k \in DB!MsgIds : k > sent' => messages'[k] = None /\ lease'[k] = 0
    BY <1>4, <2>1, <2>3, <2>6, <2>7 DEF DBInv
  <2>9. \A k \in DB!MsgIds : messages'[k] # None => lease'[k] <= messages'[k].visibleAt
    BY <1>4, <2>1, <2>2, <2>3, <2>7 DEF DBInv
  <2>10. \A k \in Requests : request'[k] # None => Spanned(request'[k])
    BY <1>4 DEF DBInv, DBTyped
  <2> QED
    BY <2>4, <2>5, <2>8, <2>9, <2>10 DEF DBInv
<1>5. ASSUME NEW c \in Requests, request[c] # None PROVE None \in DB!Request \cup {None}
  OBVIOUS
<1>6. ASSUME NEW c \in Requests, DB!Receive(c) PROVE DBInv'
  <2>1. /\ request' = [request EXCEPT ![c] = None] /\ request[c] \in DB!Request /\ request[c].now # None
        /\ UNCHANGED <<dbClock, config, queues, sent, created, gen>>
    BY <1>6 DEF DB!Receive, DB!Ready, DB!Answer, DBInv, DBTyped, Spanned
  <2>2. request[c].now + request[c].span \in Nat
    BY <2>1 DEF DB!Request, DB!Times
  <2>3. CASE UNCHANGED <<messages, lease>>
    BY <2>1, <2>3, DBRequest
  <2>4. ASSUME NEW m \in DB!Visible(request[c].name, request[c].now),
               messages' = [messages EXCEPT ![m].visibleAt = request[c].now + request[c].span],
               lease' = [lease EXCEPT ![m] = request[c].now + request[c].span]
        PROVE  DBInv'
    <3>1. m \in DB!MsgIds /\ messages[m] # None
      BY DEF DB!Visible, DB!Rows
    <3> QED
      BY <1>4, <2>1, <2>2, <2>4, <3>1
  <2> QED
    BY <1>6, <2>3, <2>4 DEF DB!Receive
<1>7. ASSUME NEW c \in Requests, DB!ExtendTimeout(c) PROVE DBInv'
  <2> DEFINE m == request[c].target
  <2>1. /\ request' = [request EXCEPT ![c] = None] /\ request[c] \in DB!Request /\ request[c].now # None
        /\ UNCHANGED <<dbClock, config, queues, sent, created, gen>>
    BY <1>7 DEF DB!ExtendTimeout, DB!Ready, DB!Answer, DBInv, DBTyped, Spanned
  <2>2. request[c].now + request[c].span \in Nat
    BY <2>1 DEF DB!Request, DB!Times
  <2>3. CASE UNCHANGED <<messages, lease>>
    BY <2>1, <2>3, DBRequest
  <2>4. CASE m \in DB!Rows(request[c].name)
    <3>1. m \in DB!MsgIds /\ messages[m] # None
      BY <2>4 DEF DB!Rows
    <3>2. messages' = [messages EXCEPT ![m].visibleAt = request[c].now + request[c].span]
          /\ lease' = [lease EXCEPT ![m] = 0]
      BY <1>7, <2>4 DEF DB!ExtendTimeout
    <3> QED
      BY <1>4, <2>1, <2>2, <3>1, <3>2
  <2> QED
    BY <1>7, <2>3, <2>4 DEF DB!ExtendTimeout
<1>8. ASSUME NEW c \in Requests, DB!Delete(c) PROVE DBInv'
  BY <1>8, DBRemove DEF DB!Delete, DB!Answer
<1>9. ASSUME NEW n \in QueueNames, DB!CreateQueue(n) PROVE DBInv'
  <2> DEFINE row == [name |-> n, vtSecs |-> config.vt \div TicksPerSecond,
                     expSecs |-> config.me \div TicksPerSecond]
  <2>1. row \in DB!Queue /\ row.name = n
    <3>1. \A x \in Nat, y \in Nat \ {0} : x \div y \in Nat
      OBVIOUS
    <3>2. config.vt \in Nat /\ config.me \in Nat
      BY DEF DBInv, DBTyped, DB!BoundsOK
    <3>3. config.vt \div TicksPerSecond \in Nat /\ config.me \div TicksPerSecond \in Nat
      BY <3>1, <3>2 DEF DB!BoundsOK
    <3> QED
      BY <3>3 DEF DB!Queue
  <2>2. /\ created' = created + 1 /\ created < MaxQueues
        /\ queues' = IF DB!Named(n) # {} THEN queues ELSE [queues EXCEPT ![created + 1] = row]
        /\ UNCHANGED <<dbClock, config, messages, sent, request, gen, lease>>
    BY <1>9 DEF DB!CreateQueue
  <2> HIDE DEF row
  <2>3. created + 1 \in DB!QueueIds /\ created' \in 0 .. MaxQueues
    BY <2>2 DEF DBInv, DBTyped, DB!QueueIds, DB!BoundsOK
  <2>4. queues \in [DB!QueueIds -> DB!Queue \cup {None}]
    BY DEF DBInv, DBTyped
  <2>5. queues' \in [DB!QueueIds -> DB!Queue \cup {None}]
    BY <2>1, <2>2, <2>4
  <2>6. DBTyped'
    BY <2>2, <2>3, <2>5 DEF DBInv, DBTyped
  <2>7. DB!Named(n) = {} => \A i \in DB!QueueIds : queues[i] # None => queues[i].name # n
    BY DEF DB!Named
  <2>8. DB!TablesAgree'
    BY <2>1, <2>2, <2>3, <2>4, <2>7 DEF DBInv, DB!TablesAgree
  <2> QED
    BY <2>2, <2>6, <2>8 DEF DBInv
<1>10. ASSUME NEW id \in DB!QueueIds, NEW vt \in VTSeconds, NEW exp \in ExpSeconds,
              DB!UpdateQueue(id, vt, exp)
       PROVE  DBInv'
  <2> DEFINE row == [queues[id] EXCEPT !.vtSecs = vt, !.expSecs = exp]
  <2>1. queues \in [DB!QueueIds -> DB!Queue \cup {None}] /\ queues[id] # None /\ queues[id] \in DB!Queue
    BY <1>10 DEF DB!UpdateQueue, DBInv, DBTyped
  <2>2. vt \in Nat /\ exp \in Nat
    BY DEF DB!BoundsOK
  <2>3. row \in DB!Queue /\ row.name = queues[id].name
    BY <2>1, <2>2 DEF DB!Queue
  <2>4. queues' = [queues EXCEPT ![id] = row]
        /\ UNCHANGED <<dbClock, config, messages, sent, created, request, gen, lease>>
    BY <1>10, <2>1 DEF DB!UpdateQueue, DB!Queue
  <2> HIDE DEF row
  <2>5. DBTyped'
    BY <2>3, <2>4 DEF DBInv, DBTyped
  <2>6. DB!TablesAgree'
    BY <2>1, <2>3, <2>4 DEF DBInv, DB!TablesAgree
  <2> QED
    BY <2>4, <2>5, <2>6 DEF DBInv
<1>11. ASSUME NEW id \in DB!QueueIds, DB!DeleteQueueByID(id) PROVE DBInv'
  <2> DEFINE n == queues[id].name
  <2>1. queues \in [DB!QueueIds -> DB!Queue \cup {None}] /\ queues[id] # None /\ queues[id] \in DB!Queue
    BY <1>11 DEF DB!DeleteQueueByID, DBInv, DBTyped
  <2>2. n \in QueueNames
    BY <2>1 DEF DB!Queue
  <2>3. /\ messages' = [m \in DB!MsgIds |-> IF m \in DB!Rows(n) THEN None ELSE messages[m]]
        /\ queues' = [queues EXCEPT ![id] = None]
        /\ gen' = [gen EXCEPT ![n] = @ + 1]
        /\ UNCHANGED <<dbClock, config, sent, created, request, lease>>
    BY <1>11 DEF DB!DeleteQueueByID, DB!Remove
  <2> HIDE DEF n
  <2>4. messages \in [DB!MsgIds -> DB!Message \cup {None}]
    BY DEF DBInv, DBTyped
  <2>5. \A m \in DB!MsgIds : messages'[m] # None =>
          messages'[m] = messages[m] /\ messages[m].name # n
    BY <2>3 DEF DB!Rows
  <2>6. \A m \in DB!MsgIds : messages[m] = None => messages'[m] = None
    BY <2>3
  <2>7. messages' \in [DB!MsgIds -> DB!Message \cup {None}]
    BY <2>3, <2>4
  <2>8. gen' \in [QueueNames -> Nat] /\ \A k \in QueueNames : k # n => gen'[k] = gen[k]
    BY <2>2, <2>3 DEF DBInv, DBTyped
  <2>9. queues' \in [DB!QueueIds -> DB!Queue \cup {None}]
        /\ \A i \in DB!QueueIds : queues'[i] # None => queues'[i] = queues[i]
    BY <2>1, <2>3
  <2>10. DBTyped'
    BY <2>3, <2>7, <2>8, <2>9 DEF DBInv, DBTyped
  <2>11. \A m \in DB!MsgIds : messages'[m] # None => messages[m].name \in QueueNames
    BY <2>4, <2>5 DEF DB!Message
  <2>12. DB!TablesAgree'
    BY <2>5, <2>8, <2>9, <2>11 DEF DBInv, DB!TablesAgree
  <2> QED
    BY <2>3, <2>5, <2>6, <2>10, <2>12 DEF DBInv
<1>12. ASSUME NEW id \in DB!QueueIds, DB!ClearMessages(id) PROVE DBInv'
  BY <1>12, DBRemove DEF DB!ClearMessages
<1>13. CASE DB!Tick
  BY <1>13 DEF DB!Tick, DBInv, DBTyped, DB!TablesAgree, DB!Times, DB!BoundsOK
<1>14. ASSUME NEW now, DB!Compact(now) PROVE DBInv'
  BY <1>14, DBRemove DEF DB!Compact
<1>15. ASSUME NEW c \in Defaults, DB!Restart(c) PROVE DBInv'
  <2>1. created \in Nat /\ created <= MaxQueues /\ MaxQueues \in Nat
    BY DEF DBInv, DBTyped, DB!BoundsOK
  <2>2. created' \in 0 .. created
    BY <1>15 DEF DB!Restart
  <2>3. created' \in 0 .. MaxQueues
    BY <2>1, <2>2
  <2>4. /\ config' = c /\ request' = [k \in Requests |-> None]
        /\ UNCHANGED <<dbClock, messages, queues, sent, gen, lease>>
    BY <1>15 DEF DB!Restart
  <2>5. DBTyped'
    BY <2>3, <2>4 DEF DBInv, DBTyped
  <2>6. DB!TablesAgree'
    BY <2>4 DEF DBInv, DB!TablesAgree
  <2>7. \A k \in Requests : request'[k] = None
    BY <2>4
  <2> QED
    BY <2>4, <2>5, <2>6, <2>7 DEF DBInv
<1>16. ASSUME NEW c \in Requests, DB!DataPlane(c) PROVE DBInv'
  <2>1. \A n \in QueueNames : \A op \in {"send", "receive"} : DB!Arrive(c, op, n, None) => DBInv'
    BY <1>1 DEF DB!Ops
  <2>2. \A n \in QueueNames : \A op \in {"extend", "delete"} : \A m \in 1 .. sent :
          DB!Arrive(c, op, n, m) => DBInv'
    <3>1. \A m \in 1 .. sent : m \in DB!MsgIds
      BY DEF DBInv, DBTyped, DB!MsgIds, DB!BoundsOK
    <3> QED
      BY <1>1, <3>1 DEF DB!Ops
  <2> QED
    BY <1>2, <1>3, <1>6, <1>7, <1>8, <1>16, <2>1, <2>2 DEF DB!DataPlane
<1> QED
  BY <1>9, <1>10, <1>11, <1>12, <1>13, <1>14, <1>15, <1>16 DEF DB!Next, DB!ControlPlane

LEMMA DBKeeps == ASSUME DBInv PROVE DB!TypeOK /\ DB!TablesAgree
  BY DEF DBInv, DBTyped, DB!TypeOK, DB!Message, DB!Queue, DB!Request

\* Whatever step answers a request that is ready, of some kind, is that of the
\* request, or a restart.
LEMMA DBAnswers ==
  ASSUME DB!BoundsOK, DBInv, DB!Next, NEW c \in Requests, DB!Ready(c, "receive"), request'[c] = None
  PROVE  DB!Receive(c) \/ UNCHANGED <<messages, lease>>
<1> DEFINE q == request[c]
<1>1. q \in DB!Request /\ q # None /\ q.ready /\ q.op = "receive" /\ request \in [Requests -> DB!Request \cup {None}]
  BY DEF DB!Ready, DBInv, DBTyped
<1>2. request' # request
  BY <1>1
<1>3. \A k \in Requests : request' = [request EXCEPT ![k] = None] => k = c
  BY <1>1
<1>4. \A k \in Requests : DB!Send(k) \/ DB!ExtendTimeout(k) \/ DB!Delete(k) => FALSE
  BY <1>1, <1>3 DEF DB!Send, DB!ExtendTimeout, DB!Delete, DB!Ready, DB!Answer
<1>5. \A k \in Requests : DB!Receive(k) => DB!Receive(c)
  BY <1>3 DEF DB!Receive, DB!Answer
<1>6. \A k \in Requests : DB!QueueSettingsFor(k) => UNCHANGED <<messages, lease>>
  BY DEF DB!QueueSettingsFor
<1>7. \A k \in Requests, n \in QueueNames : \A op : \A m : DB!Arrive(k, op, n, m) => UNCHANGED <<messages, lease>>
  BY DEF DB!Arrive
<1>8. ASSUME NEW k \in Requests, DB!DataPlane(k) PROVE DB!Receive(c) \/ UNCHANGED <<messages, lease>>
  BY <1>4, <1>5, <1>6, <1>7, <1>8 DEF DB!DataPlane
<1>9. ~ DB!ControlPlane
  BY <1>2 DEF DB!ControlPlane, DB!CreateQueue, DB!UpdateQueue, DB!DeleteQueueByID, DB!ClearMessages
<1>10. ~ DB!Tick /\ \A now : ~ DB!Compact(now)
  BY <1>2 DEF DB!Tick, DB!Compact
<1>11. \A k \in Defaults : DB!Restart(k) => UNCHANGED <<messages, lease>>
  BY DEF DB!Restart
<1> QED
  BY <1>8, <1>9, <1>10, <1>11 DEF DB!Next

\* A receive gives only what is visible by its own clock, and so beyond its lease.
LEMMA DBLeases == ASSUME DB!BoundsOK, DBInv, DB!Next PROVE DB!LeaseHonoured
<1> SUFFICES ASSUME NEW c \in Requests, NEW m \in DB!MsgIds, DB!Received(c, m)
             PROVE  request[c].now >= lease[m] /\ request[c].now < lease'[m]
  BY DEF DB!LeaseHonoured
<1>1. DB!Ready(c, "receive") /\ request'[c] = None /\ ~ UNCHANGED <<messages, lease>>
  BY DEF DB!Received
<1>2. DB!Receive(c)
  BY <1>1, DBAnswers
<1> DEFINE now == request[c].now
           until == request[c].now + request[c].span
<1>3. PICK k \in DB!Visible(request[c].name, now) :
        messages' = [messages EXCEPT ![k].visibleAt = until] /\ lease' = [lease EXCEPT ![k] = until]
  BY <1>1, <1>2 DEF DB!Receive
<1>4. messages \in [DB!MsgIds -> DB!Message \cup {None}] /\ lease \in [DB!MsgIds -> Nat]
  BY DEF DBInv, DBTyped
<1>5. k \in DB!MsgIds /\ messages[k] # None /\ messages[k].visibleAt <= now
  BY <1>3 DEF DB!Visible, DB!Rows
<1>6. k = m
  BY <1>3, <1>4 DEF DB!Received
<1>7. request[c] \in DB!Request /\ now # None /\ request[c].span > 0
  BY <1>1 DEF DB!Ready, DBInv, DBTyped, Spanned
<1>8. now \in Nat /\ request[c].span \in Nat
  BY <1>7 DEF DB!Request, DB!Times
<1>9. lease[m] <= messages[m].visibleAt /\ messages[m].visibleAt \in Nat /\ lease[m] \in Nat
  BY <1>4, <1>5, <1>6 DEF DBInv, DB!Message
<1>10. lease'[m] = until
  BY <1>3, <1>4, <1>6
<1> HIDE DEF now
<1>11. now >= lease[m]
  BY <1>5, <1>6, <1>8, <1>9
<1>12. now < now + request[c].span
  BY <1>7, <1>8
<1> QED
  BY <1>10, <1>11, <1>12 DEF now

\* Nothing but these three takes a row of messages away.
LEMMA DBLosses == ASSUME DB!BoundsOK, DBInv, DB!Next PROVE DB!NoSilentLoss
<1> SUFFICES ASSUME NEW m \in DB!MsgIds, messages[m] # None, messages'[m] = None
             PROVE  \/ \E c \in Requests : DB!Delete(c) /\ request[c].target = m
                    \/ \E id \in DB!Named(messages[m].name) : DB!DeleteQueueByID(id) \/ DB!ClearMessages(id)
                    \/ messages[m].expiresAt <= dbClock
  BY DEF DB!NoSilentLoss
<1>1. messages \in [DB!MsgIds -> DB!Message \cup {None}] /\ messages[m] \in DB!Message
  BY DEF DBInv, DBTyped
<1>2. messages' # messages
  OBVIOUS
<1>3. \A S : DB!Remove(S) => m \in S
  BY DEF DB!Remove
<1>4. ASSUME NEW c \in Requests, DB!DataPlane(c)
      PROVE  DB!Delete(c) /\ request[c].target = m
  <2>1. \A n \in QueueNames : \A op : \A t : ~ DB!Arrive(c, op, n, t)
    BY <1>2 DEF DB!Arrive
  <2>2. ~ DB!QueueSettingsFor(c)
    BY <1>2 DEF DB!QueueSettingsFor
  <2>3. request[c] # None => request[c] \in DB!Request /\ Spanned(request[c])
    BY DEF DBInv, DBTyped
  <2>4. \A op \in {"send", "receive", "extend"} :
          DB!Ready(c, op) => request[c].now + request[c].span \in Nat
    BY <2>3 DEF DB!Ready, Spanned, DB!Request, DB!Times
  <2>5. \A k \in DB!MsgIds : \A x \in Nat : messages' # [messages EXCEPT ![k].visibleAt = x]
    <3> SUFFICES ASSUME NEW k \in DB!MsgIds, NEW x \in Nat, messages' = [messages EXCEPT ![k].visibleAt = x]
                 PROVE  FALSE
      OBVIOUS
    <3>1. messages'[m] \in DB!Message
      BY <1>1 DEF DB!Message
    <3> QED
      BY <3>1 DEF DB!BoundsOK
  <2>6. ~ DB!Send(c)
    <3> SUFFICES ASSUME DB!Send(c) PROVE FALSE
      OBVIOUS
    <3>1. sent + 1 = m
      BY <1>1 DEF DB!Send
    <3>2. m > sent
      BY <3>1 DEF DBInv, DBTyped
    <3> QED
      BY <3>2 DEF DBInv
  <2>7. ~ DB!Receive(c)
    <3> SUFFICES ASSUME DB!Receive(c) PROVE FALSE
      OBVIOUS
    <3>1. request[c].now + request[c].span \in Nat
      BY <2>4 DEF DB!Receive
    <3>2. PICK k \in DB!Visible(request[c].name, request[c].now) :
            messages' = [messages EXCEPT ![k].visibleAt = request[c].now + request[c].span]
      BY <1>2 DEF DB!Receive
    <3>3. k \in DB!MsgIds
      BY DEF DB!Visible, DB!Rows
    <3> QED
      BY <2>5, <3>1, <3>2, <3>3
  <2>8. ~ DB!ExtendTimeout(c)
    <3> SUFFICES ASSUME DB!ExtendTimeout(c) PROVE FALSE
      OBVIOUS
    <3>1. request[c].now + request[c].span \in Nat
      BY <2>4 DEF DB!ExtendTimeout
    <3>2. request[c].target \in DB!MsgIds
          /\ messages' = [messages EXCEPT ![request[c].target].visibleAt = request[c].now + request[c].span]
      BY <1>2 DEF DB!ExtendTimeout, DB!Rows
    <3> QED
      BY <2>5, <3>1, <3>2
  <2>9. DB!Delete(c)
    BY <1>4, <2>1, <2>2, <2>6, <2>7, <2>8 DEF DB!DataPlane
  <2> QED
    BY <1>3, <2>9 DEF DB!Delete
<1>5. ASSUME DB!ControlPlane
      PROVE  \E id \in DB!Named(messages[m].name) : DB!DeleteQueueByID(id) \/ DB!ClearMessages(id)
  <2>1. PICK id \in DB!QueueIds : DB!DeleteQueueByID(id) \/ DB!ClearMessages(id)
    BY <1>2, <1>5 DEF DB!ControlPlane, DB!CreateQueue, DB!UpdateQueue
  <2>2. queues[id] # None /\ m \in DB!Rows(queues[id].name)
    BY <1>3, <2>1 DEF DB!DeleteQueueByID, DB!ClearMessages
  <2>3. id \in DB!Named(messages[m].name)
    BY <2>2 DEF DB!Rows, DB!Named
  <2> QED
    BY <2>1, <2>3
<1>6. ASSUME NEW now \in 1 .. dbClock, DB!Compact(now) PROVE messages[m].expiresAt <= dbClock
  <2>1. messages[m].expiresAt <= now
    BY <1>3, <1>6 DEF DB!Compact
  <2>2. messages[m].expiresAt \in Nat /\ dbClock \in Nat
    BY <1>1 DEF DB!Message, DBInv, DBTyped, DB!Times
  <2> QED
    BY <2>1, <2>2
<1>7. ~ DB!Tick /\ \A c \in Defaults : ~ DB!Restart(c)
  BY <1>2 DEF DB!Tick, DB!Restart
<1> QED
  BY <1>4, <1>5, <1>6, <1>7 DEF DB!Next

-----------------------------------------------------------------------------
(* Identity *)

LEMMA IamOrders == \A s, S : Iam!Among(s, S) = Among(s, S)
  BY DEF Iam!Among, Among

\* What may belong to what: a resource of its own, or an owner's belonging.
Fits(o, id) == (o = id /\ id \notin Iam!Belongings) \/ Iam!Owns(o, id)

Ordered(it, ord) ==
    \A T \in Iam!Tables : Elems(ord[T]) = {x \in T : it[x] # None} /\ Once(ord[T])

IamRecords ==
    /\ items \in [Iam!IDs -> Iam!IDs \cup {None}] /\ order \in [Iam!Tables -> Seq(Iam!IDs)]
    /\ Ordered(items, order)
    /\ \A id \in Iam!IDs : items[id] # None => Fits(items[id], id)

\* What a request may be about.
Sound(w) ==
    /\ w.pc \in {"set", "add", "change"} => Fits(w.owner, w.id)
    /\ w.pc = "remove" => w.id \in Iam!Belongings
    /\ w.pc \in {"drop", "sweep"} => w.id \in Users \cup Principals /\ w.owner = w.id
    /\ w.pc = "drop" => w.id \in Users
    /\ w.pc = "sweep" => Elems(w.in) \subseteq {Devices, SecurityKeys, PrincipalKeys}
                         /\ Elems(w.left) \subseteq Iam!Belongings
    /\ w.pc \in {"policy", "unpolicy"} => w.id \in Projects \cup Folders /\ w.owner = w.id

IamWork ==
    /\ work \in [Requests -> Iam!Work \cup {None}]
    /\ \A r \in Requests : work[r] # None => Sound(work[r])

\* A request that will come to delete x of o, or the policy of p.
Sweeps(w, o, x) ==
    /\ w # None /\ w.pc = "sweep" /\ w.id = o
    /\ Iam!TableOf(x) \in Elems(w.in) \/ x \in Elems(w.left)
Unsets(w, p) == w # None /\ w.pc = "unpolicy" /\ w.id = p

IamTidy ==
    \A x \in Iam!IDs \ late :
        /\ items[x] # None /\ items[items[x]] = None =>
             \E r \in Requests : Sweeps(work[r], items[x], x)
        /\ x \in policies /\ items[x] = None => \E r \in Requests : Unsets(work[r], x)

IamInv ==
    /\ IamRecords /\ IamWork /\ IamTidy
    /\ policies \subseteq Projects \cup Folders /\ given \subseteq Iam!IDs /\ late \subseteq Iam!IDs

-----------------------------------------------------------------------------
(* The kinds of IAM, and what owns what *)

LEMMA RangeElems == \A X : \A s \in Seq(X) : Iam!Range(s) = Elems(s)
  BY DEF Iam!Range, Elems

\* The kinds of IDs have nothing in common.
LEMMA IamKinds ==
  ASSUME Iam!BoundsOK
  PROVE  /\ Users \cap Iam!Belongings = {} /\ Principals \cap Iam!Belongings = {} /\ Users \cap Principals = {}
         /\ (Projects \cup Folders) \cap (Users \cup Principals \cup Iam!Belongings) = {}
         /\ Others \cap (Users \cup Principals \cup Iam!Belongings) = {}
         /\ (Projects \cup Folders) \cap Others = {}
         /\ \A S, T \in Iam!Tables : S \cap T # {} => S = T
<1> DEFINE D(i, j) == i # j => Iam!TableList[i] \cap Iam!TableList[j] = {}
<1>1. \A i, j \in 1 .. 8 : D(i, j)
  BY DEF Iam!BoundsOK
<1> HIDE DEF D
<1>2. D(1, 2) /\ D(1, 3) /\ D(1, 4) /\ D(1, 5) /\ D(1, 6) /\ D(1, 7) /\ D(1, 8)
  BY <1>1
<1>3. D(2, 3) /\ D(2, 4) /\ D(2, 5) /\ D(2, 6) /\ D(2, 7) /\ D(2, 8)
  BY <1>1
<1>4. D(3, 4) /\ D(3, 5) /\ D(3, 6) /\ D(3, 7) /\ D(3, 8)
  BY <1>1
<1>5. D(4, 5) /\ D(4, 6) /\ D(4, 7) /\ D(4, 8)
  BY <1>1
<1>6. D(5, 6) /\ D(5, 7) /\ D(5, 8) /\ D(6, 7) /\ D(6, 8) /\ D(7, 8)
  BY <1>1
<1>7. /\ Users \cap Devices = {} /\ Users \cap SecurityKeys = {} /\ Users \cap Principals = {}
      /\ Users \cap PrincipalKeys = {} /\ Users \cap Projects = {} /\ Users \cap Folders = {}
      /\ Users \cap Others = {}
  BY <1>2 DEF D, Iam!TableList
<1>8. /\ Devices \cap SecurityKeys = {} /\ Devices \cap Principals = {} /\ Devices \cap PrincipalKeys = {}
      /\ Devices \cap Projects = {} /\ Devices \cap Folders = {} /\ Devices \cap Others = {}
  BY <1>3 DEF D, Iam!TableList
<1>9. /\ SecurityKeys \cap Principals = {} /\ SecurityKeys \cap PrincipalKeys = {}
      /\ SecurityKeys \cap Projects = {} /\ SecurityKeys \cap Folders = {} /\ SecurityKeys \cap Others = {}
  BY <1>4 DEF D, Iam!TableList
<1>10. /\ Principals \cap PrincipalKeys = {} /\ Principals \cap Projects = {}
       /\ Principals \cap Folders = {} /\ Principals \cap Others = {}
  BY <1>5 DEF D, Iam!TableList
<1>11. /\ PrincipalKeys \cap Projects = {} /\ PrincipalKeys \cap Folders = {} /\ PrincipalKeys \cap Others = {}
       /\ Projects \cap Folders = {} /\ Projects \cap Others = {} /\ Folders \cap Others = {}
  BY <1>6 DEF D, Iam!TableList
<1>12. \A S, T \in Iam!Tables : S = T \/ S \cap T = {}
  BY <1>7, <1>8, <1>9, <1>10, <1>11 DEF Iam!Tables
<1> QED
  BY <1>7, <1>8, <1>9, <1>10, <1>11, <1>12 DEF Iam!Belongings

\* The table that an ID is in.
LEMMA TableOfIs ==
  ASSUME Iam!BoundsOK
  PROVE  /\ \A T \in Iam!Tables : \A x \in T : Iam!TableOf(x) = T
         /\ \A x \in Iam!IDs : Iam!TableOf(x) \in Iam!Tables /\ x \in Iam!TableOf(x)
<1>1. ASSUME NEW T \in Iam!Tables, NEW x \in T PROVE Iam!TableOf(x) = T
  <2>1. \E S \in Iam!Tables : x \in S
    OBVIOUS
  <2>2. Iam!TableOf(x) \in Iam!Tables /\ x \in Iam!TableOf(x)
    BY <2>1 DEF Iam!TableOf
  <2> QED
    BY <2>2, IamKinds
<1>2. ASSUME NEW x \in Iam!IDs PROVE Iam!TableOf(x) \in Iam!Tables /\ x \in Iam!TableOf(x)
  BY DEF Iam!IDs, Iam!TableOf
<1> QED
  BY <1>1, <1>2

\* Who may own what.
LEMMA OwnsIs ==
  ASSUME Iam!BoundsOK
  PROVE  \A o, id : Iam!Owns(o, id) <=> \/ o \in Users /\ id \in Devices \cup SecurityKeys
                                        \/ o \in Principals /\ id \in PrincipalKeys
<1> SUFFICES ASSUME NEW o, NEW id
             PROVE  Iam!Owns(o, id) <=> \/ o \in Users /\ id \in Devices \cup SecurityKeys
                                        \/ o \in Principals /\ id \in PrincipalKeys
  OBVIOUS
<1>1. UNION Iam!Range(<<Devices, SecurityKeys>>) = Devices \cup SecurityKeys
  BY DEF Iam!Range
<1>2. UNION Iam!Range(<<PrincipalKeys>>) = PrincipalKeys
  BY DEF Iam!Range
<1>3. o \in Principals => o \notin Users
  BY IamKinds
<1>4. CASE o \in Users
  BY <1>1, <1>3, <1>4 DEF Iam!Owns, Iam!BelongingsOf
<1>5. CASE o \notin Users
  BY <1>2, <1>5 DEF Iam!Owns, Iam!BelongingsOf
<1> QED
  BY <1>4, <1>5

\* An owner is no belonging, and a belonging no owner.
LEMMA OwnsKinds ==
  ASSUME Iam!BoundsOK, NEW o, NEW id, Iam!Owns(o, id)
  PROVE  /\ o \in Users \cup Principals /\ id \in Iam!Belongings
         /\ o \in Iam!IDs /\ id \in Iam!IDs /\ o # id /\ ~ Iam!Owns(id, id)
<1>1. o \in Users \cup Principals /\ id \in Iam!Belongings
  BY OwnsIs DEF Iam!Belongings
<1>2. Users \cup Principals \subseteq Iam!IDs /\ Iam!Belongings \subseteq Iam!IDs
  BY DEF Iam!IDs, Iam!Tables, Iam!Belongings
<1>3. o # id /\ id \notin Users \cup Principals
  BY <1>1, IamKinds
<1>4. ~ Iam!Owns(id, id)
  BY <1>3, OwnsIs
<1> QED
  BY <1>1, <1>2, <1>3, <1>4

\* The tables that a deletion sweeps.
LEMMA BelongingTables ==
  ASSUME Iam!BoundsOK, NEW o \in Users \cup Principals
  PROVE  /\ Iam!BelongingsOf(o) \in Seq(Iam!Tables)
         /\ Elems(Iam!BelongingsOf(o)) \subseteq {Devices, SecurityKeys, PrincipalKeys}
         /\ \A id : Iam!Owns(o, id) => Iam!TableOf(id) \in Elems(Iam!BelongingsOf(o))
<1>1. Devices \in Iam!Tables /\ SecurityKeys \in Iam!Tables /\ PrincipalKeys \in Iam!Tables
  BY DEF Iam!Tables
<1>2. Elems(<<Devices, SecurityKeys>>) = {Devices, SecurityKeys}
  BY DEF Elems
<1>3. Elems(<<PrincipalKeys>>) = {PrincipalKeys}
  BY DEF Elems
<1>4. /\ \A id \in Devices : Iam!TableOf(id) = Devices
      /\ \A id \in SecurityKeys : Iam!TableOf(id) = SecurityKeys
      /\ \A id \in PrincipalKeys : Iam!TableOf(id) = PrincipalKeys
  BY <1>1, TableOfIs
<1>5. CASE o \in Users
  <2>1. Iam!BelongingsOf(o) = <<Devices, SecurityKeys>> /\ o \notin Principals
    BY <1>5, IamKinds DEF Iam!BelongingsOf
  <2>2. \A id : Iam!Owns(o, id) => id \in Iam!Belongings /\ id \in Devices \cup SecurityKeys
    BY <2>1, OwnsIs DEF Iam!Belongings
  <2>3. Iam!BelongingsOf(o) \in Seq(Iam!Tables)
    BY <1>1, <2>1
  <2> QED
    BY <1>2, <1>4, <2>1, <2>2, <2>3
<1>6. CASE o \notin Users
  <2>1. Iam!BelongingsOf(o) = <<PrincipalKeys>>
    BY <1>6 DEF Iam!BelongingsOf
  <2>2. \A id : Iam!Owns(o, id) => id \in Iam!Belongings /\ id \in PrincipalKeys
    BY <1>6, OwnsIs DEF Iam!Belongings
  <2>3. Iam!BelongingsOf(o) \in Seq(Iam!Tables)
    BY <1>1, <2>1
  <2> QED
    BY <1>3, <1>4, <2>1, <2>2, <2>3
<1> QED
  BY <1>5, <1>6

\* set and delete keep map and order together.
LEMMA RecordsSet ==
  ASSUME Iam!BoundsOK, IamRecords, NEW id \in Iam!IDs, NEW o \in Iam!IDs, Fits(o, id), Iam!Set(id, o)
  PROVE  IamRecords' /\ items' = [items EXCEPT ![id] = o]
<1> DEFINE T == Iam!TableOf(id)
           s == order[T]
           t == IF items[id] = None THEN Append(s, id) ELSE s
<1>1. T \in Iam!Tables /\ id \in T /\ \A S \in Iam!Tables : id \in S => S = T
  BY TableOfIs
<1> HIDE DEF T
<1>2. /\ items \in [Iam!IDs -> Iam!IDs \cup {None}] /\ order \in [Iam!Tables -> Seq(Iam!IDs)]
      /\ s \in Seq(Iam!IDs) /\ Elems(s) = {x \in T : items[x] # None} /\ Once(s)
  BY <1>1 DEF IamRecords, Ordered
<1>3. items' = [items EXCEPT ![id] = o] /\ o # None
  BY DEF Iam!Set, Iam!BoundsOK
<1>4. order' = [order EXCEPT ![T] = t]
  BY <1>1, <1>2 DEF Iam!Set, T
<1>5. t \in Seq(Iam!IDs) /\ Elems(t) = Elems(s) \cup {id} /\ Once(t)
  <2>1. CASE items[id] = None
    BY <1>2, <2>1, ElemsAppend
  <2>2. CASE items[id] # None
    <3>1. id \in Elems(s)
      BY <1>1, <1>2, <2>2
    <3> QED
      BY <1>2, <2>2, <3>1
  <2> QED
    BY <2>1, <2>2
<1> HIDE DEF s, t
<1>6. \A S \in Iam!Tables : S # T => order'[S] = order[S] /\ \A x \in S : items'[x] = items[x]
  <2>1. \A S \in Iam!Tables : S # T => id \notin S /\ S \subseteq Iam!IDs
    BY <1>1 DEF Iam!IDs
  <2> QED
    BY <1>2, <1>3, <1>4, <2>1
<1>7. order'[T] = t /\ {x \in T : items'[x] # None} = {x \in T : items[x] # None} \cup {id}
  <2>1. T \subseteq Iam!IDs
    BY <1>1 DEF Iam!IDs
  <2> QED
    BY <1>1, <1>2, <1>3, <1>4, <2>1
<1>8. Ordered(items', order')
  <2>1. \A S \in Iam!Tables : S # T => Elems(order'[S]) = {x \in S : items'[x] # None} /\ Once(order'[S])
    BY <1>6 DEF IamRecords, Ordered
  <2>2. Elems(order'[T]) = {x \in T : items'[x] # None} /\ Once(order'[T])
    BY <1>2, <1>5, <1>7
  <2> QED
    BY <2>1, <2>2 DEF Ordered
<1>9. items' \in [Iam!IDs -> Iam!IDs \cup {None}] /\ order' \in [Iam!Tables -> Seq(Iam!IDs)]
  BY <1>2, <1>3, <1>4, <1>5
<1>10. \A x \in Iam!IDs : items'[x] # None => Fits(items'[x], x)
  BY <1>2, <1>3 DEF IamRecords
<1> QED
  BY <1>3, <1>8, <1>9, <1>10 DEF IamRecords

\* What is deleted goes from its table and from its order.
LEMMA RecordsDelete ==
  ASSUME Iam!BoundsOK, IamRecords, NEW id \in Iam!IDs, Iam!Delete(id)
  PROVE  IamRecords' /\ items' = [items EXCEPT ![id] = None]
<1> DEFINE T == Iam!TableOf(id)
           s == order[T]
           t == Iam!Among(s, Iam!IDs \ {id})
<1>1. T \in Iam!Tables /\ id \in T /\ \A S \in Iam!Tables : id \in S => S = T
  BY TableOfIs
<1> HIDE DEF T
<1>2. /\ items \in [Iam!IDs -> Iam!IDs \cup {None}] /\ order \in [Iam!Tables -> Seq(Iam!IDs)]
      /\ s \in Seq(Iam!IDs) /\ Elems(s) = {x \in T : items[x] # None} /\ Once(s)
  BY <1>1 DEF IamRecords, Ordered
<1>3. items' = [items EXCEPT ![id] = None]
  BY DEF Iam!Delete
<1>4. order' = [order EXCEPT ![T] = t]
  BY <1>1, <1>2 DEF Iam!Delete, T
<1>5. t \in Seq(Iam!IDs)
  BY IamOrders, <1>2, AmongSeq
<1>6. Once(t)
  BY IamOrders, <1>2, AmongOnce
<1>7. Elems(t) = Elems(s) \cap (Iam!IDs \ {id})
  BY IamOrders, <1>2, AmongElems
<1> HIDE DEF s, t
<1>8. \A S \in Iam!Tables : S # T => order'[S] = order[S] /\ \A x \in S : items'[x] = items[x]
  <2>1. \A S \in Iam!Tables : S # T => id \notin S /\ S \subseteq Iam!IDs
    BY <1>1 DEF Iam!IDs
  <2> QED
    BY <1>2, <1>3, <1>4, <2>1
<1>9. order'[T] = t /\ {x \in T : items'[x] # None} = {x \in T : items[x] # None} \cap (Iam!IDs \ {id})
  <2>1. T \subseteq Iam!IDs
    BY <1>1 DEF Iam!IDs
  <2> QED
    BY <1>1, <1>2, <1>3, <1>4, <2>1
<1>10. Ordered(items', order')
  <2>1. \A S \in Iam!Tables : S # T => Elems(order'[S]) = {x \in S : items'[x] # None} /\ Once(order'[S])
    BY <1>8 DEF IamRecords, Ordered
  <2>2. Elems(order'[T]) = {x \in T : items'[x] # None} /\ Once(order'[T])
    BY <1>2, <1>6, <1>7, <1>9
  <2> QED
    BY <2>1, <2>2 DEF Ordered
<1>11. items' \in [Iam!IDs -> Iam!IDs \cup {None}] /\ order' \in [Iam!Tables -> Seq(Iam!IDs)]
  BY <1>2, <1>3, <1>4, <1>5
<1>12. \A x \in Iam!IDs : items'[x] # None => Fits(items'[x], x)
  BY <1>2, <1>3 DEF IamRecords
<1> QED
  BY <1>3, <1>10, <1>11, <1>12 DEF IamRecords

-----------------------------------------------------------------------------
(* Requests, and what they have begun *)

\* A request goes on, and the others do not.
LEMMA WorkGoes ==
  ASSUME IamWork, NEW r \in Requests, NEW w \in Iam!Work \cup {None}, w # None => Sound(w),
         work' = [work EXCEPT ![r] = w]
  PROVE  IamWork'
  BY DEF IamWork

\* Where a request stands that has looked something up.
Begun(pc, id, o) == [pc |-> pc, id |-> id, owner |-> o, in |-> <<>>, left |-> <<>>]

\* A request begins with nothing to sweep.
LEMMA BegunSound ==
  ASSUME Iam!BoundsOK, NEW id \in Iam!IDs, NEW o \in Iam!IDs,
         NEW pc \in {"set", "add", "change", "remove", "drop", "policy", "unpolicy"},
         pc \in {"set", "add", "change"} => Fits(o, id),
         pc = "remove" => id \in Iam!Belongings,
         pc = "drop" => id \in Users /\ o = id,
         pc \in {"policy", "unpolicy"} => id \in Projects \cup Folders /\ o = id
  PROVE  Begun(pc, id, o) \in Iam!Work /\ Sound(Begun(pc, id, o)) /\ Begun(pc, id, o) # None
<1>1. Begun(pc, id, o) \in Iam!Work
  BY DEF Begun, Iam!Work
<1>2. Begun(pc, id, o) # None
  BY <1>1 DEF Iam!BoundsOK
<1>3. Begun(pc, id, o).pc = pc /\ Begun(pc, id, o).id = id /\ Begun(pc, id, o).owner = o
  BY DEF Begun
<1>4. Sound(Begun(pc, id, o))
  BY <1>3 DEF Sound
<1> QED
  BY <1>1, <1>2, <1>4

Quiet(w) == w # None => w.pc \notin {"sweep", "unpolicy"}

\* Whoever was to delete something still is.
SameHands ==
    \A k \in Requests :
        /\ \A o, x : Sweeps(work[k], o, x) => Sweeps(work'[k], o, x)
        /\ \A p : Unsets(work[k], p) => Unsets(work'[k], p)

\* A request that sweeps nothing may go anywhere: nobody waits for it.
LEMMA QuietKeeps ==
  ASSUME IamWork, NEW r \in Requests, NEW w, Quiet(work[r]), work' = [work EXCEPT ![r] = w]
  PROVE  SameHands
  BY DEF IamWork, SameHands, Quiet, Sweeps, Unsets

\* What is neither a user nor a principal owns nothing but itself.
LEMMA NoOrphans ==
  ASSUME Iam!BoundsOK, IamRecords, NEW id, id \notin Users \cup Principals
  PROVE  \A x \in Iam!IDs : items[x] = id /\ items[x] # None => x = id
<1> SUFFICES ASSUME NEW x \in Iam!IDs, items[x] = id, items[x] # None PROVE x = id
  OBVIOUS
<1>1. Fits(id, x)
  BY DEF IamRecords
<1>2. ~ Iam!Owns(id, x)
  BY OwnsKinds
<1> QED
  BY <1>1, <1>2 DEF Fits

\* Nothing is set or deleted.
LEMMA TidySame ==
  ASSUME IamTidy, SameHands, UNCHANGED <<items, policies, late>>
  PROVE  IamTidy'
<1> SUFFICES ASSUME NEW x \in Iam!IDs \ late
             PROVE  /\ items[x] # None /\ items[items[x]] = None =>
                         \E r \in Requests : Sweeps(work'[r], items[x], x)
                    /\ x \in policies /\ items[x] = None => \E r \in Requests : Unsets(work'[r], x)
  BY DEF IamTidy
<1>1. ASSUME items[x] # None, items[items[x]] = None
      PROVE  \E r \in Requests : Sweeps(work'[r], items[x], x)
  BY <1>1 DEF IamTidy, SameHands
<1>2. ASSUME x \in policies, items[x] = None PROVE \E r \in Requests : Unsets(work'[r], x)
  BY <1>2 DEF IamTidy, SameHands
<1> QED
  BY <1>1, <1>2

\* Something is set, of an owner that is there, or else late.
LEMMA TidySet ==
  ASSUME Iam!BoundsOK, IamRecords, IamTidy, NEW id \in Iam!IDs, NEW o \in Iam!IDs,
         items' = [items EXCEPT ![id] = o], policies' = policies, late \subseteq late',
         items[o] = None /\ o # id => id \in late', SameHands
  PROVE  IamTidy'
<1>1. items \in [Iam!IDs -> Iam!IDs \cup {None}] /\ o # None
  BY DEF IamRecords, Iam!BoundsOK
<1>2. ASSUME NEW x \in Iam!IDs \ late', items'[x] # None, items'[items'[x]] = None
      PROVE  \E r \in Requests : Sweeps(work'[r], items'[x], x)
  <2>1. x # id
    <3> SUFFICES ASSUME x = id PROVE FALSE
      OBVIOUS
    <3>1. items'[id] = o /\ o # id
      BY <1>1, <1>2
    <3>2. items[o] = None
      BY <1>1, <1>2, <3>1
    <3> QED
      BY <1>2, <3>1, <3>2
  <2>2. items'[x] = items[x] /\ items[x] # id /\ items[x] # None /\ items[items[x]] = None
    BY <1>1, <1>2, <2>1
  <2>3. PICK r \in Requests : Sweeps(work[r], items[x], x)
    BY <1>2, <2>2 DEF IamTidy
  <2> QED
    BY <2>2, <2>3 DEF SameHands
<1>3. ASSUME NEW x \in Iam!IDs \ late', x \in policies', items'[x] = None
      PROVE  \E r \in Requests : Unsets(work'[r], x)
  <2>1. items[x] = None /\ x \notin late /\ x \in policies
    BY <1>1, <1>3
  <2>2. PICK r \in Requests : Unsets(work[r], x)
    BY <1>3, <2>1 DEF IamTidy
  <2> QED
    BY <2>2 DEF SameHands
<1> QED
  BY <1>2, <1>3 DEF IamTidy

\* Who sweeps on, but for id.
HandsBut(id) ==
    \A k \in Requests :
        /\ \A o : \A x \in Iam!IDs \ {id} : Sweeps(work[k], o, x) => Sweeps(work'[k], o, x)
        /\ \A p : Unsets(work[k], p) => Unsets(work'[k], p)

\* Something is deleted: a request will come to what it owned, and to its policy.
LEMMA TidyDelete ==
  ASSUME Iam!BoundsOK, IamRecords, IamTidy, NEW id \in Iam!IDs,
         items' = [items EXCEPT ![id] = None], UNCHANGED <<policies, late>>,
         \A x \in Iam!IDs \ {id} : items[x] = id => \E r \in Requests : Sweeps(work'[r], id, x),
         id \in policies => \E r \in Requests : Unsets(work'[r], id),
         HandsBut(id)
  PROVE  IamTidy'
<1>1. items \in [Iam!IDs -> Iam!IDs \cup {None}] /\ None \notin Iam!IDs
  BY DEF IamRecords, Iam!BoundsOK
<1>2. ASSUME NEW x \in Iam!IDs \ late', items'[x] # None, items'[items'[x]] = None
      PROVE  \E r \in Requests : Sweeps(work'[r], items'[x], x)
  <2>1. x # id /\ items'[x] = items[x]
    BY <1>1, <1>2
  <2>2. CASE items[x] = id
    BY <2>1, <2>2
  <2>3. CASE items[x] # id
    <3>1. items[x] \in Iam!IDs /\ items[items[x]] = None /\ x \notin late
      BY <1>1, <1>2, <2>1, <2>3
    <3>2. PICK r \in Requests : Sweeps(work[r], items[x], x)
      BY <1>2, <2>1, <3>1 DEF IamTidy
    <3> QED
      BY <2>1, <3>2 DEF HandsBut
  <2> QED
    BY <2>2, <2>3
<1>3. ASSUME NEW x \in Iam!IDs \ late', x \in policies', items'[x] = None
      PROVE  \E r \in Requests : Unsets(work'[r], x)
  <2>1. CASE x = id
    BY <1>3, <2>1
  <2>2. CASE x # id
    <3>1. items[x] = None /\ x \notin late /\ x \in policies
      BY <1>1, <1>3, <2>2
    <3>2. PICK r \in Requests : Unsets(work[r], x)
      BY <1>3, <3>1 DEF IamTidy
    <3> QED
      BY <3>2 DEF HandsBut
  <2> QED
    BY <2>1, <2>2
<1> QED
  BY <1>2, <1>3 DEF IamTidy

LEMMA HandsAreHandsBut == ASSUME NEW id, SameHands PROVE HandsBut(id)
  BY DEF SameHands, HandsBut

-----------------------------------------------------------------------------
(* The steps of IAM *)

LEMMA IamStarts == ASSUME Iam!BoundsOK, Iam!Init PROVE IamInv
<1>1. IamRecords
  <2>1. order \in [Iam!Tables -> Seq(Iam!IDs)] /\ \A T \in Iam!Tables : order[T] = <<>>
    BY DEF Iam!Init
  <2>2. items \in [Iam!IDs -> Iam!IDs \cup {None}] /\ \A id \in Iam!IDs : items[id] = None
    BY DEF Iam!Init
  <2>3. \A T \in Iam!Tables : T \subseteq Iam!IDs
    BY DEF Iam!IDs
  <2>4. Ordered(items, order)
    BY <2>1, <2>2, <2>3, ElemsEmpty DEF Ordered
  <2> QED
    BY <2>1, <2>2, <2>4 DEF IamRecords
<1>2. IamWork /\ IamTidy
  BY DEF Iam!Init, IamWork, IamTidy
<1> QED
  BY <1>1, <1>2 DEF IamInv, Iam!Init

\* A step of a request that deletes nothing, to another place or to its end.
LEMMA IamGoes ==
  ASSUME Iam!BoundsOK, IamInv, NEW r \in Requests, Quiet(work[r]),
         NEW w \in Iam!Work \cup {None}, w # None => Sound(w), work' = [work EXCEPT ![r] = w],
         UNCHANGED <<Iam!tables, policies, late>>, given' \subseteq Iam!IDs
  PROVE  IamInv'
<1>1. IamWork'
  BY WorkGoes DEF IamInv
<1>2. SameHands
  BY QuietKeeps DEF IamInv
<1>3. IamTidy'
  BY <1>2, TidySame DEF IamInv, Iam!tables
<1>4. IamRecords'
  BY DEF IamInv, IamRecords, Iam!tables
<1> QED
  BY <1>1, <1>3, <1>4 DEF IamInv, Iam!tables

\* A step that stores a record, and whose request ends if it had one.
LEMMA IamStores ==
  ASSUME Iam!BoundsOK, IamInv, NEW id \in Iam!IDs, NEW o \in Iam!IDs, Fits(o, id), Iam!Set(id, o),
         late \subseteq late', late' \subseteq late \cup {id},
         items[o] = None /\ o # id => id \in late',
         work' = work \/ \E r \in Requests : Quiet(work[r]) /\ work' = [work EXCEPT ![r] = None],
         UNCHANGED policies, given' \subseteq Iam!IDs
  PROVE  IamInv'
<1>1. IamRecords' /\ items' = [items EXCEPT ![id] = o]
  BY RecordsSet DEF IamInv
<1>2. IamWork' /\ SameHands
  <2>1. CASE work' = work
    BY <2>1 DEF IamInv, IamWork, SameHands
  <2>2. ASSUME NEW r \in Requests, Quiet(work[r]), work' = [work EXCEPT ![r] = None]
        PROVE  IamWork' /\ SameHands
    BY <2>2, WorkGoes, QuietKeeps DEF IamInv
  <2> QED
    BY <2>1, <2>2
<1>3. IamTidy'
  BY <1>1, <1>2, TidySet DEF IamInv
<1> QED
  BY <1>1, <1>2, <1>3 DEF IamInv

\* A step that deletes what owns nothing and has no policy.
LEMMA IamDrops ==
  ASSUME Iam!BoundsOK, IamInv, NEW id \in Iam!IDs, id \notin Users \cup Principals,
         id \notin Projects \cup Folders, Iam!Delete(id), IamWork', HandsBut(id),
         UNCHANGED <<policies, given, late>>
  PROVE  IamInv'
<1>1. IamRecords' /\ items' = [items EXCEPT ![id] = None]
  BY RecordsDelete DEF IamInv
<1>2. \A x \in Iam!IDs \ {id} : items[x] # id
  BY NoOrphans DEF IamInv, Iam!BoundsOK
<1>3. id \notin policies
  BY DEF IamInv
<1>4. IamTidy'
  BY <1>1, <1>2, <1>3, TidyDelete DEF IamInv
<1> QED
  BY <1>1, <1>4 DEF IamInv

\* A step of a request that deletes an owner and goes on to what it owned.
LEMMA IamDropsOwner ==
  ASSUME Iam!BoundsOK, IamInv, NEW r \in Requests, NEW o \in Users \cup Principals, Quiet(work[r]),
         Iam!Delete(o), Iam!Sweep(r, o, Iam!BelongingsOf(o)), UNCHANGED <<policies, given, late>>
  PROVE  IamInv'
<1> DEFINE w == [pc |-> "sweep", id |-> o, owner |-> o, in |-> Iam!BelongingsOf(o), left |-> <<>>]
<1>1. o \in Iam!IDs
  BY DEF Iam!IDs, Iam!Tables
<1>2. IamRecords' /\ items' = [items EXCEPT ![o] = None]
  BY <1>1, RecordsDelete DEF IamInv
<1>3. w \in Iam!Work
  BY <1>1, BelongingTables DEF Iam!Work
<1>4. w # None
  BY <1>3 DEF Iam!BoundsOK
<1>5. Sound(w)
  BY BelongingTables, ElemsEmpty DEF Sound
<1>6. \A x \in Iam!IDs \ {o} : items[x] = o => Sweeps(w, o, x)
  <2> SUFFICES ASSUME NEW x \in Iam!IDs \ {o}, items[x] = o PROVE Sweeps(w, o, x)
    OBVIOUS
  <2>1. items[x] # None
    BY <1>1 DEF Iam!BoundsOK
  <2>2. Iam!Owns(o, x)
    BY <2>1 DEF IamInv, IamRecords, Fits
  <2>3. Iam!TableOf(x) \in Elems(Iam!BelongingsOf(o))
    BY <2>2, BelongingTables
  <2> QED
    BY <1>4, <2>3 DEF Sweeps
<1>7. work' = [work EXCEPT ![r] = w]
  BY DEF Iam!Sweep
<1> HIDE DEF w
<1>8. IamWork' /\ HandsBut(o)
  BY <1>3, <1>5, <1>7, WorkGoes, QuietKeeps, HandsAreHandsBut DEF IamInv
<1>9. work'[r] = w
  BY <1>7 DEF IamInv, IamWork
<1>10. o \notin policies
  BY IamKinds DEF IamInv
<1>11. IamTidy'
  BY <1>1, <1>2, <1>6, <1>8, <1>9, <1>10, TidyDelete DEF IamInv
<1> QED
  BY <1>2, <1>8, <1>11 DEF IamInv

-----------------------------------------------------------------------------
\* A request that looks something up and stops there.
LEMMA IamBegins ==
  ASSUME Iam!BoundsOK, IamInv, NEW r \in Requests, Quiet(work[r]), NEW id \in Iam!IDs, NEW o \in Iam!IDs,
         NEW pc \in {"set", "add", "change", "remove", "drop", "policy"},
         pc \in {"set", "add", "change"} => Fits(o, id),
         pc = "remove" => id \in Iam!Belongings,
         pc = "drop" => id \in Users /\ o = id,
         pc = "policy" => id \in Projects \cup Folders /\ o = id,
         Iam!Go(r, pc, id, o), UNCHANGED <<Iam!tables, policies, late>>, given' \subseteq Iam!IDs
  PROVE  IamInv'
<1> DEFINE w == Begun(pc, id, o)
<1>1. w \in Iam!Work /\ Sound(w) /\ w # None
  BY BegunSound
<1>2. work' = [work EXCEPT ![r] = w]
  BY DEF Iam!Go, Begun
<1> HIDE DEF w
<1> QED
  BY <1>1, <1>2, IamGoes

\* A request is answered.
LEMMA IamAnswers ==
  ASSUME Iam!BoundsOK, IamInv, NEW r \in Requests, Quiet(work[r]), Iam!Answer(r),
         UNCHANGED <<Iam!tables, policies, given, late>>
  PROVE  IamInv'
<1>1. work' = [work EXCEPT ![r] = None] /\ given' \subseteq Iam!IDs
  BY DEF Iam!Answer, IamInv
<1> QED
  BY <1>1, IamGoes

\* Which requests sweep nothing.
LEMMA FreeIsQuiet == \A r : Iam!Free(r) => Quiet(work[r])
  BY DEF Iam!Free, Quiet

LEMMA AtIsQuiet == \A r : \A pc : Iam!At(r, pc) /\ pc \notin {"sweep", "unpolicy"} => Quiet(work[r])
  BY DEF Iam!At, Quiet

LEMMA AtSound ==
  ASSUME IamWork, NEW r \in Requests, NEW pc, Iam!At(r, pc)
  PROVE  work[r] # None /\ work[r] \in Iam!Work /\ Sound(work[r]) /\ work[r].pc = pc
         /\ work[r].id \in Iam!IDs /\ work[r].owner \in Iam!IDs
         /\ work[r].in \in Seq(Iam!Tables) /\ work[r].left \in Seq(Iam!IDs)
<1>1. work[r] # None /\ work[r] \in Iam!Work /\ Sound(work[r]) /\ work[r].pc = pc
  BY DEF Iam!At, IamWork
<1> QED
  BY <1>1 DEF Iam!Work

\* What is made, deleted in one step, or updated after it was read.
LEMMA ResourceSteps == ASSUME Iam!BoundsOK, IamInv, Iam!ResourceOps PROVE IamInv'
<1>1. ASSUME NEW id \in Iam!IDs, Iam!Create(id) PROVE IamInv'
  <2>1. Fits(id, id)
    BY <1>1 DEF Iam!Create, Fits
  <2>2. Iam!Set(id, id) /\ UNCHANGED <<policies, work, late>> /\ given' \subseteq Iam!IDs
    BY <1>1 DEF Iam!Create, Iam!NewID, IamInv
  <2> QED
    BY <2>1, <2>2, IamStores
<1>2. ASSUME NEW id \in Iam!IDs, Iam!DeleteOther(id) PROVE IamInv'
  <2>1. id \notin Users \cup Principals /\ id \notin Projects \cup Folders
    BY <1>2, IamKinds DEF Iam!DeleteOther
  <2>2. Iam!Delete(id) /\ UNCHANGED <<policies, given, work, late>>
    BY <1>2 DEF Iam!DeleteOther
  <2>3. IamWork' /\ HandsBut(id)
    BY <2>2 DEF IamInv, IamWork, HandsBut
  <2> QED
    BY <2>1, <2>2, <2>3, IamDrops
<1>3. ASSUME NEW id \in Iam!IDs, NEW r \in Requests, Iam!ReadToUpdate(r, id) PROVE IamInv'
  <2>1. Fits(id, id)
    BY <1>3 DEF Iam!ReadToUpdate, Fits
  <2>2. Quiet(work[r]) /\ Iam!Go(r, "set", id, id) /\ UNCHANGED <<Iam!tables, policies, late>>
        /\ given' \subseteq Iam!IDs
    BY <1>3, FreeIsQuiet DEF Iam!ReadToUpdate, IamInv
  <2> QED
    BY <2>1, <2>2, IamBegins
<1>4. ASSUME NEW r \in Requests, Iam!StoreUpdate(r) PROVE IamInv'
  <2> DEFINE id == work[r].id  o == work[r].owner
  <2>1. id \in Iam!IDs /\ o \in Iam!IDs /\ Sound(work[r]) /\ work[r].pc = "set"
    BY <1>4, AtSound DEF Iam!StoreUpdate, IamInv
  <2>2. Fits(o, id)
    BY <2>1 DEF Sound
  <2>3. Quiet(work[r])
    BY <1>4, AtIsQuiet DEF Iam!StoreUpdate
  <2>4. /\ Iam!Set(id, o) /\ UNCHANGED <<policies, given>>
        /\ late' = IF items[o] = None /\ o # id THEN late \cup {id} ELSE late
        /\ work' = [work EXCEPT ![r] = None]
    BY <1>4 DEF Iam!StoreUpdate, Iam!Stored, Iam!Answer
  <2> HIDE DEF id, o
  <2>5. late \subseteq late' /\ late' \subseteq late \cup {id}
        /\ (items[o] = None /\ o # id => id \in late') /\ given' \subseteq Iam!IDs
    BY <2>4 DEF IamInv
  <2> QED
    BY <2>1, <2>2, <2>3, <2>4, <2>5, IamStores
<1> QED
  BY <1>1, <1>2, <1>3, <1>4 DEF Iam!ResourceOps

\* Devices and keys, whose owner is looked up before.
LEMMA BelongingSteps == ASSUME Iam!BoundsOK, IamInv, Iam!BelongingOps PROVE IamInv'
<1>1. ASSUME NEW r \in Requests, NEW o \in Iam!IDs, NEW id \in Iam!Belongings, Iam!FindOwnerToAdd(r, o, id)
      PROVE  IamInv'
  <2>1. Fits(o, id) /\ id \in Iam!IDs
    BY <1>1, OwnsKinds DEF Iam!FindOwnerToAdd, Fits
  <2>2. Quiet(work[r]) /\ Iam!Go(r, "add", id, o) /\ UNCHANGED <<Iam!tables, policies, late>>
    BY <1>1, FreeIsQuiet DEF Iam!FindOwnerToAdd
  <2>3. given' \subseteq Iam!IDs
    BY <1>1, <2>1 DEF Iam!FindOwnerToAdd, Iam!NewID, IamInv
  <2> QED
    BY <2>1, <2>2, <2>3, IamBegins
<1>2. ASSUME NEW r \in Requests, NEW o \in Iam!IDs, NEW id \in Iam!Belongings, NEW pc \in {"change", "remove"},
             Iam!FindOwner(r, o, id, pc)
      PROVE  IamInv'
  <2>1. Fits(o, id) /\ id \in Iam!IDs
    BY <1>2, OwnsKinds DEF Iam!FindOwner, Fits
  <2>2. Quiet(work[r]) /\ Iam!Go(r, pc, id, o) /\ UNCHANGED <<Iam!tables, policies, late>>
        /\ given' \subseteq Iam!IDs
    BY <1>2, FreeIsQuiet DEF Iam!FindOwner, IamInv
  <2> QED
    BY <2>1, <2>2, IamBegins
<1>3. ASSUME NEW r \in Requests, Iam!Add(r) PROVE IamInv'
  <2> DEFINE id == work[r].id  o == work[r].owner
  <2>1. id \in Iam!IDs /\ o \in Iam!IDs /\ Sound(work[r]) /\ work[r].pc = "add"
    BY <1>3, AtSound DEF Iam!Add, IamInv
  <2>2. Fits(o, id)
    BY <2>1 DEF Sound
  <2>3. Quiet(work[r])
    BY <1>3, AtIsQuiet DEF Iam!Add
  <2>4. /\ Iam!Set(id, o) /\ UNCHANGED <<policies, given>>
        /\ late' = IF items[o] = None /\ o # id THEN late \cup {id} ELSE late
        /\ work' = [work EXCEPT ![r] = None]
    BY <1>3 DEF Iam!Add, Iam!Stored, Iam!Answer
  <2> HIDE DEF id, o
  <2>5. late \subseteq late' /\ late' \subseteq late \cup {id}
        /\ (items[o] = None /\ o # id => id \in late') /\ given' \subseteq Iam!IDs
    BY <2>4 DEF IamInv
  <2> QED
    BY <2>1, <2>2, <2>3, <2>4, <2>5, IamStores
<1>4. ASSUME NEW r \in Requests, Iam!NotTheirs(r) PROVE IamInv'
  <2>1. Quiet(work[r]) /\ Iam!Answer(r) /\ UNCHANGED <<Iam!tables, policies, given, late>>
    BY <1>4, AtIsQuiet DEF Iam!NotTheirs
  <2> QED
    BY <2>1, IamAnswers
<1>5. ASSUME NEW r \in Requests, Iam!ReadKey(r) PROVE IamInv'
  <2>1. work[r].id \in Iam!IDs /\ work[r].owner \in Iam!IDs /\ Sound(work[r]) /\ work[r].pc = "change"
    BY <1>5, AtSound DEF Iam!ReadKey, IamInv
  <2>2. Fits(work[r].owner, work[r].id)
    BY <2>1 DEF Sound
  <2>3. /\ Quiet(work[r]) /\ Iam!Go(r, "set", work[r].id, work[r].owner)
        /\ UNCHANGED <<Iam!tables, policies, late>> /\ given' \subseteq Iam!IDs
    BY <1>5, AtIsQuiet DEF Iam!ReadKey, IamInv
  <2> QED
    BY <2>1, <2>2, <2>3, IamBegins
<1>6. ASSUME NEW r \in Requests, Iam!RemoveBelonging(r) PROVE IamInv'
  <2> DEFINE id == work[r].id
  <2>1. id \in Iam!IDs /\ Sound(work[r]) /\ work[r].pc = "remove"
    BY <1>6, AtSound DEF Iam!RemoveBelonging, IamInv
  <2>2. id \in Iam!Belongings
    BY <2>1 DEF Sound
  <2>3. id \notin Users \cup Principals /\ id \notin Projects \cup Folders
    BY <2>2, IamKinds
  <2>4. /\ Iam!Delete(id) /\ UNCHANGED <<policies, given, late>> /\ Quiet(work[r])
        /\ work' = [work EXCEPT ![r] = None]
    BY <1>6, AtIsQuiet DEF Iam!RemoveBelonging, Iam!Answer
  <2> HIDE DEF id
  <2>5. IamWork' /\ HandsBut(id)
    BY <2>4, WorkGoes, QuietKeeps, HandsAreHandsBut DEF IamInv
  <2> QED
    BY <2>1, <2>3, <2>4, <2>5, IamDrops
<1> QED
  BY <1>1, <1>2, <1>3, <1>4, <1>5, <1>6 DEF Iam!BelongingOps

\* Users and principals deleted, and what was theirs swept up.
LEMMA OwnerSteps == ASSUME Iam!BoundsOK, IamInv, Iam!OwnerDeletions PROVE IamInv'
<1>1. ASSUME NEW r \in Requests, NEW u \in Iam!IDs, Iam!ClearDevices(r, u) PROVE IamInv'
  <2> DEFINE w == [pc |-> "sweep", id |-> u, owner |-> u, in |-> <<Devices>>, left |-> <<>>]
  <2>1. u \in Users /\ Quiet(work[r]) /\ UNCHANGED <<Iam!tables, policies, given, late>>
        /\ work' = [work EXCEPT ![r] = w]
    BY <1>1, FreeIsQuiet DEF Iam!ClearDevices, Iam!Sweep
  <2>2. <<Devices>> \in Seq(Iam!Tables) /\ Elems(<<Devices>>) = {Devices}
    BY DEF Iam!Tables, Elems
  <2>3. w \in Iam!Work
    BY <2>2 DEF Iam!Work
  <2>4. Sound(w)
    BY <2>1, <2>2, ElemsEmpty DEF Sound
  <2> HIDE DEF w
  <2>5. given' \subseteq Iam!IDs
    BY <2>1 DEF IamInv
  <2> QED
    BY <2>1, <2>3, <2>4, <2>5, IamGoes
<1>2. ASSUME NEW r \in Requests, NEW u \in Iam!IDs, Iam!ReadToDelete(r, u) PROVE IamInv'
  <2>1. Quiet(work[r]) /\ u \in Users /\ Iam!Go(r, "drop", u, u) /\ UNCHANGED <<Iam!tables, policies, late>>
        /\ given' \subseteq Iam!IDs
    BY <1>2, FreeIsQuiet DEF Iam!ReadToDelete, IamInv
  <2> QED
    BY <2>1, IamBegins
<1>3. ASSUME NEW r \in Requests, NEW o \in Iam!IDs, Iam!DeletePrincipal(r, o) PROVE IamInv'
  <2>1. o \in Users \cup Principals /\ Quiet(work[r]) /\ Iam!Delete(o)
        /\ Iam!Sweep(r, o, Iam!BelongingsOf(o)) /\ UNCHANGED <<policies, given, late>>
    BY <1>3, FreeIsQuiet DEF Iam!DeletePrincipal
  <2> QED
    BY <2>1, IamDropsOwner
<1>4. ASSUME NEW r \in Requests, Iam!DropUser(r) PROVE IamInv'
  <2>1. Sound(work[r]) /\ work[r].pc = "drop"
    BY <1>4, AtSound DEF Iam!DropUser, IamInv
  <2>2. work[r].id \in Users \cup Principals
    BY <2>1 DEF Sound
  <2>3. /\ Quiet(work[r]) /\ Iam!Delete(work[r].id)
        /\ Iam!Sweep(r, work[r].id, Iam!BelongingsOf(work[r].id)) /\ UNCHANGED <<policies, given, late>>
    BY <1>4, AtIsQuiet DEF Iam!DropUser
  <2> QED
    BY <2>2, <2>3, IamDropsOwner
<1>5. ASSUME NEW r \in Requests, Iam!ListBelongings(r) PROVE IamInv'
  <2> DEFINE v == work[r]
             S == {id \in Iam!IDs : items[id] = v.id}
             w == [v EXCEPT !.left = Iam!Among(order[Head(v.in)], S), !.in = Tail(@)]
  <2>1. /\ v # None /\ v \in Iam!Work /\ Sound(v) /\ v.pc = "sweep" /\ v.id \in Iam!IDs
        /\ v.in \in Seq(Iam!Tables) /\ v.left = <<>>
    BY <1>5, AtSound DEF Iam!ListBelongings, IamInv
  <2>2. UNCHANGED <<Iam!tables, policies, given, late>>
    BY <1>5 DEF Iam!ListBelongings
  <2>3. IamRecords' /\ policies' \subseteq Projects \cup Folders /\ given' \subseteq Iam!IDs /\ late' \subseteq Iam!IDs
    BY <2>2 DEF IamInv, IamRecords, Iam!tables
  <2>4. CASE v.in = <<>>
    <3>1. work' = [work EXCEPT ![r] = None]
      BY <1>5, <2>4 DEF Iam!ListBelongings, Iam!Answer
    <3>2. \A o, x : ~ Sweeps(v, o, x)
      BY <2>1, <2>4, ElemsEmpty DEF Sweeps
    <3>3. \A p : ~ Unsets(v, p)
      BY <2>1 DEF Unsets
    <3> HIDE DEF v
    <3>4. \A k \in Requests \ {r} : work'[k] = work[k]
      BY <3>1 DEF IamInv, IamWork
    <3>5. SameHands
      BY <3>2, <3>3, <3>4 DEF SameHands, v
    <3>6. IamTidy'
      BY <2>2, <3>5, TidySame DEF IamInv, Iam!tables
    <3>7. IamWork'
      BY <3>1, WorkGoes DEF IamInv
    <3> QED
      BY <2>3, <3>6, <3>7 DEF IamInv
  <2>5. CASE v.in # <<>>
    <3> DEFINE T == Head(v.in)
    <3>1. T \in Iam!Tables /\ Tail(v.in) \in Seq(Iam!Tables) /\ Elems(v.in) = {T} \cup Elems(Tail(v.in))
      BY <2>1, <2>5, ElemsHeadTail
    <3>2. T \in {Devices, SecurityKeys, PrincipalKeys} /\ T \subseteq Iam!Belongings
      BY <2>1, <3>1 DEF Sound, Iam!Belongings
    <3>3. order[T] \in Seq(Iam!IDs) /\ Elems(order[T]) = {x \in T : items[x] # None}
      BY <3>1 DEF IamInv, IamRecords, Ordered
    <3>4. Iam!Among(order[T], S) \in Seq(Iam!IDs) /\ Elems(Iam!Among(order[T], S)) = Elems(order[T]) \cap S
      BY IamOrders, <3>3, AmongSeq, AmongElems
    <3>5. /\ w \in Iam!Work /\ w.pc = "sweep" /\ w.id = v.id /\ w.owner = v.owner
          /\ w.in = Tail(v.in) /\ w.left = Iam!Among(order[T], S)
      BY <2>1, <3>1, <3>4 DEF Iam!Work
    <3>6. work' = [work EXCEPT ![r] = w]
      <4>1. work \in [Requests -> Iam!Work \cup {None}]
        BY DEF IamInv, IamWork
      <4>2. work' = [work EXCEPT
                ![r].left = Iam!Among(order[Head(work[r].in)], {id \in Iam!IDs : items[id] = work[r].id}),
                ![r].in = Tail(@)]
        BY <1>5, <2>5 DEF Iam!ListBelongings
      <4> QED
        BY <2>1, <4>1, <4>2 DEF Iam!Work
    <3>7. Sound(w)
      <4>1. Elems(w.in) \subseteq {Devices, SecurityKeys, PrincipalKeys}
        BY <2>1, <3>1, <3>5 DEF Sound
      <4>2. Elems(w.left) \subseteq Iam!Belongings
        BY <3>2, <3>3, <3>4, <3>5
      <4> HIDE DEF w, v
      <4> QED
        BY <2>1, <3>5, <4>1, <4>2 DEF Sound
    <3>8. w # None
      BY <3>5 DEF Iam!BoundsOK
    <3>9. \A x \in Iam!IDs : items[x] # None /\ Sweeps(v, items[x], x) => Sweeps(w, items[x], x)
      <4> SUFFICES ASSUME NEW x \in Iam!IDs, items[x] # None, Sweeps(v, items[x], x) PROVE Sweeps(w, items[x], x)
        OBVIOUS
      <4>1. v.id = items[x] /\ Iam!TableOf(x) \in Elems(v.in)
        BY <2>1, ElemsEmpty DEF Sweeps
      <4>2. CASE Iam!TableOf(x) = T
        <5>1. x \in T
          BY <4>2, TableOfIs
        <5>2. x \in Elems(w.left)
          BY <3>3, <3>4, <3>5, <4>1, <5>1
        <5> HIDE DEF w, v
        <5> QED
          BY <3>5, <3>8, <4>1, <5>2 DEF Sweeps
      <4>3. CASE Iam!TableOf(x) # T
        <5>1. Iam!TableOf(x) \in Elems(w.in)
          BY <3>1, <3>5, <4>1, <4>3
        <5> HIDE DEF w, v
        <5> QED
          BY <3>5, <3>8, <4>1, <5>1 DEF Sweeps
      <4> QED
        BY <4>2, <4>3
    <3>10. \A p : ~ Unsets(v, p)
      BY <2>1 DEF Unsets
    <3> HIDE DEF w, v
    <3>11. IamWork'
      BY <3>5, <3>6, <3>7, WorkGoes DEF IamInv
    <3>12. work'[r] = w /\ \A k \in Requests \ {r} : work'[k] = work[k]
      BY <3>6 DEF IamInv, IamWork
    <3>13. IamTidy'
      <4> SUFFICES ASSUME NEW x \in Iam!IDs \ late
                   PROVE  /\ items[x] # None /\ items[items[x]] = None =>
                               \E k \in Requests : Sweeps(work'[k], items[x], x)
                          /\ x \in policies /\ items[x] = None => \E k \in Requests : Unsets(work'[k], x)
        BY <2>2 DEF IamTidy, Iam!tables
      <4>1. ASSUME items[x] # None, items[items[x]] = None
            PROVE  \E k \in Requests : Sweeps(work'[k], items[x], x)
        <5>1. PICK k \in Requests : Sweeps(work[k], items[x], x)
          BY <4>1 DEF IamInv, IamTidy
        <5> QED
          BY <3>9, <3>12, <4>1, <5>1 DEF v
      <4>2. ASSUME x \in policies, items[x] = None PROVE \E k \in Requests : Unsets(work'[k], x)
        <5>1. PICK k \in Requests : Unsets(work[k], x)
          BY <4>2 DEF IamInv, IamTidy
        <5> QED
          BY <3>10, <3>12, <5>1 DEF v
      <4> QED
        BY <4>1, <4>2
    <3> QED
      BY <2>3, <3>11, <3>13 DEF IamInv
  <2> QED
    BY <2>4, <2>5
<1>6. ASSUME NEW r \in Requests, Iam!DeleteNext(r) PROVE IamInv'
  <2> DEFINE v == work[r]
             id == Head(v.left)
             w == [v EXCEPT !.left = Tail(@)]
  <2>1. /\ v # None /\ v \in Iam!Work /\ Sound(v) /\ v.pc = "sweep" /\ v.id \in Iam!IDs
        /\ v.left \in Seq(Iam!IDs) /\ v.left # <<>>
    BY <1>6, AtSound DEF Iam!DeleteNext, IamInv
  <2>2. id \in Iam!IDs /\ Tail(v.left) \in Seq(Iam!IDs) /\ Elems(v.left) = {id} \cup Elems(Tail(v.left))
    BY <2>1, ElemsHeadTail
  <2>3. id \in Iam!Belongings
    BY <2>1, <2>2 DEF Sound
  <2>4. id \notin Users \cup Principals /\ id \notin Projects \cup Folders
    BY <2>3, IamKinds
  <2>5. /\ w \in Iam!Work /\ w.pc = "sweep" /\ w.id = v.id /\ w.owner = v.owner
        /\ w.in = v.in /\ w.left = Tail(v.left)
    BY <2>1, <2>2 DEF Iam!Work
  <2>6. Sound(w)
    <3>1. Elems(w.left) \subseteq Iam!Belongings
      BY <2>1, <2>2, <2>5 DEF Sound
    <3> HIDE DEF w, v
    <3> QED
      BY <2>1, <2>5, <3>1 DEF Sound
  <2>7. w # None
    BY <2>5 DEF Iam!BoundsOK
  <2>8. Iam!Delete(id) /\ UNCHANGED <<policies, given, late>>
    BY <1>6 DEF Iam!DeleteNext
  <2>9. work' = [work EXCEPT ![r] = w]
    BY <1>6, <2>1 DEF Iam!DeleteNext, IamInv, IamWork, Iam!Work
  <2>10. \A o : \A x \in Iam!IDs \ {id} : Sweeps(v, o, x) => Sweeps(w, o, x)
    <3> SUFFICES ASSUME NEW o, NEW x \in Iam!IDs \ {id}, Sweeps(v, o, x) PROVE Sweeps(w, o, x)
      OBVIOUS
    <3>1. Iam!TableOf(x) \in Elems(w.in) \/ x \in Elems(w.left)
      BY <2>2, <2>5 DEF Sweeps
    <3> HIDE DEF w, v
    <3> QED
      BY <2>5, <2>7, <3>1 DEF Sweeps
  <2>11. \A p : ~ Unsets(v, p)
    BY <2>1 DEF Unsets
  <2> HIDE DEF w, v, id
  <2>12. work'[r] = w /\ \A k \in Requests \ {r} : work'[k] = work[k]
    BY <2>9 DEF IamInv, IamWork
  <2>13. HandsBut(id)
    BY <2>10, <2>11, <2>12 DEF HandsBut, v
  <2>14. IamWork'
    BY <2>5, <2>6, <2>9, WorkGoes DEF IamInv
  <2> QED
    BY <2>2, <2>4, <2>8, <2>13, <2>14, IamDrops
<1> QED
  BY <1>1, <1>2, <1>3, <1>4, <1>5, <1>6 DEF Iam!OwnerDeletions

\* Policies, set after a look at their project and deleted after it.
LEMMA PolicySteps == ASSUME Iam!BoundsOK, IamInv, Iam!PolicyOps PROVE IamInv'
<1>1. ASSUME NEW r \in Requests, NEW p \in Iam!IDs, Iam!ReadToSetPolicy(r, p) PROVE IamInv'
  <2>1. Quiet(work[r]) /\ p \in Projects \cup Folders /\ Iam!Go(r, "policy", p, p)
        /\ UNCHANGED <<Iam!tables, policies, late>> /\ given' \subseteq Iam!IDs
    BY <1>1, FreeIsQuiet DEF Iam!ReadToSetPolicy, IamInv
  <2> QED
    BY <2>1, IamBegins
<1>2. ASSUME NEW r \in Requests, NEW p \in Iam!IDs, Iam!DeleteProject(r, p) PROVE IamInv'
  <2> DEFINE w == Begun("unpolicy", p, p)
  <2>1. p \in Projects \cup Folders /\ Quiet(work[r]) /\ Iam!Delete(p)
        /\ work' = [work EXCEPT ![r] = w] /\ UNCHANGED <<policies, given, late>>
    BY <1>2, FreeIsQuiet DEF Iam!DeleteProject, Iam!Go, Begun
  <2>2. w \in Iam!Work /\ Sound(w) /\ w # None
    BY <2>1, BegunSound
  <2>3. Unsets(w, p)
    BY <2>2 DEF Unsets, Begun
  <2> HIDE DEF w
  <2>4. p \notin Users \cup Principals
    BY <2>1, IamKinds
  <2>5. IamRecords' /\ items' = [items EXCEPT ![p] = None]
    BY <2>1, RecordsDelete DEF IamInv
  <2>6. IamWork' /\ HandsBut(p)
    BY <2>1, <2>2, WorkGoes, QuietKeeps, HandsAreHandsBut DEF IamInv
  <2>7. work'[r] = w
    BY <2>1 DEF IamInv, IamWork
  <2>8. \A x \in Iam!IDs \ {p} : items[x] # p
    BY <2>4, NoOrphans DEF IamInv, Iam!BoundsOK
  <2>9. IamTidy'
    BY <2>1, <2>3, <2>5, <2>6, <2>7, <2>8, TidyDelete DEF IamInv
  <2> QED
    BY <2>1, <2>5, <2>6, <2>9 DEF IamInv
<1>3. ASSUME NEW r \in Requests, Iam!StorePolicy(r) PROVE IamInv'
  <2> DEFINE p == work[r].id
  <2>1. Sound(work[r]) /\ work[r].pc = "policy" /\ p \in Iam!IDs
    BY <1>3, AtSound DEF Iam!StorePolicy, IamInv
  <2>2. p \in Projects \cup Folders
    BY <2>1 DEF Sound
  <2>3. /\ policies' = policies \cup {p} /\ Quiet(work[r])
        /\ late' = IF items[p] = None THEN late \cup {p} ELSE late
        /\ work' = [work EXCEPT ![r] = None] /\ UNCHANGED <<items, order, given>>
    BY <1>3, AtIsQuiet DEF Iam!StorePolicy, Iam!Answer, Iam!tables
  <2> HIDE DEF p
  <2>4. IamWork' /\ SameHands
    BY <2>3, WorkGoes, QuietKeeps DEF IamInv
  <2>5. IamRecords'
    BY <2>3 DEF IamInv, IamRecords
  <2>6. ASSUME NEW x \in Iam!IDs \ late', items[x] # None, items[items[x]] = None
        PROVE  \E k \in Requests : Sweeps(work'[k], items[x], x)
    BY <2>3, <2>4, <2>6 DEF IamInv, IamTidy, SameHands
  <2>7. ASSUME NEW x \in Iam!IDs \ late', x \in policies', items[x] = None
        PROVE  \E k \in Requests : Unsets(work'[k], x)
    BY <2>3, <2>4, <2>7 DEF IamInv, IamTidy, SameHands
  <2>8. IamTidy'
    BY <2>3, <2>6, <2>7 DEF IamTidy
  <2> QED
    BY <2>1, <2>2, <2>3, <2>4, <2>5, <2>8 DEF IamInv
<1>4. ASSUME NEW r \in Requests, Iam!DeletePolicy(r) PROVE IamInv'
  <2> DEFINE p == work[r].id
  <2>1. work[r].pc = "unpolicy" /\ work[r] # None
    BY <1>4 DEF Iam!DeletePolicy, Iam!At
  <2>2. /\ policies' = policies \ {p} /\ work' = [work EXCEPT ![r] = None]
        /\ UNCHANGED <<items, order, given, late>>
    BY <1>4 DEF Iam!DeletePolicy, Iam!Answer, Iam!tables
  <2>3. \A o, x : ~ Sweeps(work[r], o, x)
    BY <2>1 DEF Sweeps
  <2>4. \A q : Unsets(work[r], q) => q = p
    BY DEF Unsets
  <2> HIDE DEF p
  <2>5. \A k \in Requests \ {r} : work'[k] = work[k]
    BY <2>2 DEF IamInv, IamWork
  <2>6. IamWork' /\ IamRecords'
    BY <2>2, WorkGoes DEF IamInv, IamRecords
  <2>7. ASSUME NEW x \in Iam!IDs \ late, items[x] # None, items[items[x]] = None
        PROVE  \E k \in Requests : Sweeps(work'[k], items[x], x)
    BY <2>3, <2>5, <2>7 DEF IamInv, IamTidy
  <2>8. ASSUME NEW x \in Iam!IDs \ late, x \in policies \ {p}, items[x] = None
        PROVE  \E k \in Requests : Unsets(work'[k], x)
    BY <2>4, <2>5, <2>8 DEF IamInv, IamTidy
  <2>9. IamTidy'
    BY <2>2, <2>7, <2>8 DEF IamTidy
  <2> QED
    BY <2>2, <2>6, <2>9 DEF IamInv
<1> QED
  BY <1>1, <1>2, <1>3, <1>4 DEF Iam!PolicyOps

LEMMA IamSteps == ASSUME Iam!BoundsOK, IamInv, Iam!Next PROVE IamInv'
  BY ResourceSteps, BelongingSteps, OwnerSteps, PolicySteps DEF Iam!Next

LEMMA IamKeeps ==
  ASSUME Iam!BoundsOK, IamInv
  PROVE Iam!TypeOK /\ Iam!OrderMatches /\ Iam!NothingLeftBehind
<1>1. Iam!TypeOK
  BY DEF IamInv, IamRecords, IamWork, Iam!TypeOK
<1>2. Iam!OrderMatches
  <2> SUFFICES ASSUME NEW T \in Iam!Tables
               PROVE  /\ Iam!Range(order[T]) = Iam!Held \cap T
                      /\ \A i, j \in 1 .. Len(order[T]) : order[T][i] = order[T][j] => i = j
    BY DEF Iam!OrderMatches
  <2>1. order[T] \in Seq(Iam!IDs) /\ Elems(order[T]) = {x \in T : items[x] # None} /\ Once(order[T])
    BY DEF IamInv, IamRecords, Ordered
  <2>2. T \subseteq Iam!IDs
    BY DEF Iam!IDs
  <2> QED
    BY <2>1, <2>2, RangeElems DEF Iam!Held, Once
<1>3. Iam!NothingLeftBehind
  <2> SUFFICES ASSUME NEW x \in Iam!IDs \ late
               PROVE  /\ items[x] # None /\ items[items[x]] = None => Iam!Deleting(items[x])
                      /\ x \in policies /\ items[x] = None => Iam!Deleting(x)
    BY DEF Iam!NothingLeftBehind
  <2>1. \A r \in Requests : \A o : Sweeps(work[r], o, x) \/ Unsets(work[r], o) => Iam!Deleting(o)
    <3> SUFFICES ASSUME NEW r \in Requests, NEW o, Sweeps(work[r], o, x) \/ Unsets(work[r], o)
                 PROVE  Iam!Deleting(o)
      OBVIOUS
    <3>1. work[r] # None /\ work[r].pc \in {"sweep", "unpolicy"} /\ work[r].id = o
      BY DEF Sweeps, Unsets
    <3>2. work[r].owner = o
      BY <3>1 DEF IamInv, IamWork, Sound
    <3> QED
      BY <3>1, <3>2 DEF Iam!Deleting
  <2> QED
    BY <2>1 DEF IamInv, IamTidy
<1> QED
  BY <1>1, <1>2, <1>3

-----------------------------------------------------------------------------
(* MonitoringSuite *)

\* A module and its instance count alike.
LEMMA SuiteCards ==
    /\ \A S : Suite!Cardinality(S) = Cardinality(S)
    /\ \A S : Suite!IsFiniteSet(S) = IsFiniteSet(S)
  BY DEF Suite!Cardinality, Cardinality, Suite!IsFiniteSet, IsFiniteSet

Settled == stored \cup removed

Making(w) == w.do \in {"create", "rank"}

\* What a request relies on until it is carried out: its new ID is nobody's, what
\* it names is found or still to be found, and the routings that its own has to
\* follow come before it, or are gone.
EditSound(w) ==
    /\ Making(w) =>
         /\ w.id \in assigned \ Settled /\ w.naming # None
         /\ w.id \in Suite!OfProjects => w.of \in Projects
    /\ w.do = "update" /\ w.id \in Routings =>
         /\ w.of \in Projects
         /\ w.id \in Elems(w.due) \/ (w.id \in Settled /\ owner[w.id] = w.of)
    /\ w.do \in {"create", "rank", "update"} /\ w.naming # None =>
         /\ w.id \in Routings =>
              /\ w.naming \subseteq Targets
              /\ \A t \in w.naming : t \in Elems(w.due) \/ (t \in Settled /\ owner[t] = w.of)
         /\ w.id \in LogRoutings =>
              w.naming \subseteq LogStorages \cap (Elems(w.due) \cup Settled)
         /\ w.id \in MetricsRoutings =>
              w.naming \subseteq MetricsStorages \cap (Elems(w.due) \cup Settled)
    /\ w.before \subseteq Settled /\ \A q \in w.before : owner[q] = w.of
    /\ w.do = "create" => \A q \in w.before \cap stored : rank[q] < w.order

SuiteTables ==
    /\ Suite!TypeOK
    /\ Settled \subseteq assigned /\ stored \cap removed = {}
    /\ \A x \in Suite!OfProjects \cap Settled : owner[x] \in Projects
    /\ \A r \in Routings \cap stored : \A t \in names[r] : t \in Settled /\ owner[t] = owner[r]
    /\ \A r \in LogRoutings \cap stored : names[r] \subseteq LogStorages \cap Settled
    /\ \A r \in MetricsRoutings \cap stored : names[r] \subseteq MetricsStorages \cap Settled
    /\ \A r \in Routings : earlier[r] \subseteq stored
    /\ \A r \in Routings \cap stored : \A q \in earlier[r] : rank[q] < rank[r]

SuiteEdits ==
    /\ \A e \in Requests : editing[e] # None => EditSound(editing[e])
    /\ \A e, f \in Requests :
         /\ e # f /\ editing[e] # None /\ editing[f] # None
         /\ Making(editing[e]) /\ Making(editing[f])
         => editing[e].id # editing[f].id

SuiteInv == SuiteTables /\ SuiteEdits

LEMMA MaxNat == ASSUME Suite!BoundsOK PROVE Suite!Max \in Nat
  BY SuiteCards, FS_CardinalityType DEF Suite!BoundsOK, Suite!Max

LEMMA SuiteStarts == ASSUME Suite!BoundsOK, Suite!Init PROVE SuiteInv
<1>1. Suite!Max \in Nat
  BY MaxNat
<1> HIDE DEF Suite!Max
<1>2. SuiteTables
  BY <1>1 DEF Suite!Init, SuiteTables, Suite!TypeOK, Settled
<1>3. SuiteEdits
  BY DEF Suite!Init, SuiteEdits
<1> QED
  BY <1>2, <1>3 DEF SuiteInv

\* The last of a bounded set of numbers.
LEMMA Greatest ==
  ASSUME NEW m \in Nat, NEW T, T \subseteq 0 .. m, 0 \in T
  PROVE  \E n \in T : \A k \in T : k <= n
<1> DEFINE U == {i \in Nat : \A k \in T : k <= i}
<1>1. U \subseteq Nat /\ m \in U
  OBVIOUS
<1>2. PICK u \in U : \A y \in U : u <= y
  <2> HIDE DEF U
  <2> QED
    BY <1>1, LeastNumber
<1>3. CASE u \in T
  BY <1>2, <1>3
<1>4. CASE u \notin T
  <2>1. u # 0 /\ u \in Nat /\ \A k \in T : k <= u /\ k # u /\ k \in Nat
    BY <1>1, <1>2, <1>4
  <2>2. u - 1 \in Nat /\ \A k \in T : k <= u - 1
    BY <2>1
  <2> QED
    BY <1>2, <2>1, <2>2
<1> QED
  BY <1>3, <1>4

\* The next order of a project's routings is beyond theirs.
LEMMA NextOrderIs ==
  ASSUME Suite!BoundsOK, Suite!TypeOK, NEW p
  PROVE  Suite!NextOrder(p) \in Nat \ {0} /\ \A r \in Suite!InProject(p) : rank[r] < Suite!NextOrder(p)
<1> DEFINE orders == {0} \cup {rank[r] : r \in Suite!InProject(p)}
           n == CHOOSE n \in orders : \A k \in orders : k <= n
<1>1. Suite!Max \in Nat
  BY MaxNat
<1>2. orders \subseteq 0 .. Suite!Max /\ 0 \in orders
  BY <1>1 DEF Suite!TypeOK, Suite!InProject
<1>3. \A r \in Suite!InProject(p) : rank[r] \in orders
  OBVIOUS
<1>4. Suite!NextOrder(p) = 1 + n
  BY DEF Suite!NextOrder
<1> HIDE DEF orders
<1>5. \E k \in orders : \A j \in orders : j <= k
  BY <1>1, <1>2, Greatest
<1>6. n \in orders /\ \A k \in orders : k <= n
  BY <1>5
<1> HIDE DEF n
<1>7. n \in Nat
  BY <1>1, <1>2, <1>6
<1>8. ASSUME NEW r \in Suite!InProject(p) PROVE rank[r] \in Nat /\ rank[r] <= n
  <2>1. rank[r] \in orders
    BY <1>3
  <2>2. rank[r] \in 0 .. Suite!Max
    BY <1>2, <2>1
  <2>3. rank[r] <= n
    BY <1>6, <2>1
  <2> QED
    BY <1>1, <2>2, <2>3
<1> QED
  BY <1>4, <1>7, <1>8

\* A request that is not concerned stays as sound as it was.
LEMMA EditKept ==
  ASSUME SuiteInv, NEW w \in Suite!Edit, EditSound(w),
         assigned \subseteq assigned', Settled \subseteq Settled',
         Making(w) => w.id \notin Settled',
         \A x \in Settled : owner'[x] = owner[x],
         \A q \in w.before \cap stored' : q \in stored /\ rank'[q] = rank[q]
  PROVE  EditSound(w)'
<1>1. Making(w) =>
         /\ w.id \in assigned' \ Settled' /\ w.naming # None
         /\ w.id \in Suite!OfProjects => w.of \in Projects
  BY DEF EditSound
<1>2. w.do = "update" /\ w.id \in Routings =>
         /\ w.of \in Projects
         /\ w.id \in Elems(w.due) \/ (w.id \in Settled' /\ owner'[w.id] = w.of)
  BY DEF EditSound
<1>3. w.do \in {"create", "rank", "update"} /\ w.naming # None =>
         /\ w.id \in Routings =>
              /\ w.naming \subseteq Targets
              /\ \A t \in w.naming : t \in Elems(w.due) \/ (t \in Settled' /\ owner'[t] = w.of)
         /\ w.id \in LogRoutings =>
              w.naming \subseteq LogStorages \cap (Elems(w.due) \cup Settled')
         /\ w.id \in MetricsRoutings =>
              w.naming \subseteq MetricsStorages \cap (Elems(w.due) \cup Settled')
  BY DEF EditSound
<1>4. w.before \subseteq Settled' /\ \A q \in w.before : owner'[q] = w.of
  BY DEF EditSound
<1>5. w.do = "create" => \A q \in w.before \cap stored' : rank'[q] < w.order
  BY DEF EditSound
<1> QED
  BY <1>1, <1>2, <1>3, <1>4, <1>5 DEF EditSound

\* What a request may be to begin with.
Beginning(do, id, of, naming, due) ==
    /\ do \in {"create", "rank", "update", "delete", "reorder"}
    /\ id \in Suite!Records /\ of \in Suite!Records \cup {None}
    /\ naming \in (SUBSET Suite!Records) \cup {None} /\ due \in Seq(Suite!Records)
    /\ do \in {"create", "rank"} =>
         id \notin assigned /\ naming # None /\ (id \in Suite!OfProjects => of \in Projects)
    /\ do = "update" /\ id \in Routings => of \in Projects /\ id \in Elems(due)
    /\ do \in {"create", "rank", "update"} /\ naming # None =>
         /\ id \in Routings => naming \subseteq Targets \cap Elems(due)
         /\ id \in LogRoutings => naming \subseteq LogStorages \cap Elems(due)
         /\ id \in MetricsRoutings => naming \subseteq MetricsStorages \cap Elems(due)

\* A request begins: it knows the records that it will look up.
LEMMA SuiteBegins ==
  ASSUME Suite!BoundsOK, SuiteInv, NEW e \in Requests, NEW do, NEW id, NEW of, NEW naming, NEW due,
         Suite!NewID(id) \/ UNCHANGED assigned, Beginning(do, id, of, naming, due),
         Suite!Begin(e, do, id, of, naming, due)
  PROVE  SuiteInv'
<1> DEFINE before == IF do = "rank" THEN {r \in Routings \cap stored : owner[r] = of} ELSE {}
<1> PICK w : w = [do |-> do, id |-> id, of |-> of, naming |-> naming,
                 due |-> due, order |-> 0, before |-> before]
  OBVIOUS
<1>1. /\ editing' = [editing EXCEPT ![e] = w] /\ id \in assigned'
      /\ UNCHANGED <<stored, removed, owner, names, rank, earlier>>
      /\ assigned \subseteq assigned' /\ assigned' \subseteq assigned \cup {id}
  BY DEF Suite!Begin, Suite!NewID
<1>2. before \subseteq Routings \cap stored /\ \A q \in before : owner[q] = of
  OBVIOUS
<1>3. do = "create" => before = {}
  OBVIOUS
<1> HIDE DEF before
<1>4. w \in Suite!Edit
  BY <1>2, MaxNat DEF Beginning, Suite!Edit
<1>5. /\ w.do = do /\ w.id = id /\ w.of = of /\ w.naming = naming /\ w.due = due
      /\ w.before = before
  OBVIOUS
<1>6. Suite!TypeOK /\ Settled \subseteq assigned /\ Settled' = Settled
  BY <1>1 DEF SuiteInv, SuiteTables, Settled
<1>7. SuiteTables'
  <2>1. Suite!TypeOK'
    BY <1>1, <1>4, <1>6 DEF Suite!TypeOK, Beginning
  <2> QED
    BY <1>1, <1>6, <2>1 DEF SuiteInv, SuiteTables
<1>8. EditSound(w)'
  <2>1. do \in {"create", "rank"} => id \in assigned' \ Settled'
    BY <1>1, <1>6 DEF Beginning
  <2>2. Making(w) = (do \in {"create", "rank"})
    BY <1>5 DEF Making
  <2>3. before \subseteq Settled' /\ \A q \in before : owner'[q] = of
    BY <1>1, <1>2 DEF Settled
  <2>4. do = "update" /\ id \in Routings => of \in Projects /\ id \in Elems(due)
    BY DEF Beginning
  <2>5. do \in {"create", "rank", "update"} /\ naming # None =>
         /\ id \in Routings => naming \subseteq Targets \cap Elems(due)
         /\ id \in LogRoutings => naming \subseteq LogStorages \cap Elems(due)
         /\ id \in MetricsRoutings => naming \subseteq MetricsStorages \cap Elems(due)
    BY DEF Beginning
  <2> QED
    BY <1>3, <1>5, <2>1, <2>2, <2>3, <2>4, <2>5 DEF EditSound, Beginning
<1>9. \A f \in Requests : f # e => editing'[f] = editing[f]
  BY <1>1, <1>6 DEF Suite!TypeOK
<1>10. editing'[e] = w
  BY <1>1, <1>6 DEF Suite!TypeOK
<1>11. ASSUME NEW f \in Requests, editing'[f] # None PROVE EditSound(editing[f])'
  <2>1. CASE f = e
    BY <1>8, <1>10, <2>1
  <2>2. CASE f # e
    <3>. PICK v : v = editing[f]
      OBVIOUS
    <3>1. v \in Suite!Edit /\ EditSound(v) /\ editing'[f] = v
      BY <1>6, <1>9, <1>11, <2>2 DEF Suite!TypeOK, SuiteInv, SuiteEdits
    <3>2. Making(v) => v.id \notin Settled
      BY <3>1 DEF EditSound
    <3>3. EditSound(v)'
      BY <1>1, <1>6, <3>1, <3>2, EditKept
    <3> QED
      BY <3>1, <3>3
  <2> QED
    BY <2>1, <2>2
<1>12. ASSUME NEW f \in Requests, f # e, editing[f] # None, Making(editing[f]), Making(w)
       PROVE  editing[f].id # id
  BY <1>5, <1>12 DEF SuiteInv, SuiteEdits, EditSound, Beginning, Making
<1> QED
  BY <1>5, <1>7, <1>9, <1>10, <1>11, <1>12 DEF SuiteInv, SuiteEdits

\* A step that takes one request on, and changes the tables in a way the others
\* bear.
LEMMA SuiteGoes ==
  ASSUME Suite!BoundsOK, SuiteInv, NEW e \in Requests, SuiteTables',
         editing'[e] # None => EditSound(editing[e])',
         editing'[e] # None /\ Making(editing'[e]) =>
            Making(editing[e]) /\ editing[e] # None /\ editing'[e].id = editing[e].id,
         \A f \in Requests \ {e} : editing'[f] = editing[f],
         assigned \subseteq assigned', Settled \subseteq Settled',
         \A x \in Settled' \ Settled : x \notin assigned
            \/ (editing[e] # None /\ Making(editing[e]) /\ x = editing[e].id),
         \A x \in Settled : owner'[x] = owner[x],
         \A q \in Settled \cap stored' : q \in stored /\ (q \in Routings => rank'[q] = rank[q])
  PROVE  SuiteInv'
<1>1. ASSUME NEW f \in Requests, editing'[f] # None PROVE EditSound(editing[f])'
  <2>1. CASE f # e
    <3>. PICK v : v = editing[f]
      OBVIOUS
    <3>1. v \in Suite!Edit /\ EditSound(v) /\ editing'[f] = v /\ v # None
      BY <1>1, <2>1 DEF Suite!TypeOK, SuiteInv, SuiteTables, SuiteEdits
    <3>2. Making(v) => v.id \in assigned \ Settled
      BY <3>1 DEF EditSound
    <3>3. Making(v) /\ editing[e] # None /\ Making(editing[e]) => v.id # editing[e].id
      BY <2>1, <3>1 DEF SuiteInv, SuiteEdits
    <3>4. Making(v) => v.id \notin Settled'
      BY <3>2, <3>3
    <3>5. v.before \subseteq Settled /\ v.before \subseteq Routings
      BY <3>1 DEF EditSound, Suite!Edit
    <3>6. EditSound(v)'
      BY <3>1, <3>4, <3>5, EditKept
    <3> QED
      BY <3>1, <3>6
  <2> QED
    BY <1>1, <2>1
<1>2. ASSUME NEW f \in Requests, NEW g \in Requests, f # g,
             editing'[f] # None, editing'[g] # None, Making(editing'[f]), Making(editing'[g])
      PROVE  editing'[f].id # editing'[g].id
  <2>1. \A h \in {f, g} : editing[h] # None /\ Making(editing[h]) /\ editing'[h].id = editing[h].id
    BY <1>2
  <2> QED
    BY <1>2, <2>1 DEF SuiteInv, SuiteEdits
<1> QED
  BY <1>1, <1>2 DEF SuiteInv, SuiteEdits

\* One that no request is concerned with.
LEMMA SuiteStays ==
  ASSUME SuiteInv, SuiteTables', editing' = editing,
         assigned \subseteq assigned', Settled \subseteq Settled',
         \A x \in Settled' \ Settled : x \notin assigned,
         \A x \in Settled : owner'[x] = owner[x],
         \A q \in Settled \cap stored' : q \in stored /\ (q \in Routings => rank'[q] = rank[q])
  PROVE  SuiteInv'
<1>1. ASSUME NEW f \in Requests, editing'[f] # None PROVE EditSound(editing[f])'
  <2>. PICK v : v = editing[f]
    OBVIOUS
  <2>1. v \in Suite!Edit /\ EditSound(v) /\ editing'[f] = v
    BY <1>1 DEF Suite!TypeOK, SuiteInv, SuiteTables, SuiteEdits
  <2>2. Making(v) => v.id \notin Settled'
    BY <2>1 DEF EditSound
  <2>3. v.before \subseteq Settled /\ v.before \subseteq Routings
    BY <2>1 DEF EditSound, Suite!Edit
  <2>4. EditSound(v)'
    BY <2>1, <2>2, <2>3, EditKept
  <2> QED
    BY <2>1, <2>4
<1> QED
  BY <1>1 DEF SuiteInv, SuiteEdits

\* A record is stored.
LEMMA SuiteSets ==
  ASSUME Suite!BoundsOK, SuiteInv, NEW id, Suite!SetRoot(id)
  PROVE  SuiteInv'
<1>1. /\ id \in Suite!Roots /\ id \notin assigned /\ assigned' = assigned \cup {id}
      /\ stored' = stored \cup {id}
      /\ UNCHANGED <<removed, owner, names, rank, earlier, editing>>
  BY DEF Suite!SetRoot, Suite!NewID
<1>2. /\ id \in Suite!Records /\ id \notin Routings \cup LogRoutings \cup MetricsRoutings \cup Suite!OfProjects
      /\ id \notin Settled
  BY <1>1 DEF Suite!BoundsOK, Suite!Records, SuiteInv, SuiteTables
<1>3. Settled' = Settled \cup {id}
  BY <1>1 DEF Settled
<1>4. SuiteTables'
  <2>1. Suite!TypeOK'
    BY <1>1, <1>2 DEF SuiteInv, SuiteTables, Suite!TypeOK
  <2>2. stored' \cap removed' = {} /\ Settled' \subseteq assigned'
    BY <1>1, <1>2, <1>3 DEF SuiteInv, SuiteTables, Settled
  <2>3. \A r \in Routings \cup LogRoutings \cup MetricsRoutings : r \in stored' <=> r \in stored
    BY <1>1, <1>2
  <2>4. Settled \subseteq Settled'
    BY <1>3
  <2>5. \A r \in Routings \cap stored' : \A t \in names'[r] : t \in Settled' /\ owner'[t] = owner'[r]
    BY <1>1, <2>3, <2>4 DEF SuiteInv, SuiteTables
  <2> QED
    BY <1>1, <1>2, <1>3, <2>1, <2>2, <2>3, <2>4, <2>5 DEF SuiteInv, SuiteTables
<1> QED
  BY <1>1, <1>2, <1>3, <1>4, SuiteStays

\* A record is removed.
LEMMA SuiteRemoves ==
  ASSUME Suite!BoundsOK, SuiteInv, NEW id \in Suite!Records, Suite!Remove(id), UNCHANGED <<assigned, owner>>,
         editing' \in [Requests -> Suite!Edit \cup {None}]
  PROVE  /\ SuiteTables' /\ Settled' = Settled
         /\ \A q \in Settled \cap stored' : q \in stored /\ (q \in Routings => rank'[q] = rank[q])
<1>1. /\ stored' = stored \ {id} /\ removed' = removed \cup ({id} \cap stored)
      /\ names' = [names EXCEPT ![id] = {}]
      /\ rank' = [r \in Routings |-> IF r = id THEN 0 ELSE rank[r]]
      /\ earlier' = [r \in Routings |-> IF r = id THEN {} ELSE earlier[r] \ {id}]
  BY DEF Suite!Remove
<1>2. Suite!TypeOK /\ Settled' = Settled /\ Suite!Max \in Nat
  BY <1>1, MaxNat DEF SuiteInv, SuiteTables, Settled
<1>3. Suite!TypeOK'
  BY <1>1, <1>2 DEF Suite!TypeOK
<1>4. stored' \cap removed' = {} /\ Settled' \subseteq assigned'
  BY <1>1, <1>2 DEF SuiteInv, SuiteTables
<1>5. \A r \in Suite!Records : r \in stored' => r \in stored /\ r # id /\ names'[r] = names[r]
  BY <1>1, <1>2 DEF Suite!TypeOK
<1>6. \A r \in Routings : r # id => rank'[r] = rank[r] /\ earlier'[r] = earlier[r] \ {id}
  BY <1>1
<1>7. Routings \cup LogRoutings \cup MetricsRoutings \subseteq Suite!Records
  BY DEF Suite!Records, Suite!OfProjects
<1>8. \A r \in Routings : earlier'[r] \subseteq stored'
  BY <1>1 DEF SuiteInv, SuiteTables
<1>9. ASSUME NEW r \in Routings \cap stored', NEW q \in earlier'[r] PROVE rank'[q] < rank'[r]
  <2>1. q \in earlier[r] /\ q # id /\ r # id /\ r \in stored /\ q \in Routings
    BY <1>1, <1>2 DEF Suite!TypeOK
  <2> QED
    BY <1>6, <2>1 DEF SuiteInv, SuiteTables
<1>10. /\ \A r \in Routings \cap stored' : \A t \in names'[r] : t \in Settled' /\ owner'[t] = owner'[r]
       /\ \A r \in LogRoutings \cap stored' : names'[r] \subseteq LogStorages \cap Settled'
       /\ \A r \in MetricsRoutings \cap stored' : names'[r] \subseteq MetricsStorages \cap Settled'
  BY <1>2, <1>5, <1>7 DEF SuiteInv, SuiteTables
<1>11. \A x \in Suite!OfProjects \cap Settled' : owner'[x] \in Projects
  BY <1>2 DEF SuiteInv, SuiteTables
<1>12. SuiteTables'
  BY <1>3, <1>4, <1>8, <1>9, <1>10, <1>11 DEF SuiteTables
<1> QED
  BY <1>1, <1>2, <1>6, <1>12

\* A record is deleted at once, or after it was found.
LEMMA SuiteDeletesNow ==
  ASSUME Suite!BoundsOK, SuiteInv, NEW id \in Suite!Records, Suite!DeleteNow(id)
  PROVE  SuiteInv'
<1>1. Suite!Remove(id) /\ UNCHANGED <<assigned, owner, editing>>
  BY DEF Suite!DeleteNow
<1>2. editing' \in [Requests -> Suite!Edit \cup {None}]
  BY <1>1 DEF SuiteInv, SuiteTables, Suite!TypeOK
<1> QED
  BY <1>1, <1>2, SuiteRemoves, SuiteStays

\* Who is answered has nothing in hand.
LEMMA Answered ==
  ASSUME SuiteInv, NEW e \in Requests, Suite!Answer(e)
  PROVE  /\ editing' \in [Requests -> Suite!Edit \cup {None}] /\ editing'[e] = None
         /\ \A f \in Requests \ {e} : editing'[f] = editing[f]
  BY DEF SuiteInv, SuiteTables, Suite!TypeOK, Suite!Answer

LEMMA SuiteDeletesFound ==
  ASSUME Suite!BoundsOK, SuiteInv, NEW e \in Requests, Suite!DeleteFound(e)
  PROVE  SuiteInv'
<1>1. Suite!Remove(editing[e].id) /\ UNCHANGED <<assigned, owner>> /\ Suite!Answer(e) /\ editing[e] # None
  BY DEF Suite!DeleteFound, Suite!Ready
<1>2. editing[e].id \in Suite!Records
  BY <1>1 DEF SuiteInv, SuiteTables, Suite!TypeOK, Suite!Edit
<1> QED
  BY <1>1, <1>2, Answered, SuiteRemoves, SuiteGoes

\* A request finds the next of the records it looks up, and keeps it.
LEMMA SuiteFinds ==
  ASSUME Suite!BoundsOK, SuiteInv, NEW e \in Requests, Suite!Find(e)
  PROVE  SuiteInv'
<1>. PICK w : w = editing[e]
  OBVIOUS
<1>1. /\ w # None /\ w \in Suite!Edit /\ EditSound(w) /\ w.due # <<>>
      /\ UNCHANGED <<stored, assigned, removed, owner, names, rank, earlier>>
      /\ editing' = [editing EXCEPT ![e] =
            IF Suite!IsThere(Head(w.due), w.of) THEN [w EXCEPT !.due = Tail(@)] ELSE None]
  BY DEF Suite!Find, SuiteInv, SuiteEdits, SuiteTables, Suite!TypeOK
<1>. PICK v : v = [w EXCEPT !.due = Tail(@)]
  OBVIOUS
<1>2. w.due \in Seq(Suite!Records)
  BY <1>1 DEF Suite!Edit
<1>3. /\ Head(w.due) \in Suite!Records /\ Tail(w.due) \in Seq(Suite!Records)
      /\ Elems(w.due) = {Head(w.due)} \cup Elems(Tail(w.due))
  BY <1>1, <1>2, ElemsHeadTail
<1>4. /\ v \in Suite!Edit /\ v.due = Tail(w.due) /\ v.do = w.do /\ v.id = w.id /\ v.of = w.of
      /\ v.naming = w.naming /\ v.order = w.order /\ v.before = w.before
  BY <1>1, <1>3 DEF Suite!Edit
<1>5. Suite!TypeOK /\ Settled' = Settled
  BY <1>1 DEF SuiteInv, SuiteTables, Settled
<1>6. editing'[e] \in {v, None} /\ \A f \in Requests \ {e} : editing'[f] = editing[f]
  BY <1>1, <1>5 DEF Suite!TypeOK
<1>7. Suite!TypeOK'
  BY <1>1, <1>4, <1>5 DEF Suite!TypeOK
<1>8. SuiteTables'
  BY <1>1, <1>5, <1>7 DEF SuiteInv, SuiteTables
<1>9. ASSUME editing'[e] # None PROVE editing'[e] = v /\ EditSound(v)'
  <2>1. Suite!IsThere(Head(w.due), w.of) /\ editing'[e] = v
    BY <1>1, <1>5, <1>9 DEF Suite!TypeOK
  <2>2. Head(w.due) \in Settled /\ owner[Head(w.due)] \in {None, w.of}
    BY <2>1 DEF Suite!IsThere, Settled
  <2>3. Head(w.due) \in Suite!OfProjects => owner[Head(w.due)] = w.of
    <3>1. \A p \in Projects : p \in Suite!Records
      BY DEF Suite!Records, Suite!Roots
    <3> QED
      BY <2>2, <3>1 DEF SuiteInv, SuiteTables, Suite!BoundsOK
  <2>4. Routings \cup Targets \subseteq Suite!OfProjects
    BY DEF Suite!OfProjects
  <2>5. Elems(w.due) \subseteq Elems(v.due) \cup {Head(w.due)}
    BY <1>3, <1>4
  <2>6. v.do = "update" /\ v.id \in Routings =>
         /\ v.of \in Projects
         /\ v.id \in Elems(v.due) \/ (v.id \in Settled' /\ owner'[v.id] = v.of)
    BY <1>1, <1>4, <1>5, <2>2, <2>3, <2>4, <2>5 DEF EditSound
  <2>7. v.do \in {"create", "rank", "update"} /\ v.naming # None =>
         /\ v.id \in Routings =>
              /\ v.naming \subseteq Targets
              /\ \A t \in v.naming : t \in Elems(v.due) \/ (t \in Settled' /\ owner'[t] = v.of)
         /\ v.id \in LogRoutings =>
              v.naming \subseteq LogStorages \cap (Elems(v.due) \cup Settled')
         /\ v.id \in MetricsRoutings =>
              v.naming \subseteq MetricsStorages \cap (Elems(v.due) \cup Settled')
    BY <1>1, <1>4, <1>5, <2>2, <2>3, <2>4, <2>5 DEF EditSound
  <2>8. Making(v) = Making(w)
    BY <1>4 DEF Making
  <2>9. EditSound(v)'
    BY <1>1, <1>4, <1>5, <2>6, <2>7, <2>8 DEF EditSound
  <2> QED
    BY <2>1, <2>9
<1>10. editing'[e] # None /\ Making(editing'[e]) =>
            Making(editing[e]) /\ editing[e] # None /\ editing'[e].id = editing[e].id
  BY <1>1, <1>4, <1>9 DEF Making
<1>11. editing'[e] # None => EditSound(editing[e])'
  BY <1>9
<1> QED
  BY <1>1, <1>5, <1>6, <1>8, <1>10, <1>11, SuiteGoes

\* A new routing is given its order, beyond those there are.
LEMMA SuiteReadsOrder ==
  ASSUME Suite!BoundsOK, SuiteInv, NEW e \in Requests, Suite!ReadOrder(e)
  PROVE  SuiteInv'
<1>. PICK w : w = editing[e]
  OBVIOUS
<1>. PICK n : n = Suite!NextOrder(w.of)
  OBVIOUS
<1>1. /\ w # None /\ w \in Suite!Edit /\ EditSound(w) /\ w.do = "rank" /\ n <= Suite!Max
      /\ UNCHANGED <<stored, assigned, removed, owner, names, rank, earlier>>
      /\ editing' = [editing EXCEPT ![e].do = "create", ![e].order = n]
  BY DEF Suite!ReadOrder, Suite!Ready, SuiteInv, SuiteEdits, SuiteTables, Suite!TypeOK
<1>. PICK v : v = [w EXCEPT !.do = "create", !.order = n]
  OBVIOUS
<1>2. Suite!TypeOK /\ Settled' = Settled /\ stored \subseteq Settled
  BY <1>1 DEF SuiteInv, SuiteTables, Settled
<1>3. n \in 0 .. Suite!Max /\ \A r \in Suite!InProject(w.of) : rank[r] < n
  BY <1>1, <1>2, NextOrderIs, MaxNat
<1>4. /\ v \in Suite!Edit /\ v.due = w.due /\ v.do = "create" /\ v.id = w.id /\ v.of = w.of
      /\ v.naming = w.naming /\ v.order = n /\ v.before = w.before
  BY <1>1, <1>3 DEF Suite!Edit
<1>5. editing'[e] = v /\ \A f \in Requests \ {e} : editing'[f] = editing[f]
  BY <1>1, <1>2 DEF Suite!TypeOK
<1>6. Suite!TypeOK'
  <2>1. editing' \in [Requests -> Suite!Edit \cup {None}]
    BY <1>1, <1>2, <1>4, <1>5 DEF Suite!TypeOK
  <2> QED
    BY <1>1, <1>2, <2>1 DEF Suite!TypeOK
<1>7. SuiteTables'
  BY <1>1, <1>2, <1>6 DEF SuiteInv, SuiteTables
<1>8. EditSound(v)'
  <2>1. w.before \subseteq Routings
    BY <1>1 DEF Suite!Edit
  <2>2. \A q \in v.before \cap stored : rank[q] < n
    BY <1>1, <1>3, <1>4, <2>1 DEF EditSound, Suite!InProject
  <2> QED
    BY <1>1, <1>2, <1>4, <2>2 DEF EditSound, Making
<1>9. editing'[e] # None => EditSound(editing[e])'
  BY <1>5, <1>8
<1>10. Making(w) /\ Making(v) /\ v.id = w.id
  BY <1>1, <1>4 DEF Making
<1> QED
  BY <1>1, <1>2, <1>5, <1>7, <1>9, <1>10, SuiteGoes

\* A new record is stored, after its order was drawn: those of its time may have
\* the same, and none that was there before.
LEMMA SuiteStores ==
  ASSUME Suite!BoundsOK, SuiteInv, NEW e \in Requests, Suite!SetNew(e)
  PROVE  SuiteInv'
<1>. PICK w : w = editing[e]
  OBVIOUS
<1>. PICK id : id = w.id
  OBVIOUS
<1>1. /\ w # None /\ w \in Suite!Edit /\ EditSound(w) /\ w.do = "create" /\ w.due = <<>>
      /\ stored' = stored \cup {id} /\ UNCHANGED <<assigned, removed>>
      /\ owner' = [owner EXCEPT ![id] = w.of]
      /\ names' = [names EXCEPT ![id] = w.naming]
      /\ rank' = IF id \in Routings THEN [rank EXCEPT ![id] = w.order] ELSE rank
      /\ earlier' = IF id \in Routings THEN [earlier EXCEPT ![id] = w.before \cap stored]
                     ELSE earlier
      /\ Suite!Answer(e)
  BY DEF Suite!SetNew, Suite!Ready, SuiteInv, SuiteEdits, SuiteTables, Suite!TypeOK
<1>2. /\ Making(w) /\ id \in assigned \ Settled /\ w.naming # None
      /\ id \in Suite!OfProjects => w.of \in Projects
  BY <1>1 DEF EditSound, Making
<1>3. /\ Suite!TypeOK /\ id \in Suite!Records /\ w.naming \in SUBSET Suite!Records /\ w.of \in Suite!Records \cup {None}
      /\ w.order \in 0 .. Suite!Max /\ w.before \in SUBSET Routings
  BY <1>1, <1>2 DEF SuiteInv, SuiteTables, Suite!Edit
<1>4. /\ editing' \in [Requests -> Suite!Edit \cup {None}] /\ editing'[e] = None
      /\ \A f \in Requests \ {e} : editing'[f] = editing[f]
  BY <1>1, Answered
<1>5. Settled' = Settled \cup {id} /\ id \notin stored /\ stored \subseteq Settled
  BY <1>1, <1>2 DEF Settled
<1>6. /\ \A x \in Suite!Records : x # id => owner'[x] = owner[x] /\ names'[x] = names[x]
      /\ owner'[id] = w.of /\ names'[id] = w.naming
  BY <1>1, <1>3 DEF Suite!TypeOK
<1>7. /\ \A x \in Routings : x # id => rank'[x] = rank[x] /\ earlier'[x] = earlier[x]
      /\ id \in Routings => rank'[id] = w.order /\ earlier'[id] = w.before \cap stored
  BY <1>1, <1>3 DEF Suite!TypeOK
<1>8. Suite!TypeOK'
  <2>1. rank' \in [Routings -> 0 .. Suite!Max] /\ earlier' \in [Routings -> SUBSET Routings]
    BY <1>1, <1>3 DEF Suite!TypeOK
  <2>2. owner' \in [Suite!Records -> Suite!Records \cup {None}] /\ names' \in [Suite!Records -> SUBSET Suite!Records]
    BY <1>1, <1>3 DEF Suite!TypeOK
  <2>3. stored' \subseteq assigned' /\ assigned' \subseteq Suite!Records /\ removed' \subseteq Suite!Records
    BY <1>1, <1>2, <1>3 DEF Suite!TypeOK
  <2> QED
    BY <1>4, <2>1, <2>2, <2>3 DEF Suite!TypeOK
<1>9. Settled' \subseteq assigned' /\ stored' \cap removed' = {}
  BY <1>1, <1>2, <1>5 DEF SuiteInv, SuiteTables, Settled
<1>10. \A x \in Suite!OfProjects \cap Settled' : owner'[x] \in Projects
  <2>1. Suite!OfProjects \subseteq Suite!Records
    BY DEF Suite!Records
  <2> QED
    BY <1>2, <1>5, <1>6, <2>1 DEF SuiteInv, SuiteTables
<1>11. Settled \subseteq Suite!Records /\ Routings \cup LogRoutings \cup MetricsRoutings \subseteq Suite!Records
  BY <1>3 DEF Suite!TypeOK, SuiteInv, SuiteTables, Suite!Records, Suite!OfProjects
<1>12. ASSUME NEW r \in Routings \cap stored', NEW t \in names'[r]
       PROVE  t \in Settled' /\ owner'[t] = owner'[r]
  <2>1. CASE r = id
    <3>1. t \in Settled /\ owner[t] = w.of
      BY <1>1, <1>2, <1>6, <1>12, <2>1, ElemsEmpty DEF EditSound
    <3> QED
      BY <1>2, <1>5, <1>6, <1>11, <2>1, <3>1
  <2>2. CASE r # id
    <3>1. r \in stored /\ t \in names[r]
      BY <1>1, <1>6, <1>11, <1>12, <2>2
    <3>2. t \in Settled /\ owner[t] = owner[r]
      BY <1>12, <3>1 DEF SuiteInv, SuiteTables
    <3> QED
      BY <1>2, <1>5, <1>6, <1>11, <2>2, <3>1, <3>2
  <2> QED
    BY <2>1, <2>2
<1>13. ASSUME NEW r \in LogRoutings \cap stored'
       PROVE  names'[r] \subseteq LogStorages \cap Settled'
  BY <1>1, <1>2, <1>5, <1>6, <1>11, <1>13, ElemsEmpty DEF EditSound, SuiteInv, SuiteTables
<1>14. ASSUME NEW r \in MetricsRoutings \cap stored'
       PROVE  names'[r] \subseteq MetricsStorages \cap Settled'
  BY <1>1, <1>2, <1>5, <1>6, <1>11, <1>14, ElemsEmpty DEF EditSound, SuiteInv, SuiteTables
<1>15. \A r \in Routings : earlier'[r] \subseteq stored'
  BY <1>1, <1>7 DEF SuiteInv, SuiteTables
<1>16. ASSUME NEW r \in Routings \cap stored', NEW q \in earlier'[r] PROVE rank'[q] < rank'[r]
  <2>1. CASE r = id
    <3>1. q \in w.before \cap stored /\ q # id /\ q \in Routings
      BY <1>3, <1>5, <1>7, <1>16, <2>1
    <3>2. rank[q] < w.order
      BY <1>1, <3>1 DEF EditSound
    <3> QED
      BY <1>7, <1>16, <2>1, <3>1, <3>2
  <2>2. CASE r # id
    <3>1. q \in earlier[r] /\ q \in stored /\ q \in Routings /\ r \in stored
      BY <1>1, <1>3, <1>7, <1>16, <2>2 DEF SuiteInv, SuiteTables, Suite!TypeOK
    <3>2. q # id /\ rank[q] < rank[r]
      BY <1>5, <1>16, <3>1 DEF SuiteInv, SuiteTables
    <3> QED
      BY <1>7, <1>16, <2>2, <3>1, <3>2
  <2> QED
    BY <2>1, <2>2
<1>17. SuiteTables'
  BY <1>8, <1>9, <1>10, <1>12, <1>13, <1>14, <1>15, <1>16 DEF SuiteTables
<1>18. \A x \in Settled : owner'[x] = owner[x]
  BY <1>2, <1>6, <1>11
<1>19. \A q \in Settled \cap stored' : q \in stored /\ (q \in Routings => rank'[q] = rank[q])
  BY <1>1, <1>2, <1>7
<1>20. \A x \in Settled' \ Settled : editing[e] # None /\ Making(editing[e]) /\ x = editing[e].id
  BY <1>1, <1>2, <1>5
<1> QED
  BY <1>1, <1>4, <1>5, <1>17, <1>18, <1>19, <1>20, SuiteGoes

\* A record that was found is changed where it is, stored or not.
LEMMA SuiteChanges ==
  ASSUME Suite!BoundsOK, SuiteInv, NEW e \in Requests, Suite!ChangeInPlace(e)
  PROVE  SuiteInv'
<1>. PICK w : w = editing[e]
  OBVIOUS
<1>. PICK id : id = w.id
  OBVIOUS
<1>1. /\ w # None /\ w \in Suite!Edit /\ EditSound(w) /\ w.do = "update" /\ w.due = <<>>
      /\ names' = IF id \in stored /\ w.naming # None
                  THEN [names EXCEPT ![id] = w.naming] ELSE names
      /\ Suite!Answer(e)
      /\ UNCHANGED <<stored, assigned, removed, owner, rank, earlier>>
  BY DEF Suite!ChangeInPlace, Suite!Ready, SuiteInv, SuiteEdits, SuiteTables, Suite!TypeOK
<1>2. /\ editing' \in [Requests -> Suite!Edit \cup {None}] /\ editing'[e] = None
      /\ \A f \in Requests \ {e} : editing'[f] = editing[f]
  BY <1>1, Answered
<1>3. Suite!TypeOK /\ id \in Suite!Records /\ w.naming \in (SUBSET Suite!Records) \cup {None} /\ Settled' = Settled
  BY <1>1 DEF SuiteInv, SuiteTables, Suite!Edit, Settled
<1>4. names' \in [Suite!Records -> SUBSET Suite!Records]
  BY <1>1, <1>3 DEF Suite!TypeOK
<1>5. \A x \in Suite!Records : names'[x] = names[x] \/ (x = id /\ id \in stored /\ w.naming # None
                                                        /\ names'[x] = w.naming)
  BY <1>1, <1>3 DEF Suite!TypeOK
<1>6. Routings \cup LogRoutings \cup MetricsRoutings \subseteq Suite!Records
  BY DEF Suite!Records, Suite!OfProjects
<1>7. Suite!TypeOK'
  BY <1>1, <1>2, <1>3, <1>4 DEF Suite!TypeOK
<1>8. ASSUME NEW r \in Routings \cap stored', NEW t \in names'[r]
      PROVE  t \in Settled' /\ owner'[t] = owner'[r]
  <2>1. r \in stored /\ r \in Suite!Records
    BY <1>1, <1>6
  <2>2. CASE names'[r] = names[r]
    BY <1>1, <1>3, <1>8, <2>1, <2>2 DEF SuiteInv, SuiteTables
  <2>3. CASE r = id /\ w.naming # None /\ names'[r] = w.naming
    <3>1. t \in Settled /\ owner[t] = w.of /\ owner[r] = w.of
      BY <1>1, <1>8, <2>3, ElemsEmpty DEF EditSound
    <3> QED
      BY <1>1, <1>3, <3>1
  <2> QED
    BY <1>5, <2>1, <2>2, <2>3
<1>9. ASSUME NEW r \in LogRoutings \cap stored'
      PROVE  names'[r] \subseteq LogStorages \cap Settled'
  BY <1>1, <1>3, <1>5, <1>6, <1>9, ElemsEmpty DEF EditSound, SuiteInv, SuiteTables
<1>10. ASSUME NEW r \in MetricsRoutings \cap stored'
       PROVE  names'[r] \subseteq MetricsStorages \cap Settled'
  BY <1>1, <1>3, <1>5, <1>6, <1>10, ElemsEmpty DEF EditSound, SuiteInv, SuiteTables
<1>11. SuiteTables'
  BY <1>1, <1>3, <1>7, <1>8, <1>9, <1>10 DEF SuiteInv, SuiteTables
<1> QED
  BY <1>1, <1>2, <1>3, <1>11, SuiteGoes

\* A routing that is reordered leaves those that others follow.
LEMMA SuiteReorders ==
  ASSUME Suite!BoundsOK, SuiteInv, NEW e \in Requests, Suite!SetOrder(e)
  PROVE  SuiteInv'
<1>. PICK id : id = editing[e].id
  OBVIOUS
<1>1. PICK n \in 1 .. Suite!Max : rank' = IF id \in stored THEN [rank EXCEPT ![id] = n] ELSE rank
  BY DEF Suite!SetOrder
<1>2. /\ earlier' = [r \in Routings |-> IF r = id THEN {} ELSE earlier[r] \ {id}]
      /\ editing' = [x \in Requests |->
                        IF x = e \/ editing[x] = None THEN None
                        ELSE [editing[x] EXCEPT !.before = @ \ {id}]]
      /\ UNCHANGED <<stored, assigned, removed, owner, names>>
  BY DEF Suite!SetOrder
<1>3. Suite!TypeOK /\ Suite!Max \in Nat /\ Settled' = Settled
  BY <1>2, MaxNat DEF SuiteInv, SuiteTables, Settled
<1>4. n \in 0 .. Suite!Max
  BY <1>3
<1>5. rank' \in [Routings -> 0 .. Suite!Max] /\ \A r \in Routings : r # id => rank'[r] = rank[r]
  BY <1>1, <1>3, <1>4 DEF Suite!TypeOK
<1>6. ASSUME NEW f \in Requests, editing'[f] # None
      PROVE  /\ editing[f] # None /\ editing'[f] \in Suite!Edit /\ EditSound(editing[f])'
             /\ Making(editing'[f]) = Making(editing[f]) /\ editing'[f].id = editing[f].id
  <2>. PICK w : w = editing[f]
    OBVIOUS
  <2>. PICK v : v = [w EXCEPT !.before = @ \ {id}]
    OBVIOUS
  <2>1. w # None /\ w \in Suite!Edit /\ EditSound(w) /\ editing'[f] = v
    BY <1>2, <1>3, <1>6 DEF Suite!TypeOK, SuiteInv, SuiteEdits
  <2>2. /\ v \in Suite!Edit /\ v.due = w.due /\ v.do = w.do /\ v.id = w.id /\ v.of = w.of
        /\ v.naming = w.naming /\ v.order = w.order /\ v.before = w.before \ {id}
    BY <2>1 DEF Suite!Edit
  <2>3. \A q \in v.before : q \in Routings /\ q \in w.before /\ rank'[q] = rank[q]
    BY <1>5, <2>1, <2>2 DEF Suite!Edit
  <2>4. Making(v) = Making(w)
    BY <2>2 DEF Making
  <2>5. EditSound(v)'
    BY <1>2, <1>3, <2>1, <2>2, <2>3, <2>4 DEF EditSound
  <2> QED
    BY <2>1, <2>2, <2>4, <2>5
<1>7. editing' \in [Requests -> Suite!Edit \cup {None}]
  BY <1>2, <1>6
<1>8. Suite!TypeOK'
  <2>1. earlier' \in [Routings -> SUBSET Routings]
    BY <1>2, <1>3 DEF Suite!TypeOK
  <2> QED
    BY <1>2, <1>3, <1>5, <1>7, <2>1 DEF Suite!TypeOK
<1>9. \A r \in Routings : earlier'[r] \subseteq stored'
  BY <1>2 DEF SuiteInv, SuiteTables
<1>10. ASSUME NEW r \in Routings \cap stored', NEW q \in earlier'[r] PROVE rank'[q] < rank'[r]
  <2>1. q \in earlier[r] /\ q # id /\ r # id /\ r \in stored /\ q \in Routings
    BY <1>2, <1>3 DEF Suite!TypeOK
  <2> QED
    BY <1>5, <2>1 DEF SuiteInv, SuiteTables
<1>11. SuiteTables'
  BY <1>2, <1>3, <1>8, <1>9, <1>10 DEF SuiteInv, SuiteTables
<1>12. SuiteEdits'
  BY <1>6 DEF SuiteEdits, SuiteInv
<1> QED
  BY <1>11, <1>12 DEF SuiteInv

\* Slices of one, two and three records, as the handlers look them up.
LEMMA Two == ASSUME NEW x \in Suite!Records, NEW y \in Suite!Records
             PROVE <<x, y>> \in Seq(Suite!Records) /\ Elems(<<x, y>>) = {x, y}
                   /\ <<x>> \in Seq(Suite!Records) /\ Elems(<<x>>) = {x}
                   /\ <<x, y>> \o <<>> = <<x, y>>
<1>1. <<x, y>> \in Seq(Suite!Records) /\ <<x, y>> \o <<>> = <<x, y>> /\ <<x>> \in Seq(Suite!Records)
  OBVIOUS
<1>2. Elems(<<x, y>>) = {x, y}
  <2>1. Len(<<x, y>>) = 2 /\ 1 .. 2 = {1, 2} /\ <<x, y>>[1] = x /\ <<x, y>>[2] = y
    OBVIOUS
  <2> QED
    BY <2>1 DEF Elems
<1>3. Elems(<<x>>) = {x}
  <2>1. Len(<<x>>) = 1 /\ 1 .. 1 = {1} /\ <<x>>[1] = x
    OBVIOUS
  <2> QED
    BY <2>1 DEF Elems
<1> QED
  BY <1>1, <1>2, <1>3

LEMMA Three == ASSUME NEW x \in Suite!Records, NEW y \in Suite!Records, NEW z \in Suite!Records
             PROVE <<x, y, z>> \in Seq(Suite!Records) /\ Elems(<<x, y, z>>) = {x, y, z}
                   /\ <<x, y>> \o <<z>> = <<x, y, z>>
<1>1. <<x, y, z>> \in Seq(Suite!Records)
  OBVIOUS
<1>3. <<x, y>> \o <<z>> = <<x, y, z>>
  <2> DEFINE c == <<x, y>> \o <<z>>
  <2>1. Len(c) = 3 /\ c[1] = x /\ c[2] = y /\ c[3] = z /\ c \in Seq(Suite!Records)
    OBVIOUS
  <2> HIDE DEF c
  <2>2. c = <<x, y, z>>
    BY <2>1
  <2> QED
    BY <2>2 DEF c
<1>2. Len(<<x, y, z>>) = 3 /\ 1 .. 3 = {1, 2, 3} /\ <<x, y, z>>[1] = x /\ <<x, y, z>>[2] = y
      /\ <<x, y, z>>[3] = z
  OBVIOUS
<1> QED
  BY <1>1, <1>2, <1>3 DEF Elems

\* What the handlers begin with.
LEMMA SuiteAsksKeys ==
  ASSUME Suite!BoundsOK, SuiteInv, NEW e \in Requests,
         Suite!LogKeyOps(e) \/ Suite!MetricsKeyOps(e) \/ Suite!TraceKeyOps(e) \/ Suite!KeyOps(e)
  PROVE  SuiteInv'
<1> USE DEF Suite!BoundsOK
<1>1. StorageKeys \cup LogStorages \cup MetricsStorages \cup TraceStorages \subseteq Suite!Records
  BY DEF Suite!Records, Suite!Roots
<1>2. \A k \in StorageKeys : k \notin Suite!OfProjects \cup Routings \cup LogRoutings \cup MetricsRoutings
  BY DEF Suite!OfProjects
<1>3. ASSUME NEW k \in StorageKeys, NEW s \in LogStorages \cup MetricsStorages \cup TraceStorages,
             Suite!CreateKey(e, k, s)
      PROVE  SuiteInv'
  <2>1. Beginning("create", k, s, {}, <<s>>)
    BY <1>1, <1>2, <1>3, Two DEF Beginning, Suite!CreateKey, Suite!NewID
  <2> QED
    BY <1>3, <2>1, SuiteBegins DEF Suite!CreateKey
<1>4. ASSUME NEW k \in StorageKeys, Suite!UpdateKey(e, k) \/ Suite!DeleteKey(e, k) PROVE SuiteInv'
  <2>1. owner[k] \in Suite!Records \cup {None}
    BY <1>1 DEF SuiteInv, SuiteTables, Suite!TypeOK
  <2>2. Beginning("update", k, owner[k], None, <<k>>) /\ Beginning("delete", k, owner[k], {}, <<k>>)
    BY <1>1, <1>2, <2>1, Two DEF Beginning
  <2> QED
    BY <1>4, <2>2, SuiteBegins DEF Suite!UpdateKey, Suite!DeleteKey
<1> QED
  BY <1>3, <1>4 DEF Suite!LogKeyOps, Suite!MetricsKeyOps, Suite!TraceKeyOps, Suite!KeyOps

LEMMA SuiteAsksRules ==
  ASSUME Suite!BoundsOK, SuiteInv, NEW e \in Requests,
         Suite!AlertRuleOps(e) \/ Suite!LogMeasureRuleOps(e) \/ Suite!TargetOps(e)
  PROVE  SuiteInv'
<1> DEFINE Kinds == AlertRules \cup LogMeasureRules \cup Targets
<1>1. /\ Kinds \subseteq Suite!Records /\ Projects \subseteq Suite!Records
      /\ LogStorages \cup MetricsStorages \subseteq Suite!Records
  BY DEF Suite!Records, Suite!Roots, Suite!OfProjects
<1>2. \A id \in Kinds : id \notin Routings \cup LogRoutings \cup MetricsRoutings
  BY DEF Suite!BoundsOK, Suite!OfProjects
<1> HIDE DEF Kinds
<1>3. ASSUME NEW id \in Kinds, NEW p \in Projects, NEW naming \in SUBSET Suite!Records,
             Suite!UpdateIn(e, id, p, naming, <<>>) \/ Suite!DeleteIn(e, id, p)
      PROVE  SuiteInv'
  <2>1. Beginning("update", id, p, naming, <<p, id>>) /\ Beginning("delete", id, p, {}, <<p, id>>)
    BY <1>1, <1>2, Two DEF Beginning
  <2>2. <<p, id>> \o <<>> = <<p, id>>
    BY <1>1, Two
  <2> QED
    BY <1>3, <2>1, <2>2, SuiteBegins DEF Suite!UpdateIn, Suite!DeleteIn
<1>4. ASSUME NEW id \in Kinds, NEW p \in Projects, NEW naming \in SUBSET Suite!Records,
             NEW due \in Seq(Suite!Records), Suite!NewID(id), Suite!Begin(e, "create", id, p, naming, due)
      PROVE  SuiteInv'
  <2>1. Beginning("create", id, p, naming, due)
    BY <1>1, <1>2, <1>4 DEF Beginning, Suite!BoundsOK, Suite!NewID
  <2> QED
    BY <1>4, <2>1, SuiteBegins
<1>5. CASE Suite!AlertRuleOps(e)
  <2>1. PICK id \in AlertRules, p \in Projects :
        \/ Suite!NewID(id) /\ Suite!Begin(e, "create", id, p, {}, <<p>>)
        \/ Suite!UpdateIn(e, id, p, {}, <<>>) \/ Suite!DeleteIn(e, id, p)
    BY <1>5 DEF Suite!AlertRuleOps
  <2>2. id \in Kinds /\ <<p>> \in Seq(Suite!Records) /\ {} \in SUBSET Suite!Records
    BY <1>1 DEF Kinds
  <2> QED
    BY <1>3, <1>4, <2>1, <2>2
<1>6. CASE Suite!TargetOps(e)
  <2>1. PICK id \in Targets, p \in Projects :
        \/ Suite!NewID(id) /\ Suite!Begin(e, "create", id, p, {}, <<p>>)
        \/ Suite!UpdateIn(e, id, p, {}, <<>>) \/ Suite!DeleteIn(e, id, p)
    BY <1>6 DEF Suite!TargetOps
  <2>2. id \in Kinds /\ <<p>> \in Seq(Suite!Records) /\ {} \in SUBSET Suite!Records
    BY <1>1 DEF Kinds
  <2> QED
    BY <1>3, <1>4, <2>1, <2>2
<1>7. CASE Suite!LogMeasureRuleOps(e)
  <2>1. PICK id \in LogMeasureRules, p \in Projects, ls \in LogStorages, ms \in MetricsStorages :
        \/ Suite!NewID(id) /\ Suite!Begin(e, "create", id, p, {ls, ms}, <<p, ls, ms>>)
        \/ Suite!UpdateIn(e, id, p, {ls, ms}, <<>>)
    BY <1>7 DEF Suite!LogMeasureRuleOps
  <2>2. id \in Kinds /\ <<p, ls, ms>> \in Seq(Suite!Records) /\ {ls, ms} \in SUBSET Suite!Records
    BY <1>1 DEF Kinds
  <2> QED
    BY <1>3, <1>4, <2>1, <2>2
<1> QED
  BY <1>5, <1>6, <1>7

LEMMA SuiteAsksRoutings ==
  ASSUME Suite!BoundsOK, SuiteInv, NEW e \in Requests, Suite!RoutingOps(e) \/ Suite!ReorderOps(e)
  PROVE  SuiteInv'
<1>1. Routings \cup Projects \cup Targets \subseteq Suite!Records
  BY DEF Suite!Records, Suite!Roots, Suite!OfProjects
<1>2. \A id \in Routings : id \notin LogRoutings \cup MetricsRoutings
  BY DEF Suite!BoundsOK, Suite!OfProjects
<1>3. ASSUME NEW id \in Routings, NEW p \in Projects, NEW t \in Targets,
             Suite!NewID(id), Suite!Begin(e, "rank", id, p, {t}, <<p, t>>)
      PROVE  SuiteInv'
  <2>1. Beginning("rank", id, p, {t}, <<p, t>>)
    <3>1. <<p, t>> \in Seq(Suite!Records) /\ Elems(<<p, t>>) = {p, t}
      BY <1>1, Two
    <3>2. {t} \in SUBSET Suite!Records /\ {t} # None /\ id \notin assigned /\ {t} \subseteq {p, t}
      BY <1>1, <1>3 DEF Suite!BoundsOK, Suite!NewID
    <3> QED
      BY <1>1, <1>2, <3>1, <3>2 DEF Beginning
  <2> QED
    BY <1>3, <2>1, SuiteBegins
<1>4. ASSUME NEW id \in Routings, NEW p \in Projects, NEW t \in Targets,
             Suite!UpdateIn(e, id, p, {t}, <<t>>)
      PROVE  SuiteInv'
  <2>1. Beginning("update", id, p, {t}, <<p, id, t>>) /\ <<p, id>> \o <<t>> = <<p, id, t>>
    BY <1>1, <1>2, Three DEF Beginning
  <2> QED
    BY <1>4, <2>1, SuiteBegins DEF Suite!UpdateIn
<1>5. ASSUME NEW id \in Routings, NEW p \in Projects,
             Suite!UpdateIn(e, id, p, None, <<>>) \/ Suite!DeleteIn(e, id, p) \/ Suite!Reorder(e, id, p)
      PROVE  SuiteInv'
  <2>1. /\ Beginning("update", id, p, None, <<p, id>>) /\ <<p, id>> \o <<>> = <<p, id>>
        /\ Beginning("delete", id, p, {}, <<p, id>>) /\ Beginning("reorder", id, p, {}, <<p, id>>)
    BY <1>1, <1>2, Two DEF Beginning
  <2> QED
    BY <1>5, <2>1, SuiteBegins DEF Suite!UpdateIn, Suite!DeleteIn, Suite!Reorder
<1>6. Suite!SetOrder(e) => SuiteInv'
  BY SuiteReorders
<1> QED
  BY <1>3, <1>4, <1>5, <1>6 DEF Suite!RoutingOps, Suite!ReorderOps

LEMMA SuiteAsksStorages ==
  ASSUME Suite!BoundsOK, SuiteInv, NEW e \in Requests, Suite!LogRoutingOps(e) \/ Suite!MetricsRoutingOps(e)
  PROVE  SuiteInv'
<1>1. LogRoutings \cup MetricsRoutings \cup LogStorages \cup MetricsStorages \subseteq Suite!Records
  BY DEF Suite!Records, Suite!Roots, Suite!OfProjects
<1>2. \A id \in LogRoutings \cup MetricsRoutings : id \notin Suite!OfProjects \cup Routings
  BY DEF Suite!BoundsOK, Suite!OfProjects
<1>3. ASSUME NEW id \in LogRoutings \cup MetricsRoutings,
             NEW s \in LogStorages \cup MetricsStorages,
             id \in LogRoutings => s \in LogStorages, id \in MetricsRoutings => s \in MetricsStorages,
             Suite!StorageRoutingOps(e, id, s)
      PROVE  SuiteInv'
  <2>1. CASE Suite!NewID(id) /\ Suite!Begin(e, "create", id, None, {s}, <<s>>)
    <3>1. Beginning("create", id, None, {s}, <<s>>)
      <4>1. <<s>> \in Seq(Suite!Records) /\ Elems(<<s>>) = {s}
        BY <1>1, Two
      <4>2. {s} \in SUBSET Suite!Records /\ {s} # None
        BY <1>1 DEF Suite!BoundsOK
      <4>3. id \in Suite!Records /\ id \notin Suite!OfProjects /\ id \notin Routings
        BY <1>1, <1>2
      <4>4. id \notin assigned
        BY <2>1 DEF Suite!NewID
      <4> QED
        BY <1>3, <4>1, <4>2, <4>3, <4>4 DEF Beginning
    <3> QED
      BY <2>1, <3>1, SuiteBegins
  <2>2. CASE UNCHANGED assigned /\ Suite!Begin(e, "update", id, None, {s}, <<id, s>>)
    <3>1. Beginning("update", id, None, {s}, <<id, s>>)
      <4>1. <<id, s>> \in Seq(Suite!Records) /\ Elems(<<id, s>>) = {id, s}
        BY <1>1, Two
      <4>2. {s} \in SUBSET Suite!Records /\ {s} # None /\ {s} \subseteq {id, s}
        BY <1>1 DEF Suite!BoundsOK
      <4> QED
        BY <1>1, <1>2, <1>3, <4>1, <4>2 DEF Beginning
    <3> QED
      BY <2>2, <3>1, SuiteBegins
  <2>3. CASE UNCHANGED assigned /\ Suite!Begin(e, "update", id, None, None, <<id>>)
    <3>1. Beginning("update", id, None, None, <<id>>)
      BY <1>1, <1>2, <1>3, Two DEF Beginning, Suite!BoundsOK
    <3> QED
      BY <2>3, <3>1, SuiteBegins
  <2> QED
    BY <1>3, <2>1, <2>2, <2>3 DEF Suite!StorageRoutingOps
<1> QED
  BY <1>3 DEF Suite!LogRoutingOps, Suite!MetricsRoutingOps, Suite!BoundsOK

LEMMA SuiteSteps == ASSUME Suite!BoundsOK, SuiteInv, Suite!Next PROVE SuiteInv'
<1>1. LogMeasureRules \cup LogRoutings \cup MetricsRoutings \cup Suite!Roots \subseteq Suite!Records
  BY DEF Suite!Records, Suite!OfProjects
<1>2. CASE Suite!RootOps
  <2>1. ASSUME NEW e \in Requests, NEW id \in Suite!Roots, UNCHANGED assigned,
               Suite!Begin(e, "update", id, None, {}, <<id>>)
        PROVE  SuiteInv'
    <3>1. Beginning("update", id, None, {}, <<id>>)
      BY <1>1, Two DEF Beginning, Suite!BoundsOK
    <3> QED
      BY <2>1, <3>1, SuiteBegins
  <2> QED
    BY <1>1, <1>2, <2>1, SuiteSets, SuiteDeletesNow DEF Suite!RootOps
<1>3. CASE Suite!DeleteLogMeasureRule \/ Suite!DeleteStorageRouting
  BY <1>1, <1>3, SuiteDeletesNow DEF Suite!DeleteLogMeasureRule, Suite!DeleteStorageRouting
<1>4. ASSUME NEW e \in Requests, Suite!Effects(e) PROVE SuiteInv'
  BY <1>4, SuiteFinds, SuiteReadsOrder, SuiteStores, SuiteChanges, SuiteDeletesFound
     DEF Suite!Effects
<1> QED
  BY <1>2, <1>3, <1>4, SuiteAsksKeys, SuiteAsksRules, SuiteAsksRoutings, SuiteAsksStorages
     DEF Suite!Next

LEMMA SuiteKeeps ==
  ASSUME SuiteInv
  PROVE  Suite!TypeOK /\ Suite!RoutingsNameTheirs /\ Suite!NewRoutingsComeLast /\ Suite!DeletedStaysDeleted
<1>1. Suite!RoutingsNameTheirs
  BY DEF SuiteInv, SuiteTables, Suite!RoutingsNameTheirs, Settled
<1> QED
  BY <1>1 DEF SuiteInv, SuiteTables, Suite!NewRoutingsComeLast, Suite!DeletedStaysDeleted

-----------------------------------------------------------------------------
(* Dedicated *)

LEMMA AppRunOrders == \A s, S : AppRun!Among(s, S) = Among(s, S)
  BY DEF AppRun!Among, Among

LEMMA AppRunCards ==
    /\ \A S : AppRun!Cardinality(S) = Cardinality(S)
    /\ \A S : AppRun!IsFiniteSet(S) = IsFiniteSet(S)
  BY DEF AppRun!Cardinality, Cardinality, AppRun!IsFiniteSet, IsFiniteSet

\* What a store's maps hold was made, and its orders name it, each once; the
\* numbers of an application's versions were given.
CloudInv ==
    /\ AppRun!Live(groups) \cup AppRun!Live(balancers) \cup AppRun!Live(nodes) \subseteq made
    /\ \A n \in Nodes : nodes[n] # None => groups[nodes[n]] # None
    /\ \A b \in Balancers : balancers[b] # None => groups[balancers[b]] # None
    /\ Once(workerNodeOrder) /\ Elems(workerNodeOrder) = AppRun!Live(nodes)
    /\ Once(lbOrder) /\ Elems(lbOrder) = AppRun!Live(balancers)

CatalogInv ==
    /\ AppRun!Live(apps) \subseteq made
    /\ Once(appOrder) /\ Elems(appOrder) = AppRun!Live(apps)
    /\ \A a \in Apps : versions[a] \subseteq 1 .. versionSeqs[a]
    /\ \A a \in Apps : apps[a] = None => versions[a] = {}
    /\ \A h \in Requests : hs[h] # None /\ hs[h].pc \notin {"count", "create"} => hs[h].app \in Apps

\* What a listing has not seen of what it has to comes after the cursor.
PageInv ==
    page # None =>
      /\ page.due \subseteq AppRun!Live(apps) /\ page.cursor \in made \cup {None}
      /\ \A i \in 1 .. Len(appOrder) :
           appOrder[i] \in page.due \ page.seen =>
             ~ page.done /\ AppRun!Start(appOrder, page.cursor) < i

AppRunInv == AppRun!TypeOK /\ CloudInv /\ CatalogInv /\ PageInv

LEMMA AppRunStarts == ASSUME AppRun!BoundsOK, AppRun!Init PROVE AppRunInv
<1> USE DEF AppRun!BoundsOK
<1>1. AppRun!TypeOK
  BY DEF AppRun!Init, AppRun!TypeOK, AppRun!Numbers
<1>2. AppRun!Live(groups) = {} /\ AppRun!Live(balancers) = {} /\ AppRun!Live(nodes) = {} /\ AppRun!Live(apps) = {}
  BY DEF AppRun!Init, AppRun!Live
<1>3. CloudInv
  BY <1>2, ElemsEmpty DEF AppRun!Init, CloudInv
<1>4. CatalogInv
  BY <1>2, ElemsEmpty DEF AppRun!Init, CatalogInv
<1>5. PageInv
  BY DEF AppRun!Init, PageInv
<1> QED
  BY <1>1, <1>3, <1>4, <1>5 DEF AppRunInv

\* A request that goes on, or is answered.
Moves(h) ==
    \/ AppRun!Done(h)
    \/ \E pc \in {"count", "create"} : AppRun!Goto(h, pc, None, 0)
    \/ \E pc \in {"read", "start", "stop", "delete"}, a \in Apps, v \in AppRun!Numbers : AppRun!Goto(h, pc, a, v)

Named(at) == \A h \in Requests : at[h] # None /\ at[h].pc \notin {"count", "create"} => at[h].app \in Apps

\* What it has in hand is of its type.
LEMMA Moved ==
  ASSUME AppRun!BoundsOK, AppRunInv, NEW h \in Requests, Moves(h)
  PROVE  /\ hs' \in [Requests -> [pc : {"count", "create", "read", "start", "stop", "delete"},
                            app : Apps \cup {None}, version : AppRun!Numbers] \cup {None}]
         /\ Named(hs')
<1> DEFINE T == [pc : {"count", "create", "read", "start", "stop", "delete"},
                 app : Apps \cup {None}, version : AppRun!Numbers] \cup {None}
<1>1. hs \in [Requests -> T] /\ Named(hs)
  BY DEF AppRunInv, AppRun!TypeOK, CatalogInv, Named
<1>2. ASSUME NEW x \in T, x # None /\ x.pc \notin {"count", "create"} => x.app \in Apps,
             hs' = [hs EXCEPT ![h] = x]
      PROVE  hs' \in [Requests -> T] /\ Named(hs')
  <2> HIDE DEF T
  <2> QED
    BY <1>1, <1>2 DEF Named
<1>3. CASE AppRun!Done(h)
  BY <1>2, <1>3 DEF AppRun!Done
<1>4. ASSUME NEW pc \in {"count", "create"}, AppRun!Goto(h, pc, None, 0)
      PROVE  hs' \in [Requests -> T] /\ Named(hs')
  <2>. PICK x : x = [pc |-> pc, app |-> None, version |-> 0]
    OBVIOUS
  <2>1. x \in T /\ x.pc = pc
    BY DEF AppRun!BoundsOK, AppRun!Numbers
  <2>2. hs' = [hs EXCEPT ![h] = x]
    BY <1>4 DEF AppRun!Goto
  <2> QED
    BY <1>2, <2>1, <2>2
<1>5. ASSUME NEW pc \in {"read", "start", "stop", "delete"}, NEW a \in Apps, NEW v \in AppRun!Numbers,
             AppRun!Goto(h, pc, a, v)
      PROVE  hs' \in [Requests -> T] /\ Named(hs')
  <2>. PICK x : x = [pc |-> pc, app |-> a, version |-> v]
    OBVIOUS
  <2>1. x \in T /\ x.app \in Apps
    OBVIOUS
  <2>2. hs' = [hs EXCEPT ![h] = x]
    BY <1>5 DEF AppRun!Goto
  <2> QED
    BY <1>2, <2>1, <2>2
<1> QED
  BY <1>3, <1>4, <1>5 DEF Moves

\* Nothing is done to the clusters' groups.
LEMMA CloudStays ==
  ASSUME CloudInv, UNCHANGED AppRun!cloud, made \subseteq made'
  PROVE  CloudInv'
  BY DEF CloudInv, AppRun!cloud, AppRun!Live

\* Parts of the store that a step leaves alone.
LEMMA CatalogStays ==
  ASSUME CatalogInv, UNCHANGED AppRun!catalog, Named(hs'), made \subseteq made'
  PROVE  CatalogInv'
  BY DEF CatalogInv, AppRun!catalog, AppRun!Live, Named

LEMMA PageStays ==
  ASSUME PageInv, UNCHANGED <<apps, appOrder, page>>, made \subseteq made'
  PROVE  PageInv'
  BY DEF PageInv, AppRun!Live

\* A request that is to start, stop or delete an application has one.
LEMMA NamedIs == ASSUME AppRunInv PROVE Named(hs)
  BY DEF AppRunInv, CatalogInv, Named

-----------------------------------------------------------------------------
(* The steps of Dedicated *)

\* Clusters.
LEMMA ClusterSteps ==
  ASSUME AppRun!BoundsOK, AppRunInv, NEW c \in Clusters, AppRun!CreateCluster(c) \/ AppRun!DeleteCluster(c)
  PROVE  AppRunInv'
<1>1. /\ UNCHANGED <<AppRun!catalog, AppRun!cloud, AppRun!run, hs, page>> /\ clusters' \subseteq Clusters
      /\ made \subseteq made'
  BY DEF AppRun!CreateCluster, AppRun!DeleteCluster, AppRun!Fresh, AppRunInv, AppRun!TypeOK
<1>2. AppRun!TypeOK'
  BY <1>1 DEF AppRunInv, AppRun!TypeOK, AppRun!catalog, AppRun!cloud, AppRun!run
<1> QED
  BY <1>1, <1>2, NamedIs, CloudStays, CatalogStays, PageStays DEF AppRunInv, AppRun!catalog

\* The worker nodes of a new group: none twice, and new.
LEMMA BatchIs ==
  ASSUME NEW W \in AppRun!Batches
  PROVE  W \in Seq(Nodes) /\ AppRun!Range(W) = Elems(W) /\ Once(W)
<1>1. PICK n \in 0 .. AppRun!Cardinality(Nodes) : W \in AppRun!Injection(1 .. n, Nodes)
  BY DEF AppRun!Batches
<1>2. n \in Nat /\ W \in [1 .. n -> Nodes] /\ AppRun!IsInjective(W)
  BY <1>1 DEF AppRun!Injection
<1>3. W \in Seq(Nodes) /\ Len(W) = n /\ DOMAIN W = 1 .. n
  BY <1>2
<1> QED
  BY <1>2, <1>3 DEF AppRun!Range, Elems, Once, AppRun!IsInjective

\* Groups, with the worker nodes and the load balancers that go with them.
LEMMA GroupMade ==
  ASSUME AppRun!BoundsOK, AppRunInv, NEW g \in Groups, NEW c \in Clusters, NEW W \in AppRun!Batches,
         AppRun!CreateAutoScalingGroup(g, c, W)
  PROVE  AppRunInv'
<1>1. /\ ({g} \cup Elems(W)) \cap made = {} /\ made' = made \cup ({g} \cup Elems(W))
      /\ groups' = [groups EXCEPT ![g] = c]
      /\ nodes' = [n \in Nodes |-> IF n \in Elems(W) THEN g ELSE nodes[n]]
      /\ workerNodeOrder' = workerNodeOrder \o W
      /\ UNCHANGED <<clusters, AppRun!catalog, balancers, lbOrder, AppRun!run, hs, page>>
  BY BatchIs DEF AppRun!CreateAutoScalingGroup, AppRun!Fresh
<1>2. W \in Seq(Nodes) /\ Once(W) /\ Elems(W) \subseteq Nodes
  BY BatchIs, ElemsType
<1>3. AppRun!TypeOK /\ CloudInv /\ c # None /\ g # None
  BY DEF AppRunInv, AppRun!BoundsOK
<1>4. /\ workerNodeOrder' \in Seq(Nodes)
      /\ Elems(workerNodeOrder') = Elems(workerNodeOrder) \cup Elems(W)
      /\ Once(workerNodeOrder')
  <2>1. Elems(workerNodeOrder) \cap Elems(W) = {}
    BY <1>1, <1>3 DEF CloudInv
  <2> QED
    BY <1>1, <1>2, <1>3, <2>1, ElemsConcat DEF AppRun!TypeOK, CloudInv
<1>5. /\ \A x \in Groups : x # g => groups'[x] = groups[x]
      /\ groups'[g] = c /\ groups' \in [Groups -> Clusters \cup {None}]
  BY <1>1, <1>3 DEF AppRun!TypeOK
<1>6. nodes' \in [Nodes -> Groups \cup {None}]
  BY <1>1, <1>3 DEF AppRun!TypeOK
<1>7. AppRun!TypeOK'
  BY <1>1, <1>3, <1>4, <1>5, <1>6 DEF AppRun!TypeOK, AppRun!catalog, AppRun!run
<1>8. AppRun!Live(nodes') = AppRun!Live(nodes) \cup Elems(W)
  BY <1>1, <1>2, <1>3 DEF AppRun!Live, AppRun!TypeOK
<1>9. AppRun!Live(groups') \subseteq AppRun!Live(groups) \cup {g}
  BY <1>3, <1>5 DEF AppRun!Live, AppRun!TypeOK
<1>10. CloudInv'
  <2>1. \A n \in Nodes : nodes'[n] # None => groups'[nodes'[n]] # None
    <3>1. SUFFICES ASSUME NEW n \in Nodes, nodes'[n] # None PROVE groups'[nodes'[n]] # None
      OBVIOUS
    <3>2. nodes'[n] = g \/ (nodes'[n] = nodes[n] /\ nodes[n] # None)
      BY <1>1, <3>1
    <3>3. nodes'[n] \in Groups
      BY <1>6, <3>1
    <3> QED
      BY <1>3, <1>5, <3>2, <3>3 DEF CloudInv
  <2>2. \A b \in Balancers : balancers'[b] # None => groups'[balancers'[b]] # None
    <3>1. SUFFICES ASSUME NEW b \in Balancers, balancers[b] # None
                   PROVE  balancers' = balancers /\ groups'[balancers[b]] # None
      BY <1>1
    <3>2. balancers[b] \in Groups
      BY <1>3, <3>1 DEF AppRun!TypeOK
    <3> QED
      BY <1>1, <1>3, <1>5, <3>1, <3>2 DEF CloudInv
  <2>3. AppRun!Live(groups') \cup AppRun!Live(balancers') \cup AppRun!Live(nodes') \subseteq made'
    BY <1>1, <1>3, <1>8, <1>9 DEF CloudInv
  <2> QED
    BY <1>1, <1>3, <1>4, <1>8, <2>1, <2>2, <2>3 DEF CloudInv
<1> QED
  BY <1>1, <1>7, <1>10, NamedIs, CatalogStays, PageStays DEF AppRunInv, AppRun!catalog

\* What is left of an order, in K alone.
LEMMA OrderLeft ==
  ASSUME NEW X, NEW ord \in Seq(X), Once(ord), NEW K
  PROVE  /\ AppRun!Among(ord, K) \in Seq(X) /\ Once(AppRun!Among(ord, K))
         /\ Elems(AppRun!Among(ord, K)) = Elems(ord) \cap K
         /\ Elems(ord) \subseteq X
  BY AppRunOrders, AmongSeq, AmongOnce, AmongElems, ElemsType

LEMMA GroupGone ==
  ASSUME AppRun!BoundsOK, AppRunInv, NEW g \in Groups, AppRun!DeleteAutoScalingGroup(g)
  PROVE  AppRunInv'
<1>1. /\ nodes' = [n \in Nodes |-> IF nodes[n] = g THEN None ELSE nodes[n]]
      /\ workerNodeOrder' = AppRun!Among(workerNodeOrder, Nodes \ AppRun!Belonging(nodes, g))
      /\ balancers' = [b \in Balancers |-> IF balancers[b] = g THEN None ELSE balancers[b]]
      /\ lbOrder' = AppRun!Among(lbOrder, Balancers \ AppRun!Belonging(balancers, g))
      /\ groups' = [groups EXCEPT ![g] = None]
      /\ UNCHANGED <<clusters, AppRun!catalog, made, AppRun!run, hs, page>>
  BY DEF AppRun!DeleteAutoScalingGroup
<1>2. AppRun!TypeOK /\ CloudInv /\ g # None
  BY DEF AppRunInv, AppRun!BoundsOK
<1>3. AppRun!Belonging(nodes, g) \subseteq Nodes /\ AppRun!Belonging(balancers, g) \subseteq Balancers
  BY <1>2 DEF AppRun!Belonging, AppRun!TypeOK
<1>4. /\ workerNodeOrder' \in Seq(Nodes) /\ Once(workerNodeOrder')
      /\ Elems(workerNodeOrder') = Elems(workerNodeOrder) \ AppRun!Belonging(nodes, g)
  <2>. PICK K : K = Nodes \ AppRun!Belonging(nodes, g)
    OBVIOUS
  <2>1. workerNodeOrder' = AppRun!Among(workerNodeOrder, K)
    BY <1>1
  <2>2. workerNodeOrder \in Seq(Nodes) /\ Once(workerNodeOrder)
    BY <1>2 DEF AppRun!TypeOK, CloudInv
  <2>3. /\ AppRun!Among(workerNodeOrder, K) \in Seq(Nodes) /\ Once(AppRun!Among(workerNodeOrder, K))
        /\ Elems(AppRun!Among(workerNodeOrder, K)) = Elems(workerNodeOrder) \cap K
        /\ Elems(workerNodeOrder) \subseteq Nodes
    BY <2>2, OrderLeft
  <2> QED
    BY <2>1, <2>3
<1>5. /\ lbOrder' \in Seq(Balancers) /\ Once(lbOrder')
      /\ Elems(lbOrder') = Elems(lbOrder) \ AppRun!Belonging(balancers, g)
  <2>. PICK K : K = Balancers \ AppRun!Belonging(balancers, g)
    OBVIOUS
  <2>1. lbOrder' = AppRun!Among(lbOrder, K)
    BY <1>1
  <2>2. lbOrder \in Seq(Balancers) /\ Once(lbOrder)
    BY <1>2 DEF AppRun!TypeOK, CloudInv
  <2>3. /\ AppRun!Among(lbOrder, K) \in Seq(Balancers) /\ Once(AppRun!Among(lbOrder, K))
        /\ Elems(AppRun!Among(lbOrder, K)) = Elems(lbOrder) \cap K
        /\ Elems(lbOrder) \subseteq Balancers
    BY <2>2, OrderLeft
  <2> QED
    BY <2>1, <2>3
<1>6. AppRun!Live(nodes') = AppRun!Live(nodes) \ AppRun!Belonging(nodes, g)
  BY <1>1, <1>2 DEF AppRun!Live, AppRun!Belonging, AppRun!TypeOK
<1>7. AppRun!Live(balancers') = AppRun!Live(balancers) \ AppRun!Belonging(balancers, g)
  BY <1>1, <1>2 DEF AppRun!Live, AppRun!Belonging, AppRun!TypeOK
<1>8. /\ groups' \in [Groups -> Clusters \cup {None}] /\ AppRun!Live(groups') \subseteq AppRun!Live(groups)
      /\ \A x \in Groups : x # g => groups'[x] = groups[x]
  BY <1>1, <1>2 DEF AppRun!TypeOK, AppRun!Live
<1>9. nodes' \in [Nodes -> Groups \cup {None}] /\ balancers' \in [Balancers -> Groups \cup {None}]
  BY <1>1, <1>2 DEF AppRun!TypeOK
<1>10. AppRun!TypeOK'
  BY <1>1, <1>2, <1>4, <1>5, <1>8, <1>9 DEF AppRun!TypeOK, AppRun!catalog, AppRun!run
<1>11. \A n \in Nodes : nodes'[n] # None =>
          nodes[n] # None /\ nodes[n] \in Groups /\ nodes[n] # g /\ nodes'[n] = nodes[n]
  BY <1>1, <1>2 DEF AppRun!TypeOK
<1>12. \A b \in Balancers : balancers'[b] # None =>
          balancers[b] # None /\ balancers[b] \in Groups /\ balancers[b] # g
            /\ balancers'[b] = balancers[b]
  BY <1>1, <1>2 DEF AppRun!TypeOK
<1>13. CloudInv'
  BY <1>1, <1>2, <1>4, <1>5, <1>6, <1>7, <1>8, <1>11, <1>12 DEF CloudInv
<1> QED
  BY <1>1, <1>10, <1>13, NamedIs, CatalogStays, PageStays DEF AppRunInv, AppRun!catalog

\* Load balancers.
LEMMA BalancerMade ==
  ASSUME AppRun!BoundsOK, AppRunInv, NEW b \in Balancers, NEW g \in Groups, AppRun!CreateLoadBalancer(b, g)
  PROVE  AppRunInv'
<1>1. /\ groups[g] # None /\ b \notin made /\ made' = made \cup {b}
      /\ balancers' = [balancers EXCEPT ![b] = g] /\ lbOrder' = Append(lbOrder, b)
      /\ UNCHANGED <<clusters, AppRun!catalog, groups, nodes, workerNodeOrder, AppRun!run, hs, page>>
  BY DEF AppRun!CreateLoadBalancer, AppRun!Fresh
<1>2. AppRun!TypeOK /\ CloudInv /\ g # None
  BY DEF AppRunInv, AppRun!BoundsOK
<1>3. b \notin Elems(lbOrder)
  BY <1>1, <1>2 DEF CloudInv
<1>4. /\ lbOrder' \in Seq(Balancers) /\ Once(lbOrder') /\ Elems(lbOrder') = Elems(lbOrder) \cup {b}
  BY <1>1, <1>2, <1>3, ElemsAppend DEF AppRun!TypeOK, CloudInv
<1>5. AppRun!Live(balancers') = AppRun!Live(balancers) \cup {b}
  BY <1>1, <1>2 DEF AppRun!Live, AppRun!TypeOK
<1>6. AppRun!TypeOK'
  BY <1>1, <1>2, <1>4 DEF AppRun!TypeOK, AppRun!catalog, AppRun!run
<1>7. \A x \in Balancers : balancers'[x] # None => groups'[balancers'[x]] # None
  BY <1>1, <1>2 DEF CloudInv, AppRun!TypeOK
<1>8. CloudInv'
  BY <1>1, <1>2, <1>4, <1>5, <1>7 DEF CloudInv, AppRun!Live
<1> QED
  BY <1>1, <1>6, <1>8, NamedIs, CatalogStays, PageStays DEF AppRunInv, AppRun!catalog

LEMMA BalancerGone ==
  ASSUME AppRun!BoundsOK, AppRunInv, NEW b \in Balancers, AppRun!DeleteLoadBalancer(b)
  PROVE  AppRunInv'
<1>1. /\ balancers' = [balancers EXCEPT ![b] = None] /\ lbOrder' = AppRun!Among(lbOrder, Balancers \ {b})
      /\ UNCHANGED <<clusters, AppRun!catalog, groups, nodes, workerNodeOrder, made, AppRun!run, hs, page>>
  BY DEF AppRun!DeleteLoadBalancer
<1>2. AppRun!TypeOK /\ CloudInv
  BY DEF AppRunInv
<1>3. /\ lbOrder' \in Seq(Balancers) /\ Once(lbOrder') /\ Elems(lbOrder') = Elems(lbOrder) \ {b}
  <2>. PICK K : K = Balancers \ {b}
    OBVIOUS
  <2>1. lbOrder' = AppRun!Among(lbOrder, K)
    BY <1>1
  <2>2. lbOrder \in Seq(Balancers) /\ Once(lbOrder)
    BY <1>2 DEF AppRun!TypeOK, CloudInv
  <2>3. /\ AppRun!Among(lbOrder, K) \in Seq(Balancers) /\ Once(AppRun!Among(lbOrder, K))
        /\ Elems(AppRun!Among(lbOrder, K)) = Elems(lbOrder) \cap K
        /\ Elems(lbOrder) \subseteq Balancers
    BY <2>2, OrderLeft
  <2> QED
    BY <2>1, <2>3
<1>4. AppRun!Live(balancers') = AppRun!Live(balancers) \ {b}
  BY <1>1, <1>2 DEF AppRun!Live, AppRun!TypeOK
<1>5. AppRun!TypeOK'
  BY <1>1, <1>2, <1>3 DEF AppRun!TypeOK, AppRun!catalog, AppRun!run
<1>6. \A x \in Balancers : balancers'[x] # None => groups'[balancers'[x]] # None
  BY <1>1, <1>2 DEF CloudInv, AppRun!TypeOK
<1>7. CloudInv'
  BY <1>1, <1>2, <1>3, <1>4, <1>6 DEF CloudInv, AppRun!Live
<1> QED
  BY <1>1, <1>5, <1>7, NamedIs, CatalogStays, PageStays DEF AppRunInv, AppRun!catalog

-----------------------------------------------------------------------------
\* A request, and nothing but it and Docker.
LEMMA RequestGoes ==
  ASSUME AppRun!BoundsOK, AppRunInv, UNCHANGED <<clusters, AppRun!catalog, AppRun!cloud, made, page>>,
         containers' \subseteq Apps,
         docker' \in [Apps -> [version : AppRun!Numbers, running : BOOLEAN] \cup {None}],
         hs' = hs \/ \E h \in Requests : Moves(h)
  PROVE  AppRunInv'
<1>1. /\ hs' \in [Requests -> [pc : {"count", "create", "read", "start", "stop", "delete"},
                            app : Apps \cup {None}, version : AppRun!Numbers] \cup {None}]
      /\ Named(hs')
  BY Moved, NamedIs DEF AppRunInv, AppRun!TypeOK
<1>2. AppRun!TypeOK'
  BY <1>1 DEF AppRunInv, AppRun!TypeOK, AppRun!catalog, AppRun!cloud, AppRun!run
<1> QED
  BY <1>1, <1>2, CloudStays, CatalogStays, PageStays DEF AppRunInv, AppRun!catalog

\* Versions.
LEMMA VersionMade ==
  ASSUME AppRun!BoundsOK, AppRunInv, NEW a \in Apps, AppRun!CreateVersion(a)
  PROVE  AppRunInv' /\ AppRun!StaysUnknown
<1>. PICK n : n = versionSeqs[a] + 1
  OBVIOUS
<1>1. /\ apps[a] # None /\ versionSeqs[a] < MaxVersions
      /\ versionSeqs' = [versionSeqs EXCEPT ![a] = n]
      /\ versions' = [versions EXCEPT ![a] = @ \cup {versionSeqs'[a]}]
      /\ UNCHANGED <<clusters, apps, appOrder, AppRun!cloud, made, AppRun!run, hs, page>>
  BY DEF AppRun!CreateVersion
<1>2. AppRun!TypeOK /\ CatalogInv /\ MaxVersions \in Nat /\ versionSeqs[a] \in AppRun!Numbers
  BY DEF AppRunInv, AppRun!BoundsOK, AppRun!TypeOK
<1>3. n \in AppRun!Numbers /\ n \in Nat \ {0} /\ versionSeqs[a] \in Nat /\ versionSeqs'[a] = n
  BY <1>1, <1>2 DEF AppRun!TypeOK, AppRun!Numbers
<1>4. /\ \A x \in Apps : x # a => versions'[x] = versions[x] /\ versionSeqs'[x] = versionSeqs[x]
      /\ versions'[a] = versions[a] \cup {n}
  BY <1>1, <1>2, <1>3 DEF AppRun!TypeOK
<1>5. versions' \in [Apps -> SUBSET AppRun!Numbers] /\ versionSeqs' \in [Apps -> AppRun!Numbers]
  BY <1>1, <1>2, <1>3 DEF AppRun!TypeOK
<1>6. AppRun!TypeOK'
  BY <1>1, <1>2, <1>5 DEF AppRun!TypeOK, AppRun!cloud, AppRun!run
<1>7. versions'[a] \subseteq 1 .. versionSeqs'[a]
  BY <1>2, <1>3, <1>4 DEF CatalogInv
<1>8. AppRun!Live(apps') = AppRun!Live(apps) /\ Named(hs)
  BY <1>1, NamedIs DEF AppRun!Live
<1>9. CatalogInv'
  BY <1>1, <1>2, <1>4, <1>7, <1>8 DEF CatalogInv, Named
<1>10. AppRun!StaysUnknown
  <2>1. SUFFICES ASSUME NEW x \in Apps, apps[x] \in 1 .. versionSeqs[x], apps[x] \notin versions[x]
                 PROVE  apps[x] \notin versions'[x]
    BY DEF AppRun!StaysUnknown
  <2> QED
    BY <1>3, <1>4, <2>1
<1> QED
  BY <1>1, <1>6, <1>9, <1>10, CloudStays, PageStays DEF AppRunInv

LEMMA VersionGone ==
  ASSUME AppRun!BoundsOK, AppRunInv, NEW a \in Apps, NEW v \in AppRun!Numbers, AppRun!DeleteVersion(a, v)
  PROVE  AppRunInv'
<1>1. /\ versions' = [versions EXCEPT ![a] = @ \ {v}]
      /\ UNCHANGED <<clusters, apps, appOrder, versionSeqs, AppRun!cloud, made, AppRun!run, hs, page>>
  BY DEF AppRun!DeleteVersion
<1>2. AppRun!TypeOK /\ CatalogInv
  BY DEF AppRunInv
<1>3. versions' \in [Apps -> SUBSET AppRun!Numbers] /\ \A x \in Apps : versions'[x] \subseteq versions[x]
  BY <1>1, <1>2 DEF AppRun!TypeOK
<1>4. AppRun!TypeOK'
  BY <1>1, <1>2, <1>3 DEF AppRun!TypeOK, AppRun!cloud, AppRun!run
<1>5. CatalogInv'
  <2>1. \A x \in Apps : versions'[x] \subseteq 1 .. versionSeqs'[x]
    BY <1>1, <1>2, <1>3 DEF CatalogInv
  <2>2. \A x \in Apps : apps'[x] = None => versions'[x] = {}
    BY <1>1, <1>2, <1>3 DEF CatalogInv
  <2> QED
    BY <1>1, <1>2, <2>1, <2>2 DEF CatalogInv, AppRun!Live
<1> QED
  BY <1>1, <1>4, <1>5, CloudStays, PageStays DEF AppRunInv

\* A version is activated, or none.
LEMMA Activated ==
  ASSUME AppRun!BoundsOK, AppRunInv, NEW h \in Requests, NEW a \in Apps, NEW v \in AppRun!Numbers,
         AppRun!UpdateApplication(h, a, v)
  PROVE  AppRunInv'
<1>1. /\ apps[a] # None /\ apps' = [apps EXCEPT ![a] = v]
      /\ IF v = 0 THEN AppRun!Goto(h, "stop", a, 0) ELSE AppRun!Goto(h, "read", a, v)
      /\ UNCHANGED <<clusters, appOrder, versions, versionSeqs, AppRun!cloud, made, AppRun!run, page>>
  BY DEF AppRun!UpdateApplication
<1>2. AppRun!TypeOK /\ CatalogInv /\ PageInv /\ v # None
  BY DEF AppRunInv, AppRun!BoundsOK
<1>3. Moves(h)
  BY <1>1 DEF Moves
<1>4. /\ hs' \in [Requests -> [pc : {"count", "create", "read", "start", "stop", "delete"},
                            app : Apps \cup {None}, version : AppRun!Numbers] \cup {None}]
      /\ Named(hs')
  BY <1>3, Moved
<1>5. apps' \in [Apps -> AppRun!Numbers \cup {None}] /\ \A x \in Apps : apps'[x] = None <=> apps[x] = None
  BY <1>1, <1>2 DEF AppRun!TypeOK
<1>6. AppRun!Live(apps') = AppRun!Live(apps)
  BY <1>2, <1>5 DEF AppRun!Live, AppRun!TypeOK
<1>7. AppRun!TypeOK'
  BY <1>1, <1>2, <1>4, <1>5 DEF AppRun!TypeOK, AppRun!cloud, AppRun!run
<1>8. CatalogInv'
  BY <1>1, <1>2, <1>4, <1>5, <1>6 DEF CatalogInv, Named
<1>9. PageInv'
  BY <1>1, <1>2, <1>6 DEF PageInv
<1> QED
  BY <1>1, <1>7, <1>8, <1>9, CloudStays DEF AppRunInv

-----------------------------------------------------------------------------
\* Where a page starts: behind the cursor, or at the front.
LEMMA StartIs ==
  ASSUME NEW X, NEW s \in Seq(X), Once(s), NEW c
  PROVE  /\ AppRun!Start(s, c) \in 0 .. Len(s)
         /\ c \notin Elems(s) => AppRun!Start(s, c) = 0
         /\ \A i \in 1 .. Len(s) : s[i] = c => AppRun!Start(s, c) = i
         /\ AppRun!Start(s, c) # 0 => s[AppRun!Start(s, c)] = c
<1>1. DOMAIN s = 1 .. Len(s) /\ Len(s) \in Nat
  OBVIOUS
<1>2. CASE \E i \in DOMAIN s : s[i] = c
  <2>. PICK n : n = CHOOSE i \in DOMAIN s : s[i] = c
    OBVIOUS
  <2>1. n \in DOMAIN s /\ s[n] = c /\ AppRun!Start(s, c) = n
    BY <1>2 DEF AppRun!Start
  <2> QED
    BY <1>1, <2>1 DEF Once, Elems
<1>3. CASE ~ \E i \in DOMAIN s : s[i] = c
  BY <1>1, <1>3 DEF AppRun!Start
<1> QED
  BY <1>2, <1>3

\* A new application is the last in the order: a listing that has not ended sees it,
\* or is not due to.
LEMMA AppMade ==
  ASSUME AppRun!BoundsOK, AppRunInv, NEW h \in Requests, NEW a \in Apps, AppRun!CreateApplication(h, a)
  PROVE  AppRunInv' /\ AppRun!StaysUnknown
<1>1. /\ a \notin made /\ made' = made \cup {a} /\ apps' = [apps EXCEPT ![a] = 0]
      /\ appOrder' = Append(appOrder, a) /\ versionSeqs' = [versionSeqs EXCEPT ![a] = 0]
      /\ AppRun!Done(h) /\ UNCHANGED <<clusters, versions, AppRun!cloud, AppRun!run, page>>
  BY DEF AppRun!CreateApplication, AppRun!Fresh
<1>2. AppRun!TypeOK /\ CatalogInv /\ PageInv /\ 0 \in AppRun!Numbers /\ 0 # None /\ Once(appOrder)
      /\ appOrder \in Seq(Apps)
  BY DEF AppRunInv, AppRun!BoundsOK, AppRun!Numbers, AppRun!TypeOK, CatalogInv
<1>3. /\ hs' \in [Requests -> [pc : {"count", "create", "read", "start", "stop", "delete"},
                            app : Apps \cup {None}, version : AppRun!Numbers] \cup {None}]
      /\ Named(hs')
  BY <1>1, Moved DEF Moves
<1>4. a \notin AppRun!Live(apps) /\ a \notin Elems(appOrder) /\ apps[a] = None /\ versions[a] = {}
  BY <1>1, <1>2 DEF CatalogInv, AppRun!Live, AppRun!TypeOK
<1>5. appOrder' \in Seq(Apps) /\ Once(appOrder') /\ Elems(appOrder') = Elems(appOrder) \cup {a}
  BY <1>1, <1>2, <1>4, ElemsAppend
<1>6. AppRun!Live(apps') = AppRun!Live(apps) \cup {a}
  BY <1>1, <1>2 DEF AppRun!Live, AppRun!TypeOK
<1>7. AppRun!TypeOK'
  BY <1>1, <1>2, <1>3, <1>5 DEF AppRun!TypeOK, AppRun!cloud, AppRun!run
<1>8. CatalogInv'
  <2>1. \A x \in Apps : versions'[x] \subseteq 1 .. versionSeqs'[x]
    BY <1>1, <1>2, <1>4 DEF CatalogInv, AppRun!TypeOK
  <2>2. \A x \in Apps : apps'[x] = None => versions'[x] = {}
    BY <1>1, <1>2, <1>4 DEF CatalogInv, AppRun!TypeOK
  <2> QED
    BY <1>1, <1>2, <1>3, <1>5, <1>6, <2>1, <2>2 DEF CatalogInv, Named
<1>9. PageInv'
  <2>1. SUFFICES ASSUME page # None
                 PROVE  /\ page.due \subseteq AppRun!Live(apps') /\ page.cursor \in made' \cup {None}
                        /\ \A i \in 1 .. Len(appOrder') :
                             appOrder'[i] \in page.due \ page.seen =>
                               ~ page.done /\ AppRun!Start(appOrder', page.cursor) < i
    BY <1>1 DEF PageInv
  <2>2. /\ page.due \subseteq AppRun!Live(apps) /\ page.cursor \in made \cup {None}
        /\ \A i \in 1 .. Len(appOrder) :
             appOrder[i] \in page.due \ page.seen =>
               ~ page.done /\ AppRun!Start(appOrder, page.cursor) < i
    BY <1>2, <2>1 DEF PageInv
  <2>3. page.cursor # a /\ a \notin page.due
    BY <1>1, <1>4, <2>2 DEF AppRun!BoundsOK
  <2>4. /\ Len(appOrder') = Len(appOrder) + 1 /\ Len(appOrder) \in Nat
        /\ appOrder'[Len(appOrder) + 1] = a
        /\ \A i \in 1 .. Len(appOrder) : appOrder'[i] = appOrder[i]
    BY <1>1, <1>2
  <2>5. AppRun!Start(appOrder', page.cursor) = AppRun!Start(appOrder, page.cursor)
    <3>1. CASE page.cursor \in Elems(appOrder)
      <4>1. PICK i \in 1 .. Len(appOrder) : appOrder[i] = page.cursor
        BY <3>1 DEF Elems
      <4>2. i \in 1 .. Len(appOrder') /\ appOrder'[i] = page.cursor
        BY <2>4, <4>1
      <4> QED
        BY <1>2, <1>5, <4>1, <4>2, StartIs
    <3>2. CASE page.cursor \notin Elems(appOrder)
      BY <1>2, <1>5, <2>3, <3>2, StartIs
    <3> QED
      BY <3>1, <3>2
  <2>6. ASSUME NEW i \in 1 .. Len(appOrder'), appOrder'[i] \in page.due \ page.seen
        PROVE  ~ page.done /\ AppRun!Start(appOrder', page.cursor) < i
    <3>1. i \in 1 .. Len(appOrder) \/ i = Len(appOrder) + 1
      BY <2>4
    <3>2. i \in 1 .. Len(appOrder) /\ appOrder[i] \in page.due \ page.seen
      BY <2>3, <2>4, <2>6, <3>1
    <3> QED
      BY <2>2, <2>5, <3>2
  <2> QED
    BY <1>1, <1>6, <2>2, <2>6
<1>10. AppRun!StaysUnknown
  BY <1>1 DEF AppRun!StaysUnknown
<1> QED
  BY <1>1, <1>7, <1>8, <1>9, <1>10, CloudStays DEF AppRunInv

\* Where a page starts when an application is gone: nothing before it was behind.
LEMMA StartLeft ==
  ASSUME NEW s \in Seq(Apps), Once(s), NEW K, NEW c, NEW j \in 1 .. Len(AppRun!Among(s, K))
  PROVE  \E i \in 1 .. Len(s) :
           /\ AppRun!Among(s, K)[j] = s[i]
           /\ AppRun!Start(s, c) < i => AppRun!Start(AppRun!Among(s, K), c) < j
<1> DEFINE t == AppRun!Among(s, K)
<1>1. t \in Seq(Apps) /\ Once(t)
  BY AppRunOrders, AmongSeq, AmongOnce
<1>2. PICK i \in 1 .. Len(s) : t[j] = s[i]
  BY AppRunOrders, AmongOnly
<1>3. \A k \in 1 .. Len(t) : k < j =>
          \E l, m \in 1 .. Len(s) : l < m /\ t[k] = s[l] /\ t[j] = s[m]
  BY AppRunOrders, AmongOrder
<1>4. \A k \in 1 .. Len(t) : j < k =>
          \E l, m \in 1 .. Len(s) : l < m /\ t[j] = s[l] /\ t[k] = s[m]
  BY AppRunOrders, AmongOrder
<1>5. j \in 1 .. Len(t)
  OBVIOUS
<1> HIDE DEF t
<1>. PICK n : n = AppRun!Start(t, c)
  OBVIOUS
<1>6. n \in 0 .. Len(t) /\ (n # 0 => t[n] = c)
  BY <1>1, StartIs
<1>7. ASSUME AppRun!Start(s, c) < i, ~ (n < j) PROVE FALSE
  <2>1. n \in 1 .. Len(t) /\ t[n] = c /\ (n = j \/ j < n)
    BY <1>1, <1>5, <1>6, <1>7
  <2>2. CASE n = j
    <3>1. AppRun!Start(s, c) = i
      BY <1>2, <2>1, <2>2, StartIs
    <3> QED
      BY <1>7, <3>1
  <2>3. CASE j < n
    <3>1. PICK l, m \in 1 .. Len(s) : l < m /\ t[j] = s[l] /\ t[n] = s[m]
      BY <1>4, <2>1, <2>3
    <3>2. l = i /\ AppRun!Start(s, c) = m
      BY <1>2, <2>1, <3>1, StartIs DEF Once
    <3> QED
      BY <1>7, <3>1, <3>2
  <2> QED
    BY <2>1, <2>2, <2>3
<1>8. AppRun!Start(s, c) < i => n < j
  BY <1>7
<1> QED
  BY <1>2, <1>8 DEF t

\* The one that the cursor names is gone: the listing starts anew from the front.
LEMMA AppGone ==
  ASSUME AppRun!BoundsOK, AppRunInv, NEW h \in Requests, AppRun!DeleteApplication(h)
  PROVE  AppRunInv' /\ AppRun!StaysUnknown
<1>. PICK a : a = hs[h].app
  OBVIOUS
<1>1. /\ hs[h] # None /\ hs[h].pc = "delete"
      /\ apps' = [apps EXCEPT ![a] = None]
      /\ versions' = [versions EXCEPT ![a] = {}]
      /\ versionSeqs' = [versionSeqs EXCEPT ![a] = 0]
      /\ appOrder' = AppRun!Among(appOrder, Apps \ {a})
      /\ page' = IF page = None THEN None ELSE [page EXCEPT !.due = @ \ {a}]
      /\ AppRun!Done(h) /\ UNCHANGED <<clusters, AppRun!cloud, made, AppRun!run>>
  BY DEF AppRun!DeleteApplication, AppRun!At
<1>2. AppRun!TypeOK /\ CatalogInv /\ PageInv /\ Once(appOrder) /\ appOrder \in Seq(Apps)
  BY DEF AppRunInv, AppRun!TypeOK, CatalogInv
<1>11. 0 \in AppRun!Numbers
  BY DEF AppRun!BoundsOK, AppRun!Numbers
<1>12. a \in Apps
  BY <1>1, <1>2 DEF CatalogInv
<1>3. /\ hs' \in [Requests -> [pc : {"count", "create", "read", "start", "stop", "delete"},
                            app : Apps \cup {None}, version : AppRun!Numbers] \cup {None}]
      /\ Named(hs')
  BY <1>1, Moved DEF Moves
<1>4. /\ appOrder' \in Seq(Apps) /\ Once(appOrder') /\ Elems(appOrder') = Elems(appOrder) \ {a}
  <2>. PICK K : K = Apps \ {a}
    OBVIOUS
  <2>1. appOrder' = AppRun!Among(appOrder, K)
    BY <1>1
  <2>2. /\ AppRun!Among(appOrder, K) \in Seq(Apps) /\ Once(AppRun!Among(appOrder, K))
        /\ Elems(AppRun!Among(appOrder, K)) = Elems(appOrder) \cap K
        /\ Elems(appOrder) \subseteq Apps
    BY <1>2, OrderLeft
  <2> QED
    BY <2>1, <2>2
<1>5. AppRun!Live(apps') = AppRun!Live(apps) \ {a}
  BY <1>1, <1>2, <1>11, <1>12 DEF AppRun!Live, AppRun!TypeOK
<1>6. page' \in AppRun!Listing \cup {None}
  BY <1>1, <1>2, <1>11, <1>12 DEF AppRun!TypeOK, AppRun!Listing
<1>7. AppRun!TypeOK'
  BY <1>1, <1>2, <1>3, <1>11, <1>12, <1>4, <1>6 DEF AppRun!TypeOK, AppRun!cloud, AppRun!run
<1>8. CatalogInv'
  <2>1. \A x \in Apps : versions'[x] \subseteq 1 .. versionSeqs'[x]
    BY <1>1, <1>2, <1>11, <1>12 DEF CatalogInv, AppRun!TypeOK
  <2>2. \A x \in Apps : apps'[x] = None => versions'[x] = {}
    BY <1>1, <1>2, <1>11, <1>12 DEF CatalogInv, AppRun!TypeOK
  <2> QED
    BY <1>1, <1>2, <1>3, <1>11, <1>12, <1>4, <1>5, <2>1, <2>2 DEF CatalogInv, Named
<1>9. PageInv'
  <2>1. CASE page = None
    BY <1>1, <2>1 DEF PageInv
  <2>2. CASE page # None
    <3>1. page \in AppRun!Listing
      BY <1>2, <2>2 DEF AppRun!TypeOK
    <3>2. /\ page'.due = page.due \ {a} /\ page'.seen = page.seen
          /\ page'.cursor = page.cursor /\ page'.done = page.done
      BY <1>1, <2>2, <3>1 DEF AppRun!Listing
    <3>3. ASSUME NEW j \in 1 .. Len(appOrder'), appOrder'[j] \in page'.due \ page'.seen
          PROVE  ~ page'.done /\ AppRun!Start(appOrder', page'.cursor) < j
      <4>1. PICK i \in 1 .. Len(appOrder) :
              /\ appOrder'[j] = appOrder[i]
              /\ AppRun!Start(appOrder, page.cursor) < i => AppRun!Start(appOrder', page.cursor) < j
        <5>. PICK K : K = Apps \ {a}
          OBVIOUS
        <5>1. appOrder' = AppRun!Among(appOrder, K)
          BY <1>1
        <5>2. \A k \in 1 .. Len(AppRun!Among(appOrder, K)) : \E i \in 1 .. Len(appOrder) :
              /\ AppRun!Among(appOrder, K)[k] = appOrder[i]
              /\ AppRun!Start(appOrder, page.cursor) < i => AppRun!Start(AppRun!Among(appOrder, K), page.cursor) < k
          BY <1>2, StartLeft
        <5> QED
          BY <5>1, <5>2
      <4>2. appOrder[i] \in page.due \ page.seen
        BY <3>2, <3>3, <4>1
      <4>3. ~ page.done /\ AppRun!Start(appOrder, page.cursor) < i
        BY <1>2, <2>2, <4>2 DEF PageInv
      <4> QED
        BY <3>2, <4>1, <4>3
    <3>4. page.due \subseteq AppRun!Live(apps) /\ page.cursor \in made \cup {None}
      BY <1>2, <2>2 DEF PageInv
    <3>5. page'.due \subseteq AppRun!Live(apps') /\ page'.cursor \in made' \cup {None}
      BY <1>1, <1>5, <3>2, <3>4
    <3> QED
      BY <3>3, <3>5 DEF PageInv
  <2> QED
    BY <2>1, <2>2
<1>10. AppRun!StaysUnknown
  BY <1>1, <1>2, <1>11, <1>12 DEF AppRun!StaysUnknown, AppRun!TypeOK
<1> QED
  BY <1>1, <1>7, <1>8, <1>9, <1>10, CloudStays DEF AppRunInv

\* A listing starts.
LEMMA ListingStarted ==
  ASSUME AppRun!BoundsOK, AppRunInv, AppRun!StartListing
  PROVE  AppRunInv'
<1>. PICK q : q = [due |-> AppRun!Live(apps), seen |-> {}, cursor |-> None, done |-> FALSE]
  OBVIOUS
<1>1. page' = q /\ UNCHANGED <<clusters, AppRun!catalog, AppRun!cloud, made, AppRun!run, hs>>
  BY DEF AppRun!StartListing
<1>2. AppRun!TypeOK /\ CatalogInv /\ appOrder \in Seq(Apps) /\ Once(appOrder)
  BY DEF AppRunInv, AppRun!TypeOK, CatalogInv
<1>3. AppRun!Live(apps) \subseteq Apps
  BY <1>2 DEF AppRun!Live, AppRun!TypeOK
<1>4. q \in AppRun!Listing /\ q.due = AppRun!Live(apps) /\ q.cursor = None /\ ~ q.done
  BY <1>3 DEF AppRun!Listing
<1>5. AppRun!TypeOK'
  BY <1>1, <1>2, <1>4 DEF AppRun!TypeOK, AppRun!catalog, AppRun!cloud, AppRun!run
<1>6. None \notin Elems(appOrder)
  BY <1>2, ElemsType DEF AppRun!BoundsOK
<1>7. AppRun!Start(appOrder, None) = 0
  BY <1>2, <1>6, StartIs
<1>8. appOrder' = appOrder /\ apps' = apps
  BY <1>1 DEF AppRun!catalog
<1>9. PageInv'
  BY <1>1, <1>4, <1>7, <1>8 DEF PageInv
<1> QED
  BY <1>1, <1>5, <1>9, NamedIs, CloudStays, CatalogStays DEF AppRunInv, AppRun!catalog

\* What is on a page, and the cursor to the next.
LEMMA PageIs ==
  ASSUME NEW m \in Nat, NEW n \in Nat
  PROVE  AppRun!Least(m, n) \in Nat /\ AppRun!Least(m, n) <= m /\ AppRun!Least(m, n) <= n
         /\ (AppRun!Least(m, n) = m \/ AppRun!Least(m, n) = n)
  BY DEF AppRun!Least

\* A page is seen.
LEMMA ListingGoes ==
  ASSUME AppRun!BoundsOK, AppRunInv, AppRun!ListApplications
  PROVE  AppRunInv'
<1>. PICK s : s = appOrder
  OBVIOUS
<1>. PICK c : c = page.cursor
  OBVIOUS
<1>. PICK end : end = AppRun!Start(s, c) + MaxItems
  OBVIOUS
<1>. PICK next : next = AppRun!NextCursor(s, c)
  OBVIOUS
<1>. PICK q : q = [page EXCEPT !.seen = @ \cup AppRun!Items(s, c), !.cursor = next, !.done = next = None]
  OBVIOUS
<1>1. page # None /\ ~ page.done /\ page' = q /\ UNCHANGED <<clusters, AppRun!catalog, AppRun!cloud, made, AppRun!run, hs>>
  BY DEF AppRun!ListApplications
<1>2. AppRun!TypeOK /\ CatalogInv /\ PageInv /\ s \in Seq(Apps) /\ Once(s) /\ page \in AppRun!Listing
  BY <1>1 DEF AppRunInv, AppRun!TypeOK, CatalogInv
<1>3. AppRun!Start(s, c) \in 0 .. Len(s) /\ Len(s) \in Nat /\ MaxItems \in Nat \ {0}
  BY <1>2, StartIs DEF AppRun!BoundsOK
<1>4. end \in Nat \ {0} /\ AppRun!Start(s, c) \in Nat
  BY <1>3
<1>5. next = IF end >= Len(s) THEN None ELSE s[end]
  BY DEF AppRun!NextCursor
<1>6. AppRun!Items(s, c) = {s[i] : i \in AppRun!Start(s, c) + 1 .. AppRun!Least(Len(s), end)}
  BY DEF AppRun!Items
<1>7. AppRun!Least(Len(s), end) \in Nat /\ AppRun!Least(Len(s), end) <= Len(s)
      /\ (AppRun!Least(Len(s), end) = Len(s) \/ AppRun!Least(Len(s), end) = end)
  BY <1>3, <1>4, PageIs
<1>. PICK l : l = AppRun!Least(Len(s), end)
  OBVIOUS
<1>8. AppRun!Items(s, c) \subseteq Apps
  <2>1. \A i \in AppRun!Start(s, c) + 1 .. l : i \in 1 .. Len(s)
    BY <1>3, <1>4, <1>7
  <2> QED
    BY <1>2, <1>6, <2>1
<1>9. CASE end >= Len(s)
  <2>1. next = None /\ l \in Nat
    BY <1>5, <1>7, <1>9
  <2>2. /\ q \in AppRun!Listing /\ q.due = page.due /\ q.seen = page.seen \cup AppRun!Items(s, c)
        /\ q.cursor = None
    BY <1>2, <1>8, <2>1 DEF AppRun!Listing
  <2>3. AppRun!TypeOK'
    BY <1>1, <1>2, <2>2 DEF AppRun!TypeOK, AppRun!catalog, AppRun!cloud, AppRun!run
  <2>4. ASSUME NEW i \in 1 .. Len(s), s[i] \in page.due \ page.seen PROVE s[i] \in AppRun!Items(s, c)
    <3>1. AppRun!Start(s, c) < i
      BY <1>1, <1>2, <2>4 DEF PageInv
    <3>2. i <= l
      BY <1>3, <1>4, <1>7, <1>9
    <3>3. i \in AppRun!Start(s, c) + 1 .. l
      BY <1>3, <2>1, <3>1, <3>2
    <3> QED
      BY <1>6, <3>3
  <2>5. appOrder' = s /\ AppRun!Live(apps') = AppRun!Live(apps) /\ made' = made
    BY <1>1 DEF AppRun!catalog, AppRun!Live
  <2>6. PageInv'
    BY <1>1, <1>2, <2>2, <2>4, <2>5 DEF PageInv
  <2> QED
    BY <1>1, <2>3, <2>6, NamedIs, CloudStays, CatalogStays DEF AppRunInv, AppRun!catalog
<1>10. CASE ~ (end >= Len(s))
  <2>1. end \in 1 .. Len(s) /\ next = s[end] /\ l = end
    BY <1>3, <1>4, <1>5, <1>10 DEF AppRun!Least
  <2>2. next \in Apps /\ next # None
    BY <1>2, <2>1 DEF AppRun!BoundsOK
  <2>3. /\ q \in AppRun!Listing /\ q.due = page.due /\ q.seen = page.seen \cup AppRun!Items(s, c)
        /\ q.cursor = next /\ ~ q.done
    BY <1>2, <1>8, <2>2 DEF AppRun!Listing
  <2>4. AppRun!TypeOK'
    BY <1>1, <1>2, <2>3 DEF AppRun!TypeOK, AppRun!catalog, AppRun!cloud, AppRun!run
  <2>5. AppRun!Start(s, next) = end
    BY <1>2, <2>1, StartIs
  <2>6. ASSUME NEW i \in 1 .. Len(s), s[i] \in page.due \ (page.seen \cup AppRun!Items(s, c))
        PROVE  end < i
    <3>1. AppRun!Start(s, c) < i
      BY <1>1, <1>2, <2>6 DEF PageInv
    <3>2. i \notin AppRun!Start(s, c) + 1 .. l
      BY <1>6, <2>6
    <3> QED
      BY <1>3, <1>4, <2>1, <3>1, <3>2
  <2>7. appOrder' = s /\ AppRun!Live(apps') = AppRun!Live(apps) /\ made' = made
    BY <1>1 DEF AppRun!catalog, AppRun!Live
  <2>8. next \in made
    BY <1>2, <2>1 DEF CatalogInv, Elems
  <2>9. PageInv'
    BY <1>1, <1>2, <2>3, <2>5, <2>6, <2>7, <2>8 DEF PageInv
  <2> QED
    BY <1>1, <2>4, <2>9, NamedIs, CloudStays, CatalogStays DEF AppRunInv, AppRun!catalog
<1> QED
  BY <1>9, <1>10

-----------------------------------------------------------------------------
\* What Docker has under the names of applications.
Images == [version : AppRun!Numbers, running : BOOLEAN]

\* Containers.
LEMMA DockerSteps ==
  ASSUME AppRun!BoundsOK, AppRunInv, AppRun!DockerOps
  PROVE  AppRunInv'
<1>1. /\ docker \in [Apps -> Images \cup {None}] /\ containers \subseteq Apps
      /\ hs \in [Requests -> [pc : {"count", "create", "read", "start", "stop", "delete"},
                              app : Apps \cup {None}, version : AppRun!Numbers] \cup {None}]
      /\ 0 \in AppRun!Numbers
  BY DEF AppRunInv, AppRun!TypeOK, Images, AppRun!BoundsOK, AppRun!Numbers
<1>2. ASSUME NEW h \in Requests, hs[h] # None, hs[h].pc \notin {"count", "create"}
      PROVE  hs[h].app \in Apps /\ hs[h].version \in AppRun!Numbers
  BY <1>1, <1>2 DEF AppRunInv, CatalogInv
<1>3. \A a \in Apps : AppRun!Removals(a) \subseteq Images \cup {None}
  BY <1>1 DEF AppRun!Removals
<1>4. ASSUME NEW h \in Requests, NEW a \in Apps, NEW pc \in {"stop", "delete"},
             AppRun!StopContainer(h, a, pc)
      PROVE  AppRunInv'
  <2>1. Moves(h)
    BY <1>1, <1>4 DEF AppRun!StopContainer, Moves
  <2>2. /\ docker' \in [Apps -> Images \cup {None}] /\ containers' \subseteq Apps
        /\ UNCHANGED <<clusters, AppRun!catalog, AppRun!cloud, made, page>>
    BY <1>1, <1>3, <1>4 DEF AppRun!StopContainer
  <2> QED
    BY <2>1, <2>2, RequestGoes DEF Images
<1>5. ASSUME NEW h \in Requests, NEW up \in BOOLEAN, NEW port \in BOOLEAN,
             AppRun!StartContainer(h, up, port)
      PROVE  AppRunInv'
  <2>1. hs[h].app \in Apps /\ hs[h].version \in AppRun!Numbers
    BY <1>2, <1>5 DEF AppRun!StartContainer, AppRun!At
  <2>2. AppRun!Image(hs[h].version, up) \in Images
    BY <2>1 DEF AppRun!Image, Images
  <2>3. docker' \in [Apps -> Images \cup {None}]
    BY <1>1, <1>5, <2>2 DEF AppRun!StartContainer
  <2>4. containers' \subseteq Apps
    BY <1>1, <1>5, <2>1 DEF AppRun!StartContainer
  <2>5. Moves(h) /\ UNCHANGED <<clusters, AppRun!catalog, AppRun!cloud, made, page>>
    BY <1>5 DEF AppRun!StartContainer, Moves
  <2> QED
    BY <2>3, <2>4, <2>5, RequestGoes DEF Images
<1>6. ASSUME NEW h \in Requests, AppRun!StartFails(h) PROVE AppRunInv'
  <2>1. hs[h].app \in Apps
    BY <1>2, <1>6 DEF AppRun!StartFails, AppRun!At
  <2>2. docker' \in [Apps -> Images \cup {None}] /\ containers' \subseteq Apps
    BY <1>1, <1>3, <1>6, <2>1 DEF AppRun!StartFails
  <2>3. Moves(h) /\ UNCHANGED <<clusters, AppRun!catalog, AppRun!cloud, made, page>>
    BY <1>6 DEF AppRun!StartFails, Moves
  <2> QED
    BY <2>2, <2>3, RequestGoes DEF Images
<1>7. ASSUME NEW h \in Requests, AppRun!StopDeactivated(h) PROVE AppRunInv'
  BY <1>2, <1>4, <1>7 DEF AppRun!StopDeactivated, AppRun!At
<1>8. ASSUME NEW h \in Requests, NEW a \in Apps, AppRun!StopForDelete(h, a) PROVE AppRunInv'
  BY <1>4, <1>8 DEF AppRun!StopForDelete
<1>9. ASSUME NEW a \in Apps, AppRun!Exit(a) PROVE AppRunInv'
  <2>1. docker[a] \in Images
    BY <1>1, <1>9 DEF AppRun!Exit
  <2>2. [docker[a] EXCEPT !.running = FALSE] \in Images
    BY <2>1 DEF Images
  <2>3. docker' = [docker EXCEPT ![a] = [docker[a] EXCEPT !.running = FALSE]]
    BY <1>1, <1>9 DEF AppRun!Exit
  <2>4. docker' \in [Apps -> Images \cup {None}]
    BY <1>1, <2>2, <2>3
  <2> QED
    BY <1>1, <1>9, <2>4, RequestGoes DEF AppRun!Exit, Images
<1>10. ASSUME AppRun!CheckContainers PROVE AppRunInv'
  BY <1>1, <1>10, RequestGoes DEF AppRun!CheckContainers, Images
<1> QED
  BY <1>5, <1>6, <1>7, <1>8, <1>9, <1>10 DEF AppRun!DockerOps

\* What a handler reads before it goes on.
LEMMA HandlerSteps ==
  ASSUME AppRun!BoundsOK, AppRunInv, NEW h \in Requests,
         (\E c \in Clusters : AppRun!ReadCluster(h, c)) \/ AppRun!CountApplications(h) \/ AppRun!ReadVersion(h)
  PROVE  AppRunInv'
<1>1. /\ UNCHANGED <<clusters, AppRun!catalog, AppRun!cloud, made, AppRun!run, page>>
      /\ containers \subseteq Apps
      /\ docker \in [Apps -> [version : AppRun!Numbers, running : BOOLEAN] \cup {None}]
  BY DEF AppRun!ReadCluster, AppRun!CountApplications, AppRun!ReadVersion, AppRunInv, AppRun!TypeOK
<1>2. Moves(h)
  <2>1. CASE (\E c \in Clusters : AppRun!ReadCluster(h, c)) \/ AppRun!CountApplications(h)
    BY <2>1 DEF AppRun!ReadCluster, AppRun!CountApplications, Moves
  <2>2. CASE AppRun!ReadVersion(h)
    <3>1. hs[h].app \in Apps /\ hs[h].version \in AppRun!Numbers
      BY <2>2 DEF AppRun!ReadVersion, AppRun!At, AppRunInv, CatalogInv, AppRun!TypeOK
    <3> QED
      BY <2>2, <3>1 DEF AppRun!ReadVersion, Moves
  <2> QED
    BY <2>1, <2>2
<1> QED
  BY <1>1, <1>2, RequestGoes DEF AppRun!run

LEMMA AppRunSteps == ASSUME AppRun!BoundsOK, AppRunInv, AppRun!Next PROVE AppRunInv'
<1>1. AppRun!CloudOps => AppRunInv'
  BY ClusterSteps, GroupMade, BalancerMade, GroupGone, BalancerGone DEF AppRun!CloudOps
<1>2. AppRun!AppOps => AppRunInv'
  BY VersionMade, VersionGone, HandlerSteps, AppMade, Activated, AppGone DEF AppRun!AppOps
<1> QED
  BY <1>1, <1>2, DockerSteps, ListingStarted, ListingGoes DEF AppRun!Next

\* Versions are only added when one is made.
LEMMA AppRunUnknown == ASSUME AppRun!BoundsOK, AppRunInv, AppRun!Next PROVE AppRun!StaysUnknown
<1>1. (\A a \in Apps : versions'[a] \subseteq versions[a]) => AppRun!StaysUnknown
  BY DEF AppRun!StaysUnknown
<1>2. ASSUME NEW a \in Apps, NEW v \in AppRun!Numbers, AppRun!DeleteVersion(a, v) PROVE AppRun!StaysUnknown
  BY <1>1, <1>2 DEF AppRun!DeleteVersion, AppRunInv, AppRun!TypeOK
<1>3. UNCHANGED versions => AppRun!StaysUnknown
  BY <1>1
<1>4. UNCHANGED AppRun!catalog => AppRun!StaysUnknown
  BY <1>3 DEF AppRun!catalog
<1>5. AppRun!CloudOps => AppRun!StaysUnknown
  BY <1>4
     DEF AppRun!CloudOps, AppRun!CreateCluster, AppRun!DeleteCluster, AppRun!CreateAutoScalingGroup,
              AppRun!CreateLoadBalancer, AppRun!DeleteAutoScalingGroup, AppRun!DeleteLoadBalancer
<1>6. AppRun!DockerOps => AppRun!StaysUnknown
  BY <1>4
     DEF AppRun!DockerOps, AppRun!StartContainer, AppRun!StartFails, AppRun!StopDeactivated,
         AppRun!StopForDelete,
              AppRun!StopContainer, AppRun!Exit, AppRun!CheckContainers
<1>7. AppRun!AppOps => AppRun!StaysUnknown
  BY <1>2, <1>3, <1>4, VersionMade, AppMade, AppGone
     DEF AppRun!AppOps, AppRun!ReadCluster, AppRun!CountApplications, AppRun!ReadVersion, AppRun!UpdateApplication
<1>8. AppRun!StartListing \/ AppRun!ListApplications => AppRun!StaysUnknown
  BY <1>4 DEF AppRun!StartListing, AppRun!ListApplications
<1> QED
  BY <1>5, <1>6, <1>7, <1>8 DEF AppRun!Next

LEMMA AppRunKeeps ==
  ASSUME AppRunInv
  PROVE AppRun!TypeOK /\ AppRun!CloudConsistent /\ AppRun!ListingComplete
<1>1. AppRun!CloudConsistent
  <2>1. /\ \A n \in AppRun!Live(nodes) : groups[nodes[n]] # None
        /\ \A b \in AppRun!Live(balancers) : groups[balancers[b]] # None
    BY DEF AppRunInv, CloudInv, AppRun!Live, AppRun!TypeOK
  <2>2. \A X : \A s \in Seq(X) : AppRun!Range(s) = Elems(s) /\ (Once(s) => AppRun!IsInjective(s))
    BY DEF AppRun!Range, Elems, Once, AppRun!IsInjective
  <2> QED
    BY <2>1, <2>2 DEF AppRunInv, CloudInv, AppRun!TypeOK, AppRun!CloudConsistent
<1>2. AppRun!ListingComplete
  <2>1. SUFFICES ASSUME page # None, page.done, NEW a \in page.due PROVE a \in page.seen
    BY DEF AppRun!ListingComplete
  <2>2. a \in Elems(appOrder)
    BY <2>1 DEF AppRunInv, PageInv, CatalogInv
  <2>3. PICK i \in 1 .. Len(appOrder) : appOrder[i] = a
    BY <2>2 DEF Elems
  <2> QED
    BY <2>1, <2>3 DEF AppRunInv, PageInv
<1> QED
  BY <1>1, <1>2 DEF AppRunInv

-----------------------------------------------------------------------------
(* The applications of Dedicated, and its containers *)

\* The requests that were counted for and have not made their application.
Creating == {h \in Requests : AppRun!At(h, "create")}

\* While a request that was counted for has not made its application yet, there
\* is room for one application less than there are requests.
LimitInv ==
    /\ DOMAIN hs = Requests
    /\ IsFiniteSet(AppRun!Live(apps))
    /\ Cardinality(AppRun!Live(apps)) <= MaxApplications + Cardinality(Requests) - 1
    /\ Creating # {} =>
         Cardinality(AppRun!Live(apps)) + Cardinality(Creating)
           <= MaxApplications + Cardinality(Requests) - 1

LimitBounds == IsFiniteSet(Requests) /\ MaxApplications \in Nat \ {0}

\* Finitely many requests were counted for.
LEMMA CreatingFinite ==
  ASSUME LimitBounds
  PROVE  /\ IsFiniteSet(Creating)
         /\ Cardinality(Creating) \in Nat /\ Cardinality(Requests) \in Nat
         /\ Cardinality(Creating) <= Cardinality(Requests)
<1>1. Creating \subseteq Requests
  BY DEF Creating
<1> QED
  BY <1>1, FS_Subset, FS_CardinalityType DEF LimitBounds

LEMMA LimitStarts == ASSUME LimitBounds, AppRun!Init PROVE LimitInv
<1>1. apps = [a \in Apps |-> None] /\ hs = [h \in Requests |-> None]
  BY DEF AppRun!Init
<1>2. AppRun!Live(apps) = {} /\ Creating = {}
  BY <1>1 DEF AppRun!Live, Creating, AppRun!At
<1>3. Cardinality({}) = 0 /\ IsFiniteSet({})
  BY FS_EmptySet
<1>4. 0 <= MaxApplications + Cardinality(Requests) - 1
  BY CreatingFinite DEF LimitBounds
<1>5. DOMAIN hs = Requests
  BY <1>1
<1> QED
  BY <1>2, <1>3, <1>4, <1>5, Zenon DEF LimitInv

\* No application more, no request more that was counted for.
LEMMA NoneMoreListed ==
  ASSUME LimitBounds, LimitInv, DOMAIN hs' = Requests,
         AppRun!Live(apps') \subseteq AppRun!Live(apps), Creating' \subseteq Creating
  PROVE  LimitInv'
<1>1. /\ IsFiniteSet(AppRun!Live(apps'))
      /\ Cardinality(AppRun!Live(apps')) <= Cardinality(AppRun!Live(apps))
  BY FS_Subset DEF LimitInv
<1>2. IsFiniteSet(Creating) /\ Cardinality(Creating') <= Cardinality(Creating)
      /\ IsFiniteSet(Creating')
  BY CreatingFinite, FS_Subset
<1>3. /\ Cardinality(Creating) \in Nat /\ Cardinality(Creating') \in Nat
      /\ Cardinality(AppRun!Live(apps')) \in Nat /\ Cardinality(AppRun!Live(apps)) \in Nat
      /\ Cardinality(Requests) \in Nat /\ MaxApplications \in Nat
  BY <1>1, <1>2, CreatingFinite, FS_CardinalityType DEF LimitInv, LimitBounds
<1> QED
  BY <1>1, <1>2, <1>3 DEF LimitInv

\* A request finds room.
LEMMA OneMoreCreating ==
  ASSUME LimitBounds, LimitInv, DOMAIN hs' = Requests, apps' = apps,
         Cardinality(AppRun!Live(apps)) < MaxApplications, Creating' \subseteq Requests
  PROVE  LimitInv'
<1>1. /\ Cardinality(Creating') \in Nat /\ Cardinality(Requests) \in Nat
      /\ Cardinality(Creating') <= Cardinality(Requests)
  BY FS_Subset, FS_CardinalityType DEF LimitBounds
<1>2. Cardinality(AppRun!Live(apps)) \in Nat /\ MaxApplications \in Nat
  BY FS_CardinalityType DEF LimitInv, LimitBounds
<1> QED
  BY <1>1, <1>2 DEF LimitInv

\* A request that was counted for makes its application.
LEMMA OneMoreListed ==
  ASSUME LimitBounds, LimitInv, DOMAIN hs' = Requests, NEW h \in Creating, NEW a,
         AppRun!Live(apps') \subseteq AppRun!Live(apps) \cup {a},
         Creating' \subseteq Creating \ {h}
  PROVE  LimitInv'
<1>1. /\ IsFiniteSet(AppRun!Live(apps) \cup {a})
      /\ Cardinality(AppRun!Live(apps) \cup {a}) <= Cardinality(AppRun!Live(apps)) + 1
  <2>1. IsFiniteSet(AppRun!Live(apps)) /\ Cardinality(AppRun!Live(apps)) \in Nat
    BY FS_CardinalityType DEF LimitInv
  <2>2. /\ IsFiniteSet(AppRun!Live(apps) \cup {a})
        /\ Cardinality(AppRun!Live(apps) \cup {a})
             \in {Cardinality(AppRun!Live(apps)), Cardinality(AppRun!Live(apps)) + 1}
    BY <2>1, FS_AddElement, Zenon
  <2> QED
    BY <2>1, <2>2
<1>2. /\ IsFiniteSet(AppRun!Live(apps'))
      /\ Cardinality(AppRun!Live(apps')) <= Cardinality(AppRun!Live(apps) \cup {a})
  BY <1>1, FS_Subset
<1>3. /\ IsFiniteSet(Creating \ {h}) /\ Cardinality(Creating \ {h}) = Cardinality(Creating) - 1
      /\ IsFiniteSet(Creating') /\ Cardinality(Creating') <= Cardinality(Creating \ {h})
  BY CreatingFinite, FS_RemoveElement, FS_Subset
<1>4. /\ Cardinality(Creating) \in Nat /\ Cardinality(Creating') \in Nat
      /\ Cardinality(AppRun!Live(apps')) \in Nat /\ Cardinality(AppRun!Live(apps)) \in Nat
      /\ Cardinality(AppRun!Live(apps) \cup {a}) \in Nat
      /\ Cardinality(Requests) \in Nat /\ MaxApplications \in Nat
  BY <1>1, <1>2, <1>3, CreatingFinite, FS_CardinalityType DEF LimitInv, LimitBounds
<1>5. Creating # {}
  OBVIOUS
<1> QED
  BY <1>1, <1>2, <1>3, <1>4, <1>5 DEF LimitInv

\* Requests that go on anywhere but to where applications are made.
LEMMA CountGoesOn ==
  ASSUME LimitInv, NEW h \in Requests,
         \/ hs' = hs
         \/ AppRun!Done(h)
         \/ \E pc \in {"count", "read", "start", "stop", "delete"} :
              \E a, v : AppRun!Goto(h, pc, a, v)
  PROVE  DOMAIN hs' = Requests /\ Creating' \subseteq Creating
<1>1. CASE hs' = hs
  BY <1>1 DEF LimitInv, Creating, AppRun!At
<1>2. CASE AppRun!Done(h)
  <2>1. DOMAIN hs' = Requests /\ \A q \in Requests : hs'[q] = IF q = h THEN None ELSE hs[q]
    BY <1>2 DEF LimitInv, AppRun!Done
  <2> QED
    BY <2>1 DEF Creating, AppRun!At
<1>3. ASSUME NEW pc \in {"count", "read", "start", "stop", "delete"}, NEW a, NEW v,
             AppRun!Goto(h, pc, a, v)
      PROVE  DOMAIN hs' = Requests /\ Creating' \subseteq Creating
  <2>1. DOMAIN hs' = Requests
        /\ \A q \in Requests : hs'[q] = IF q = h THEN [pc |-> pc, app |-> a, version |-> v] ELSE hs[q]
    BY <1>3 DEF LimitInv, AppRun!Goto
  <2> QED
    BY <2>1 DEF Creating, AppRun!At
<1> QED
  BY <1>1, <1>2, <1>3

LEMMA LimitSteps ==
  ASSUME LimitBounds, LimitInv, AppRun!Next
  PROVE  LimitInv'
<1>1. CASE UNCHANGED <<apps, hs>>
  BY <1>1 DEF LimitInv, Creating, AppRun!At
<1>3. CASE AppRun!CloudOps
  BY <1>1, <1>3
     DEF AppRun!CloudOps, AppRun!CreateCluster, AppRun!DeleteCluster, AppRun!CreateAutoScalingGroup,
         AppRun!CreateLoadBalancer, AppRun!DeleteAutoScalingGroup, AppRun!DeleteLoadBalancer,
         AppRun!catalog
<1>4. CASE AppRun!StartListing \/ AppRun!ListApplications
  BY <1>1, <1>4 DEF AppRun!StartListing, AppRun!ListApplications, AppRun!catalog
<1>5. ASSUME NEW h \in Requests, AppRun!CountApplications(h)
      PROVE  LimitInv'
  <2>1. apps' = apps
    BY <1>5 DEF AppRun!CountApplications, AppRun!catalog
  <2>2. CASE AppRun!Done(h)
    <3>1. DOMAIN hs' = Requests /\ Creating' \subseteq Creating
      BY <2>2, CountGoesOn
    <3> QED
      BY <2>1, <3>1, NoneMoreListed
  <2>3. CASE Cardinality(AppRun!Live(apps)) < MaxApplications /\ AppRun!Goto(h, "create", None, 0)
    <3>1. DOMAIN hs' = Requests /\ Creating' \subseteq Requests
      BY <2>3 DEF AppRun!Goto, LimitInv, Creating
    <3> QED
      BY <2>1, <2>3, <3>1, OneMoreCreating
  <2> QED
    BY <1>5, <2>2, <2>3, AppRunCards DEF AppRun!CountApplications
<1>6. ASSUME NEW h \in Requests, NEW a \in Apps, AppRun!CreateApplication(h, a)
      PROVE  LimitInv'
  <2>1. h \in Creating /\ AppRun!Done(h) /\ apps' = [apps EXCEPT ![a] = 0]
    BY <1>6 DEF AppRun!CreateApplication, Creating
  <2>2. AppRun!Live(apps') \subseteq AppRun!Live(apps) \cup {a}
    BY <2>1 DEF AppRun!Live
  <2>3. DOMAIN hs' = Requests /\ Creating' \subseteq Creating \ {h}
    <3>1. DOMAIN hs' = Requests /\ \A q \in Requests : hs'[q] = IF q = h THEN None ELSE hs[q]
      BY <2>1 DEF LimitInv, AppRun!Done
    <3> QED
      BY <3>1 DEF Creating, AppRun!At
  <2> QED
    BY <2>1, <2>2, <2>3, OneMoreListed
<1>7. ASSUME NEW h \in Requests, NEW a \in Apps, NEW v \in AppRun!Numbers,
             AppRun!UpdateApplication(h, a, v)
      PROVE  LimitInv'
  <2>1. apps[a] # None /\ apps' = [apps EXCEPT ![a] = v]
    BY <1>7 DEF AppRun!UpdateApplication
  <2>2. AppRun!Live(apps') \subseteq AppRun!Live(apps)
    BY <2>1 DEF AppRun!Live
  <2>3. AppRun!Goto(h, "stop", a, 0) \/ AppRun!Goto(h, "read", a, v)
    BY <1>7 DEF AppRun!UpdateApplication
  <2>4. DOMAIN hs' = Requests /\ Creating' \subseteq Creating
    BY <2>3, CountGoesOn
  <2> QED
    BY <2>2, <2>4, NoneMoreListed
<1>8. ASSUME NEW h \in Requests, AppRun!DeleteApplication(h)
      PROVE  LimitInv'
  <2>1. apps' = [apps EXCEPT ![hs[h].app] = None] /\ AppRun!Done(h)
    BY <1>8 DEF AppRun!DeleteApplication
  <2>2. AppRun!Live(apps') \subseteq AppRun!Live(apps)
    BY <2>1 DEF AppRun!Live
  <2>3. DOMAIN hs' = Requests /\ Creating' \subseteq Creating
    BY <2>1, CountGoesOn
  <2> QED
    BY <2>2, <2>3, NoneMoreListed
<1>9. ASSUME NEW h \in Requests, apps' = apps,
             \/ hs' = hs
             \/ AppRun!Done(h)
             \/ \E pc \in {"count", "read", "start", "stop", "delete"} :
              \E a, v : AppRun!Goto(h, pc, a, v)
      PROVE  LimitInv'
  <2>1. DOMAIN hs' = Requests /\ Creating' \subseteq Creating
    BY <1>9, CountGoesOn
  <2> QED
    BY <1>9, <2>1, NoneMoreListed
<1>10. ASSUME NEW h \in Requests, NEW c, AppRun!ReadCluster(h, c)
       PROVE  LimitInv'
  <2>1. apps' = apps /\ AppRun!Goto(h, "count", None, 0)
    BY <1>10 DEF AppRun!ReadCluster, AppRun!catalog
  <2> QED
    BY <2>1, <1>9
<1>11. ASSUME NEW h \in Requests, AppRun!ReadVersion(h)
       PROVE  LimitInv'
  <2>1. apps' = apps /\ (AppRun!Goto(h, "start", hs[h].app, hs[h].version) \/ AppRun!Done(h))
    BY <1>11 DEF AppRun!ReadVersion, AppRun!catalog
  <2> QED
    BY <2>1, <1>9
<1>12. ASSUME NEW a, AppRun!CreateVersion(a) \/ \E v \in AppRun!Numbers : AppRun!DeleteVersion(a, v)
       PROVE  LimitInv'
  BY <1>1, <1>12 DEF AppRun!CreateVersion, AppRun!DeleteVersion
<1>13. ASSUME NEW h \in Requests, NEW a, NEW pc \in {"stop", "delete"}, AppRun!StopContainer(h, a, pc)
       PROVE  LimitInv'
  <2>1. apps' = apps /\ (AppRun!Goto(h, "delete", a, 0) \/ AppRun!Done(h))
    BY <1>13 DEF AppRun!StopContainer, AppRun!catalog
  <2> QED
    BY <2>1, <1>9
<1>14. ASSUME NEW h \in Requests,
              (\E up, port \in BOOLEAN : AppRun!StartContainer(h, up, port)) \/ AppRun!StartFails(h)
       PROVE  LimitInv'
  <2>1. apps' = apps /\ AppRun!Done(h)
    BY <1>14 DEF AppRun!StartContainer, AppRun!StartFails, AppRun!catalog
  <2> QED
    BY <2>1, <1>9
<1>15. ASSUME (\E a \in Apps : AppRun!Exit(a)) \/ AppRun!CheckContainers
       PROVE  LimitInv'
  BY <1>1, <1>15 DEF AppRun!Exit, AppRun!CheckContainers, AppRun!catalog
<1>16. CASE AppRun!AppOps
  BY <1>5, <1>6, <1>7, <1>8, <1>10, <1>11, <1>12, <1>16 DEF AppRun!AppOps
<1>17. CASE AppRun!DockerOps
  BY <1>13, <1>14, <1>15, <1>17 DEF AppRun!DockerOps, AppRun!StopDeactivated, AppRun!StopForDelete
<1> QED
  BY <1>3, <1>4, <1>16, <1>17 DEF AppRun!Next

LEMMA LimitKeeps == ASSUME LimitInv PROVE AppRun!ApplicationsBounded
  BY AppRunCards DEF AppRun!ApplicationsBounded, LimitInv

LEMMA PortsStart == ASSUME AppRun!Init PROVE AppRun!PortsHeld
  BY DEF AppRun!Init, AppRun!PortsHeld

\* A port is held from when Docker has the container until it has removed it.
LEMMA PortsSteps ==
  ASSUME AppRun!BoundsOK, AppRunInv, AppRun!PortsHeld, AppRun!Next
  PROVE  (AppRun!PortsHeld)'
<1>. USE DEF AppRun!PortsHeld
<1>1. /\ docker \in [Apps -> [version : AppRun!Numbers, running : BOOLEAN] \cup {None}]
      /\ containers \subseteq Apps
      /\ None \notin [version : AppRun!Numbers, running : BOOLEAN]
      /\ \A h \in Requests : \A pc : AppRun!At(h, pc) /\ pc = "start" => hs[h].version \in AppRun!Numbers
  BY DEF AppRunInv, AppRun!TypeOK, AppRun!BoundsOK, AppRun!At
<1>2. UNCHANGED AppRun!run => (AppRun!PortsHeld)'
  BY DEF AppRun!run
<1>3. CASE AppRun!CloudOps
  BY <1>2, <1>3 DEF AppRun!CloudOps, AppRun!CreateCluster, AppRun!DeleteCluster,
                    AppRun!CreateAutoScalingGroup, AppRun!CreateLoadBalancer,
                    AppRun!DeleteAutoScalingGroup, AppRun!DeleteLoadBalancer
<1>4. CASE AppRun!AppOps
  BY <1>2, <1>4 DEF AppRun!AppOps, AppRun!CreateVersion, AppRun!DeleteVersion, AppRun!ReadCluster,
                    AppRun!CountApplications, AppRun!CreateApplication, AppRun!UpdateApplication,
                    AppRun!ReadVersion, AppRun!DeleteApplication
<1>5. CASE AppRun!StartListing \/ AppRun!ListApplications
  BY <1>2, <1>5 DEF AppRun!StartListing, AppRun!ListApplications
<1>6. ASSUME NEW h \in Requests, AppRun!StartFails(h) PROVE (AppRun!PortsHeld)'
  BY <1>1, <1>6 DEF AppRun!StartFails
<1>7. ASSUME NEW h \in Requests, NEW up \in BOOLEAN, NEW port \in BOOLEAN,
             AppRun!StartContainer(h, up, port)
      PROVE  (AppRun!PortsHeld)'
  <2>1. AppRun!Image(hs[h].version, up) # None
    BY <1>1, <1>7 DEF AppRun!StartContainer, AppRun!Image
  <2>2. /\ docker' = [docker EXCEPT ![hs[h].app] = AppRun!Image(hs[h].version, up)]
        /\ containers' \subseteq containers \cup {hs[h].app} /\ hs[h].app \in Apps
    BY <1>7 DEF AppRun!StartContainer, AppRun!At, AppRunInv, CatalogInv
  <2>. QED
    BY <1>1, <2>1, <2>2
<1>8. ASSUME NEW h, NEW a, NEW pc, AppRun!StopContainer(h, a, pc) PROVE (AppRun!PortsHeld)'
  BY <1>1, <1>8 DEF AppRun!StopContainer
<1>10. ASSUME NEW a \in Apps, AppRun!Exit(a) PROVE (AppRun!PortsHeld)'
  <2>1. docker[a] \in [version : AppRun!Numbers, running : BOOLEAN] /\ UNCHANGED containers
        /\ docker' = [docker EXCEPT ![a].running = FALSE]
    BY <1>1, <1>10 DEF AppRun!Exit
  <2>2. [docker[a] EXCEPT !.running = FALSE] \in [version : AppRun!Numbers, running : BOOLEAN]
    BY <2>1
  <2>. QED
    BY <1>1, <2>1, <2>2
<1>11. CASE AppRun!CheckContainers
  BY <1>11 DEF AppRun!CheckContainers
<1>12. CASE AppRun!DockerOps
  BY <1>6, <1>7, <1>8, <1>10, <1>11, <1>12
     DEF AppRun!DockerOps, AppRun!StopDeactivated, AppRun!StopForDelete
<1>. QED
  BY <1>3, <1>4, <1>5, <1>12 DEF AppRun!Next

-----------------------------------------------------------------------------
(* A step that leaves a store as it is keeps what is so of it *)

LEMMA HsmRests == ASSUME HsmInv, UNCHANGED hsmVars PROVE HsmInv'
  BY DEF hsmVars, HsmInv, HSM!TypeOK

LEMMA NotesRest == ASSUME NoteInv, UNCHANGED noteVars PROVE NoteInv'
  BY DEF noteVars, NoteInv, Notes!TypeOK

LEMMA ControlRests == ASSUME ControlInv, UNCHANGED controlVars PROVE ControlInv'
  BY DEF controlVars, ControlInv, Control!TypeOK, Ahead, Behind, Control!InList

LEMMA DBRests == ASSUME DBInv, UNCHANGED dbVars PROVE DBInv'
  BY DEF dbVars, DBInv, DBTyped, DB!TablesAgree

LEMMA IamRests == ASSUME IamInv, UNCHANGED iamVars PROVE IamInv'
  BY DEF iamVars, IamInv, IamRecords, IamWork, IamTidy, Ordered, Sweeps, Unsets

LEMMA SuiteRests == ASSUME SuiteInv, UNCHANGED suiteVars PROVE SuiteInv'
  BY DEF suiteVars, SuiteInv, SuiteTables, SuiteEdits, EditSound, Settled, Suite!TypeOK

LEMMA AppRunRests == ASSUME AppRunInv, UNCHANGED dedicatedVars PROVE AppRunInv'
  BY DEF dedicatedVars, AppRunInv, AppRun!TypeOK, CloudInv, CatalogInv, PageInv

LEMMA LimitRests ==
  ASSUME LimitInv, AppRun!PortsHeld, UNCHANGED dedicatedVars
  PROVE  LimitInv' /\ (AppRun!PortsHeld)'
  BY DEF dedicatedVars, LimitInv, Creating, AppRun!At, AppRun!PortsHeld, AppRun!Live
=============================================================================
