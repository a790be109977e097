-------------------------- MODULE MdnsLists_proof ---------------------------
(***************************************************************************)
(* What is left of a list from which elements are taken, proved for every   *)
(* list, and the principle of induction that this and other proofs about    *)
(* lists need, stated for sets of numbers.                                  *)
(***************************************************************************)
EXTENDS MdnsLists, SequencesExt, SequenceTheorems, WellFoundedInduction, TLAPS

\* A set of numbers that is not empty has a smallest.
LEMMA Smallest ==
  ASSUME NEW T \in SUBSET Nat, T # {}
  PROVE  \E m \in T : \A k \in T : m <= k
<1> DEFINE R == OpToRel(<, Nat)
<1>1. IsWellFoundedOn(R, Nat)
  BY NatLessThanWellFounded, Zenon
<1>2. \A a, b \in Nat : a < b => <<a, b>> \in R
  BY DEF OpToRel
<1> HIDE DEF R
<1>3. PICK m \in T : \A k \in T : <<k, m>> \notin R
  BY <1>1, WFMin
<1>4. \A k \in T : ~(k < m)
  BY <1>2, <1>3
<1> QED BY <1>4

\* Induction up to N: what holds of 0 and is passed on holds of all.
LEMMA InductionTo ==
  ASSUME NEW N \in Nat, NEW T,
         0 \in T,
         \A n \in 1 .. N : n - 1 \in T => n \in T
  PROVE  0 .. N \subseteq T
<1> DEFINE Bad == {n \in 0 .. N : n \notin T}
<1> SUFFICES ASSUME Bad # {} PROVE FALSE
  OBVIOUS
<1>1. PICK m \in Bad : \A k \in Bad : m <= k
  <2>1. Bad \in SUBSET Nat
    OBVIOUS
  <2> HIDE DEF Bad
  <2> QED BY <2>1, Smallest
<1>2. m \in 0 .. N /\ m \notin T /\ m # 0
  BY <1>1
<1>3. m - 1 \in 0 .. N /\ m - 1 \notin Bad
  BY <1>1, <1>2
<1>4. m - 1 \in T
  BY <1>3
<1> QED BY <1>2, <1>4

----------------------------------------------------------------------------

\* The first elements that Kept has looked at, as a function of those before.
KeptStep(list, S, g, n) ==
  IF n = 0 THEN <<>> ELSE IF list[n] \in S THEN g[n - 1] ELSE Append(g[n - 1], list[n])

\* The recursion has a solution on every initial part of the list.
LEMMA KeptExists ==
  ASSUME NEW X, NEW list \in Seq(X), NEW S
  PROVE  \E g : g = [n \in 0 .. Len(list) |-> KeptStep(list, S, g, n)]
<1> DEFINE T == {m \in Nat : \E g : g = [n \in 0 .. m |-> KeptStep(list, S, g, n)]}
           N == Len(list)
<1>1. N \in Nat
  OBVIOUS
<1>2. 0 \in T
  <2> DEFINE g == [n \in 0 .. 0 |-> <<>>]
  <2>1. g = [n \in 0 .. 0 |-> KeptStep(list, S, g, n)]
    BY DEF KeptStep
  <2> QED BY <2>1
<1>3. ASSUME NEW m \in 1 .. N, m - 1 \in T PROVE m \in T
  <2>1. PICK g : g = [n \in 0 .. m - 1 |-> KeptStep(list, S, g, n)]
    BY <1>3
  <2> DEFINE h == [n \in 0 .. m |-> IF n = m THEN KeptStep(list, S, g, m) ELSE g[n]]
  <2>2. ASSUME NEW n \in 0 .. m PROVE h[n] = KeptStep(list, S, h, n)
    <3>1. CASE n = m
      <4>1. h[n] = KeptStep(list, S, g, m) /\ h[m - 1] = g[m - 1]
        BY <3>1
      <4> QED BY <3>1, <4>1 DEF KeptStep
    <3>2. CASE n # m
      <4>1. n \in 0 .. m - 1
        BY <3>2
      <4>2. h[n] = g[n] /\ g[n] = KeptStep(list, S, g, n)
        BY <2>1, <3>2, <4>1
      <4>3. n # 0 => h[n - 1] = g[n - 1]
        BY <4>1
      <4> QED BY <4>2, <4>3 DEF KeptStep
    <3> QED BY <3>1, <3>2
  <2>3. h = [n \in 0 .. m |-> KeptStep(list, S, h, n)]
    BY <2>2
  <2> HIDE DEF h
  <2> QED BY <2>3
<1> HIDE DEF T, N
<1>4. 0 .. N \subseteq T
  BY <1>1, <1>2, <1>3, InductionTo
<1>5. N \in T
  BY <1>1, <1>4
<1> QED BY <1>5 DEF T, N

\* So Kept is what its definition says.
LEMMA KeptRecursion ==
  ASSUME NEW X, NEW list \in Seq(X), NEW S
  PROVE  Kept(list, S) = [n \in 0 .. Len(list) |-> KeptStep(list, S, Kept(list, S), n)]
<1>1. Kept(list, S) = CHOOSE g : g = [n \in 0 .. Len(list) |-> KeptStep(list, S, g, n)]
  BY DEF Kept, KeptStep
<1>2. PICK g : g = [n \in 0 .. Len(list) |-> KeptStep(list, S, g, n)]
  BY KeptExists
<1> QED BY <1>1, <1>2

----------------------------------------------------------------------------

\* Of the first n elements, w has those that are not in S, in their order: e says where
\* each of them was.
Places(w, list, S, n, e) ==
  /\ e \in [1 .. Len(w) -> 1 .. n]
  /\ \A i, j \in 1 .. Len(w) : i < j => e[i] < e[j]
  /\ \A i \in 1 .. Len(w) : w[i] = list[e[i]] /\ list[e[i]] \notin S
  /\ \A k \in 1 .. n : list[k] \notin S => \E i \in 1 .. Len(w) : e[i] = k

\* One more element of S is left out.
LEMMA PlacesSkip ==
  ASSUME NEW X, NEW list \in Seq(X), NEW S, NEW n \in 1 .. Len(list), NEW w \in Seq(X),
         NEW e, Places(w, list, S, n - 1, e), list[n] \in S
  PROVE  Places(w, list, S, n, e)
<1>1. e \in [1 .. Len(w) -> 1 .. n]
  BY DEF Places
<1>2. \A k \in 1 .. n : list[k] \notin S => \E i \in 1 .. Len(w) : e[i] = k
  <2> SUFFICES ASSUME NEW k \in 1 .. n, list[k] \notin S PROVE \E i \in 1 .. Len(w) : e[i] = k
    OBVIOUS
  <2>1. k \in 1 .. n - 1
    OBVIOUS
  <2> QED BY <2>1 DEF Places
<1> QED BY <1>1, <1>2 DEF Places

\* One more that is not in S goes behind what is left.
LEMMA PlacesAppend ==
  ASSUME NEW X, NEW list \in Seq(X), NEW S, NEW n \in 1 .. Len(list), NEW w \in Seq(X),
         NEW e, Places(w, list, S, n - 1, e), list[n] \notin S
  PROVE  Places(Append(w, list[n]), list, S, n,
                [i \in 1 .. Len(w) + 1 |-> IF i = Len(w) + 1 THEN n ELSE e[i]])
<1> DEFINE v == Append(w, list[n])
           f == [i \in 1 .. Len(w) + 1 |-> IF i = Len(w) + 1 THEN n ELSE e[i]]
<1>1. /\ Len(w) \in Nat /\ Len(v) = Len(w) + 1 /\ v[Len(w) + 1] = list[n]
      /\ \A i \in 1 .. Len(w) : v[i] = w[i]
  OBVIOUS
<1> HIDE DEF v
<1>2. /\ \A i \in 1 .. Len(w) : e[i] \in 1 .. n - 1
      /\ \A i \in 1 .. Len(w) : f[i] = e[i]
      /\ f[Len(w) + 1] = n
  <2>1. e \in [1 .. Len(w) -> 1 .. n - 1]
    BY DEF Places
  <2>2. \A i \in 1 .. Len(w) : i \in 1 .. Len(w) + 1 /\ i # Len(w) + 1
    BY <1>1
  <2>3. Len(w) + 1 \in 1 .. Len(w) + 1
    BY <1>1
  <2> QED BY <2>1, <2>2, <2>3
<1>3. f[Len(w) + 1] = n
  BY <1>2
<1>4. f \in [1 .. Len(v) -> 1 .. n]
  <2>1. \A i \in 1 .. Len(w) + 1 : i = Len(w) + 1 \/ i \in 1 .. Len(w)
    BY <1>1
  <2>2. \A i \in 1 .. Len(w) + 1 : f[i] \in 1 .. n
    BY <1>2, <2>1
  <2> QED BY <1>1, <2>2
<1> HIDE DEF f
<1>5. \A i, j \in 1 .. Len(v) : i < j => f[i] < f[j]
  <2> SUFFICES ASSUME NEW i \in 1 .. Len(v), NEW j \in 1 .. Len(v), i < j PROVE f[i] < f[j]
    OBVIOUS
  <2>1. i \in 1 .. Len(w)
    BY <1>1
  <2>2. CASE j = Len(w) + 1
    BY <1>2, <1>3, <2>1, <2>2
  <2>3. CASE j \in 1 .. Len(w)
    BY <1>2, <2>1, <2>3 DEF Places
  <2> QED BY <1>1, <2>2, <2>3
<1>6. \A i \in 1 .. Len(v) : v[i] = list[f[i]] /\ list[f[i]] \notin S
  <2> SUFFICES ASSUME NEW i \in 1 .. Len(v) PROVE v[i] = list[f[i]] /\ list[f[i]] \notin S
    OBVIOUS
  <2>1. CASE i = Len(w) + 1
    BY <1>1, <1>3, <2>1
  <2>2. CASE i \in 1 .. Len(w)
    BY <1>1, <1>2, <2>2 DEF Places
  <2> QED BY <1>1, <2>1, <2>2
<1>7. \A k \in 1 .. n : list[k] \notin S => \E i \in 1 .. Len(v) : f[i] = k
  <2> SUFFICES ASSUME NEW k \in 1 .. n, list[k] \notin S PROVE \E i \in 1 .. Len(v) : f[i] = k
    OBVIOUS
  <2>1. CASE k = n
    BY <1>1, <1>3, <2>1
  <2>2. CASE k \in 1 .. n - 1
    <3>1. PICK i \in 1 .. Len(w) : e[i] = k
      BY <2>2 DEF Places
    <3> QED BY <1>1, <1>2, <3>1
  <2> QED BY <2>1, <2>2
<1>8. Places(v, list, S, n, f)
  BY <1>4, <1>5, <1>6, <1>7 DEF Places
<1> QED BY <1>8 DEF v, f

\* A list without the elements of S has the others, in their order.
LEMMA WithoutPlaces ==
  ASSUME NEW X, NEW list \in Seq(X), NEW S
  PROVE  /\ Without(list, S) \in Seq(X)
         /\ Len(Without(list, S)) <= Len(list)
         /\ \E e : Places(Without(list, S), list, S, Len(list), e)
<1> DEFINE kept == Kept(list, S)
           N == Len(list)
           T == {n \in 0 .. N : /\ kept[n] \in Seq(X) /\ Len(kept[n]) <= n
                                /\ \E e : Places(kept[n], list, S, n, e)}
<1>1. N \in Nat
  OBVIOUS
<1>2. /\ kept[0] = <<>>
      /\ \A n \in 1 .. N : kept[n] = IF list[n] \in S THEN kept[n - 1]
                                    ELSE Append(kept[n - 1], list[n])
  <2>1. kept = [n \in 0 .. N |-> KeptStep(list, S, kept, n)]
    BY KeptRecursion
  <2> HIDE DEF kept, N
  <2>2. \A n \in 0 .. N : kept[n] = KeptStep(list, S, kept, n)
    BY <2>1
  <2>3. kept[0] = KeptStep(list, S, kept, 0)
    BY <1>1, <2>2
  <2>4. \A n \in 1 .. N : n \in 0 .. N /\ n # 0
    BY <1>1
  <2> QED BY <2>2, <2>3, <2>4 DEF KeptStep
<1> HIDE DEF kept
<1>3. 0 \in T
  <2>1. Places(<<>>, list, S, 0, [i \in {} |-> 0])
    BY DEF Places
  <2>2. <<>> \in Seq(X) /\ Len(<<>>) <= 0 /\ 0 \in 0 .. N
    OBVIOUS
  <2> QED BY <1>2, <2>1, <2>2
<1>4. ASSUME NEW n \in 1 .. N, n - 1 \in T PROVE n \in T
  <2>1. PICK e : Places(kept[n - 1], list, S, n - 1, e)
    BY <1>4
  <2>2. kept[n - 1] \in Seq(X) /\ Len(kept[n - 1]) <= n - 1 /\ list[n] \in X
    BY <1>4
  <2>3. CASE list[n] \in S
    <3>1. kept[n] = kept[n - 1]
      BY <1>2, <2>3
    <3>2. Places(kept[n], list, S, n, e)
      BY <2>1, <2>2, <2>3, <3>1, PlacesSkip
    <3> QED BY <2>2, <3>1, <3>2
  <2>4. CASE list[n] \notin S
    <3>1. kept[n] = Append(kept[n - 1], list[n])
      BY <1>2, <2>4
    <3>2. \E f : Places(kept[n], list, S, n, f)
      <4> DEFINE w == kept[n - 1]
      <4>1. Places(w, list, S, n - 1, e) /\ w \in Seq(X)
        BY <2>1, <2>2
      <4> HIDE DEF w
      <4>2. \E f : Places(Append(w, list[n]), list, S, n, f)
        BY <2>4, <4>1, PlacesAppend
      <4> QED BY <3>1, <4>2 DEF w
    <3>3. kept[n] \in Seq(X) /\ Len(kept[n]) <= n
      BY <2>2, <3>1
    <3> QED BY <3>2, <3>3
  <2> QED BY <2>3, <2>4
<1>5. 0 .. N \subseteq T
  <2> HIDE DEF T, N
  <2> QED BY <1>1, <1>3, <1>4, InductionTo
<1>6. N \in T
  BY <1>1, <1>5
<1> QED BY <1>6 DEF Without, kept

\* Its elements are those of the list that are not in S.
LEMMA WithoutElements ==
  ASSUME NEW X, NEW list \in Seq(X), NEW S
  PROVE  ToSet(Without(list, S)) = ToSet(list) \ S
<1> DEFINE w == Without(list, S)
<1>1. w \in Seq(X)
  BY WithoutPlaces
<1>2. PICK e : Places(w, list, S, Len(list), e)
  BY WithoutPlaces
<1> HIDE DEF w
<1>3. ASSUME NEW x \in ToSet(w) PROVE x \in ToSet(list) \ S
  <2>1. PICK i \in 1 .. Len(w) : x = w[i]
    BY <1>1 DEF ToSet
  <2>2. e[i] \in 1 .. Len(list) /\ x = list[e[i]] /\ x \notin S
    BY <1>2, <2>1 DEF Places
  <2> QED BY <2>2 DEF ToSet
<1>4. ASSUME NEW x \in ToSet(list) \ S PROVE x \in ToSet(w)
  <2>1. PICK k \in 1 .. Len(list) : x = list[k]
    BY DEF ToSet
  <2>2. PICK i \in 1 .. Len(w) : e[i] = k
    BY <1>2, <2>1 DEF Places
  <2>3. w[i] = x
    BY <1>2, <2>1, <2>2 DEF Places
  <2> QED BY <1>1, <2>3 DEF ToSet
<1> QED BY <1>3, <1>4 DEF w

\* If no element was twice in the list, none is.
LEMMA WithoutUnique ==
  ASSUME NEW X, NEW list \in Seq(X), NEW S,
         \A i, j \in 1 .. Len(list) : list[i] = list[j] => i = j
  PROVE  \A i, j \in 1 .. Len(Without(list, S)) :
            Without(list, S)[i] = Without(list, S)[j] => i = j
<1> DEFINE w == Without(list, S)
<1>1. w \in Seq(X)
  BY WithoutPlaces
<1>2. PICK e : Places(w, list, S, Len(list), e)
  BY WithoutPlaces
<1> HIDE DEF w
<1>3. SUFFICES ASSUME NEW i \in 1 .. Len(w), NEW j \in 1 .. Len(w), w[i] = w[j] PROVE i = j
  BY DEF w
<1>4. e[i] \in 1 .. Len(list) /\ e[j] \in 1 .. Len(list) /\ list[e[i]] = list[e[j]]
  BY <1>2, <1>3 DEF Places
<1>5. e[i] = e[j]
  BY <1>4
<1>6. ~(i < j) /\ ~(j < i)
  BY <1>2, <1>4, <1>5 DEF Places
<1>7. Len(w) \in Nat
  BY <1>1
<1> QED BY <1>6, <1>7

----------------------------------------------------------------------------

\* One more element in front of a list.
LEMMA InFront ==
  ASSUME NEW X, NEW s \in Seq(X), NEW x \in X
  PROVE  /\ <<x>> \o s \in Seq(X) /\ Len(<<x>> \o s) = Len(s) + 1
         /\ (<<x>> \o s)[1] = x
         /\ \A k \in 1 .. Len(s) : (<<x>> \o s)[k + 1] = s[k]
<1>1. <<x>> \in Seq(X) /\ Len(<<x>>) = 1 /\ <<x>>[1] = x /\ Len(s) \in Nat
  OBVIOUS
<1> DEFINE one == <<x>>
<1> HIDE DEF one
<1>2. one \in Seq(X) /\ Len(one) = 1 /\ one[1] = x
  BY <1>1 DEF one
<1> DEFINE both == one \o s
<1>3. /\ both \in Seq(X) /\ Len(both) = Len(one) + Len(s)
      /\ \A i \in 1 .. Len(one) + Len(s) :
           both[i] = IF i <= Len(one) THEN one[i] ELSE s[i - Len(one)]
  BY <1>2, ConcatProperties, Zenon
<1> HIDE DEF both
<1>4. both[1] = x /\ Len(both) = Len(s) + 1
  BY <1>1, <1>2, <1>3
<1>5. ASSUME NEW k \in 1 .. Len(s) PROVE both[k + 1] = s[k]
  <2>1. k + 1 \in 1 .. Len(s) + 1 /\ ~(k + 1 <= 1) /\ (k + 1) - 1 = k
    BY <1>1
  <2> QED BY <1>1, <1>2, <1>3, <2>1
<1> QED BY <1>3, <1>4, <1>5 DEF both, one

=============================================================================
