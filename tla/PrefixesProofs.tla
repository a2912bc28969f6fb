--------------------------- MODULE PrefixesProofs ---------------------------
(***************************************************************************)
(* Theorems about the numbering, and the facts about numbers, sorting and  *)
(* recursion that they and the proofs about the planner rest on.           *)
(* Induction is by the least number without the property: that a set of    *)
(* naturals has a least element is first-order, so no fact here takes an   *)
(* operator as a parameter.                                                *)
(***************************************************************************)
EXTENDS Prefixes, FiniteSetTheorems, WellFoundedInduction, TLAPS

-----------------------------------------------------------------------------
(* Least and greatest numbers, and induction                               *)

Less == {ss \in Nat \X Nat : ss[1] < ss[2]}

(* A set of natural numbers has a least, a bounded one a greatest.         *)
LEMMA LeastNumber ==
  ASSUME NEW S, S \subseteq Nat, S # {}
  PROVE  Min(S) \in S /\ \A y \in S : Min(S) <= y
<1>1. IsWellFoundedOn(Less, Nat)
  BY NatLessThanWellFounded DEF OpToRel, Less
<1>2. PICK x \in S : \A y \in S : ~ (<<y, x>> \in Less)
  <2> HIDE DEF Less
  <2>1. QED BY <1>1, WFMin, Zenon
<1>3. \A y \in S : x <= y
  <2>1. ASSUME NEW y \in S PROVE x <= y
    <3>1. x \in Nat /\ y \in Nat
      OBVIOUS
    <3>2. ~ (y < x)
      BY <1>2, <3>1 DEF Less
    <3>3. QED BY <3>1, <3>2
  <2>2. QED BY <2>1
<1>4. QED BY <1>3 DEF Min

LEMMA GreatestNumber ==
  ASSUME NEW n \in Nat, NEW S, S \subseteq 0 .. n, S # {}
  PROVE  Max(S) \in S /\ \A y \in S : Max(S) >= y
<1> DEFINE T == {n - x : x \in S}
<1>1. T \subseteq Nat
  OBVIOUS
<1>2. T # {}
  OBVIOUS
<1>3. Min(T) \in T /\ \A y \in T : Min(T) <= y
  <2> HIDE DEF T
  <2>1. QED BY <1>1, <1>2, LeastNumber
<1>4. PICK x \in S : Min(T) = n - x
  BY <1>3
<1>5. \A y \in S : n - y \in T
  OBVIOUS
<1>6. \A y \in S : n - x <= n - y
  <2> HIDE DEF T
  <2>1. QED BY <1>3, <1>4, <1>5
<1>7. \A y \in S : x >= y
  <2> HIDE DEF T
  <2>1. \A y \in S : y \in Int /\ x \in Int
    OBVIOUS
  <2>2. QED BY <1>6, <2>1
<1>8. QED BY <1>7 DEF Max

(* Induction from 0 to n: Good holds the numbers that have the property.   *)
LEMMA Climb ==
  ASSUME NEW n \in Nat, NEW Good, 0 \in Good,
         \A k \in 1 .. n : k - 1 \in Good => k \in Good
  PROVE  \A k \in 0 .. n : k \in Good
<1> DEFINE Bad == {k \in 0 .. n : k \notin Good}
<1> SUFFICES ASSUME Bad # {} PROVE FALSE
  OBVIOUS
<1>1. Bad \subseteq Nat
  OBVIOUS
<1>2. Min(Bad) \in Bad /\ \A y \in Bad : Min(Bad) <= y
  <2> HIDE DEF Bad
  <2>1. QED BY <1>1, LeastNumber
<1> DEFINE m == Min(Bad)
<1>3. m \in 1 .. n /\ m \notin Good
  <2>1. m \in 0 .. n /\ m \notin Good
    BY <1>2
  <2> HIDE DEF m
  <2>2. QED BY <2>1
<1>4. m - 1 \in 0 .. n /\ m - 1 < m
  <2> HIDE DEF m
  <2>1. QED BY <1>3
<1>5. m - 1 \notin Bad
  <2>1. m - 1 \in Bad => m <= m - 1
    BY <1>2
  <2> HIDE DEF m, Bad
  <2>2. QED BY <1>3, <1>4, <2>1
<1> HIDE DEF m
<1>6. QED BY <1>3, <1>4, <1>5

-----------------------------------------------------------------------------
(* Sorting                                                                 *)

PutsInOrder(R, S) ==
  /\ \A x \in S : <<x, x>> \notin R
  /\ \A x, y, z \in S : <<x, y>> \in R /\ <<y, z>> \in R => <<x, z>> \in R
  /\ \A x, y \in S : x = y \/ <<x, y>> \in R \/ <<y, x>> \in R

(* Sorted is each element once, in the order.                              *)
LEMMA SortedInOrder ==
  ASSUME NEW S, NEW R, IsFiniteSet(S), PutsInOrder(R, S)
  PROVE  /\ Cardinality(S) \in Nat
         /\ Sorted(S, R) \in [1 .. Cardinality(S) -> S]
         /\ \A i, j \in 1 .. Cardinality(S) :
              i < j => <<Sorted(S, R)[i], Sorted(S, R)[j]>> \in R
         /\ \A x \in S : \E i \in 1 .. Cardinality(S) : Sorted(S, R)[i] = x
<1> DEFINE n        == Cardinality(S)
           below(x) == {y \in S : <<y, x>> \in R}
           rank     == [x \in S |-> Cardinality(below(x))]
           place    == [x \in S |-> rank[x] + 1]
<1>1. n \in Nat
  BY FS_CardinalityType
<1>2. \A x \in S : IsFiniteSet(below(x)) /\ rank[x] \in Nat
  <2>1. ASSUME NEW x \in S PROVE IsFiniteSet(below(x)) /\ rank[x] \in Nat
    <3>1. below(x) \in SUBSET S
      OBVIOUS
    <3> HIDE DEF below
    <3>2. QED BY <3>1, FS_Subset, FS_CardinalityType
  <2>2. QED BY <2>1
<1>3. \A x \in S : rank[x] \in Nat
  BY <1>2
<1>4. \A x \in S : rank[x] < n
  <2>1. ASSUME NEW x \in S PROVE rank[x] < n
    <3>1. below(x) \in SUBSET S /\ below(x) # S
      BY DEF PutsInOrder
    <3> HIDE DEF below
    <3>2. QED BY <1>1, <1>2, <3>1, FS_Subset
  <2>2. QED BY <2>1
<1>5. \A x, z \in S : <<x, z>> \in R => rank[x] < rank[z]
  <2>1. ASSUME NEW x \in S, NEW z \in S, <<x, z>> \in R PROVE rank[x] < rank[z]
    <3>1. below(x) \in SUBSET below(z)
      BY <2>1 DEF PutsInOrder
    <3>2. below(x) # below(z)
      BY <2>1 DEF PutsInOrder
    <3>3. IsFiniteSet(below(z))
      BY <1>2
    <3> HIDE DEF below
    <3>4. QED BY <1>2, <3>1, <3>2, <3>3, FS_Subset
  <2>2. QED BY <2>1
<1>6. \A x, z \in S : rank[x] = rank[z] => x = z
  <2>1. ASSUME NEW x \in S, NEW z \in S, rank[x] = rank[z] PROVE x = z
    <3> HIDE DEF rank
    <3>1. ~ (rank[x] < rank[z]) /\ ~ (rank[z] < rank[x])
      BY <1>3, <2>1
    <3>2. QED BY <1>5, <3>1 DEF PutsInOrder
  <2>2. QED BY <2>1
<1>7. \A k \in 1 .. n : \E x \in S : rank[x] = k - 1
  <2>1. place \in [S -> 1 .. n]
    <3> HIDE DEF rank, n
    <3>1. QED BY <1>1, <1>3, <1>4
  <2>2. place \in Injection(S, 1 .. n)
    <3> HIDE DEF rank, n
    <3>1. \A x, z \in S : place[x] = place[z] => x = z
      BY <1>3, <1>6
    <3> HIDE DEF place
    <3>2. QED BY <2>1, <3>1 DEF Injection, IsInjective
  <2>3. IsFiniteSet(1 .. n) /\ Cardinality(1 .. n) = n
    <3> HIDE DEF n
    <3>1. QED BY <1>1, FS_Interval
  <2>4. place \in Surjection(S, 1 .. n)
    <3> HIDE DEF place
    <3>1. QED BY <2>2, <2>3, FS_Injection
  <2>5. \A k \in 1 .. n : \E x \in S : place[x] = k
    <3> HIDE DEF place, n
    <3>1. QED BY <2>4 DEF Surjection
  <2>6. ASSUME NEW k \in 1 .. n PROVE \E x \in S : rank[x] = k - 1
    <3>1. PICK x \in S : place[x] = k
      BY <2>5
    <3>2. rank[x] + 1 = k /\ rank[x] \in Nat
      BY <1>3, <3>1
    <3> HIDE DEF rank, n, place
    <3>3. rank[x] = k - 1
      BY <3>2
    <3>4. QED BY <3>3
  <2>7. QED BY <2>6
<1>8. \A k \in 1 .. n : Sorted(S, R)[k] \in S /\ rank[Sorted(S, R)[k]] = k - 1
  <2>1. \A k \in 1 .. n : Sorted(S, R)[k] = CHOOSE x \in S : rank[x] = k - 1
    BY DEF Sorted
  <2> HIDE DEF rank, n
  <2>2. QED BY <1>7, <2>1
<1>9. Sorted(S, R) = [k \in 1 .. n |-> CHOOSE x \in S : Cardinality(below(x)) = k - 1]
  BY DEF Sorted
<1> DEFINE s == Sorted(S, R)
<1> HIDE DEF s
<1>10. s \in [1 .. n -> S]
  <2> HIDE DEF n, rank
  <2>1. QED BY <1>8, <1>9 DEF s
<1>11. \A i, j \in 1 .. n : i < j => <<s[i], s[j]>> \in R
  <2>1. ASSUME NEW i \in 1 .. n, NEW j \in 1 .. n, i < j PROVE <<s[i], s[j]>> \in R
    <3>1. s[i] \in S /\ s[j] \in S /\ rank[s[i]] = i - 1 /\ rank[s[j]] = j - 1
      BY <1>8 DEF s
    <3>2. s[i] # s[j] /\ ~ (rank[s[j]] < rank[s[i]])
      <4> HIDE DEF rank, n
      <4>1. QED BY <1>1, <2>1, <3>1
    <3> HIDE DEF rank, n
    <3>3. QED BY <1>5, <3>1, <3>2 DEF PutsInOrder
  <2>2. QED BY <2>1
<1>12. \A x \in S : \E i \in 1 .. n : s[i] = x
  <2>1. ASSUME NEW x \in S PROVE \E i \in 1 .. n : s[i] = x
    <3>1. rank[x] + 1 \in 1 .. n /\ rank[x] \in Nat
      <4> HIDE DEF rank, n
      <4>1. QED BY <1>1, <1>3, <1>4
    <3>2. PICK k \in 1 .. n : k = rank[x] + 1
      BY <3>1
    <3>3. s[k] \in S /\ rank[s[k]] = k - 1
      BY <1>8 DEF s
    <3> HIDE DEF rank, n
    <3>4. rank[s[k]] = rank[x]
      BY <3>1, <3>2, <3>3
    <3>5. s[k] = x
      BY <1>6, <3>3, <3>4
    <3>6. QED BY <3>5
  <2>2. QED BY <2>1
<1>13. QED BY <1>1, <1>10, <1>11, <1>12 DEF s

LEMMA AscendingRises ==
  ASSUME NEW n \in Nat, NEW I, I \subseteq 1 .. n
  PROVE  /\ IsFiniteSet(I) /\ Cardinality(I) \in Nat
         /\ Ascending(I) \in [1 .. Cardinality(I) -> I]
         /\ \A i, j \in 1 .. Cardinality(I) : i < j => Ascending(I)[i] < Ascending(I)[j]
         /\ \A x \in I : \E i \in 1 .. Cardinality(I) : Ascending(I)[i] = x
<1> DEFINE R == {p \in I \X I : p[1] < p[2]}
<1>1. IsFiniteSet(I)
  <2>1. IsFiniteSet(1 .. n)
    BY FS_Interval
  <2>2. I \in SUBSET (1 .. n)
    OBVIOUS
  <2>3. QED BY <2>1, <2>2, FS_Subset
<1>2. \A x, y \in I : <<x, y>> \in R <=> x < y
  OBVIOUS
<1>3. \A x \in I : x \in Int
  OBVIOUS
<1>4. Ascending(I) = Sorted(I, R)
  BY DEF Ascending
<1> HIDE DEF R
<1>5. PutsInOrder(R, I)
  BY <1>2, <1>3 DEF PutsInOrder
<1> DEFINE a == Sorted(I, R)
           m == Cardinality(I)
<1>6. /\ m \in Nat /\ a \in [1 .. m -> I]
      /\ \A i, j \in 1 .. m : i < j => <<a[i], a[j]>> \in R
      /\ \A x \in I : \E i \in 1 .. m : a[i] = x
  BY <1>1, <1>5, SortedInOrder
<1> HIDE DEF a, m
<1>7. \A i, j \in 1 .. m : i < j => a[i] < a[j]
  BY <1>2, <1>6
<1>8. QED BY <1>1, <1>4, <1>6, <1>7 DEF a, m

(* What is picked keeps its order: Ascending gives the positions.          *)
LEMMA PickedInOrder ==
  ASSUME NEW X, NEW s \in Seq(X), NEW I, I \subseteq DOMAIN s
  PROVE  /\ Cardinality(I) \in Nat
         /\ Ascending(I) \in [1 .. Cardinality(I) -> I]
         /\ \A i, j \in 1 .. Cardinality(I) : i < j => Ascending(I)[i] < Ascending(I)[j]
         /\ \A x \in I : \E i \in 1 .. Cardinality(I) : Ascending(I)[i] = x
         /\ Picked(s, I) = [k \in 1 .. Cardinality(I) |-> s[Ascending(I)[k]]]
         /\ Picked(s, I) \in Seq(X)
         /\ Len(Picked(s, I)) = Cardinality(I)
<1>1. Len(s) \in Nat /\ I \subseteq 1 .. Len(s)
  OBVIOUS
<1> DEFINE m  == Cardinality(I)
           at == Ascending(I)
<1>2. /\ m \in Nat /\ at \in [1 .. m -> I]
      /\ \A i, j \in 1 .. m : i < j => at[i] < at[j]
      /\ \A x \in I : \E i \in 1 .. m : at[i] = x
  BY <1>1, AscendingRises
<1>3. Picked(s, I) = [k \in DOMAIN at |-> s[at[k]]]
  BY DEF Picked
<1> HIDE DEF m, at
<1>4. Picked(s, I) = [k \in 1 .. m |-> s[at[k]]]
  BY <1>2, <1>3
<1>5. [k \in 1 .. m |-> s[at[k]]] \in Seq(X) /\ Len([k \in 1 .. m |-> s[at[k]]]) = m
  BY <1>2
<1>6. QED BY <1>2, <1>4, <1>5 DEF m, at

-----------------------------------------------------------------------------
(* Recursion and folds                                                     *)

(* What is defined at each number from its value at an earlier number      *)
(* exists: from[k] is where k looks back to.                               *)
LooksBack(n, from) == \A k \in 1 .. n : from[k] \in 0 .. k - 1

StaysIn(Acc, n, F) == \A k \in 1 .. n : \A a \in Acc : F[<<k, a>>] \in Acc

HasTrace(Acc, n, base, from, F) ==
  \E g \in [0 .. n -> Acc] :
    g[0] = base /\ \A k \in 1 .. n : g[k] = F[<<k, g[from[k]]>>]

LEMMA Traced ==
  ASSUME NEW n \in Nat, NEW Acc, NEW base \in Acc, NEW from, NEW F,
         LooksBack(n, from), StaysIn(Acc, n, F)
  PROVE  HasTrace(Acc, n, base, from, F)
<1> USE DEF LooksBack, StaysIn, HasTrace
<1> DEFINE Good == {m \in 0 .. n : \E g \in [0 .. m -> Acc] :
                      g[0] = base /\ \A k \in 1 .. m : g[k] = F[<<k, g[from[k]]>>]}
<1>1. 0 \in Good
  <2> DEFINE g == [k \in 0 .. 0 |-> base]
  <2>1. g \in [0 .. 0 -> Acc] /\ g[0] = base /\ \A k \in 1 .. 0 : g[k] = F[<<k, g[from[k]]>>]
    OBVIOUS
  <2> HIDE DEF g
  <2>2. QED BY <2>1
<1>2. ASSUME NEW m \in 1 .. n, m - 1 \in Good PROVE m \in Good
  <2>1. PICK g \in [0 .. m - 1 -> Acc] :
          g[0] = base /\ \A k \in 1 .. m - 1 : g[k] = F[<<k, g[from[k]]>>]
    BY <1>2
  <2> DEFINE h == [k \in 0 .. m |-> IF k = m THEN F[<<m, g[from[m]]>>] ELSE g[k]]
  <2>2. g[from[m]] \in Acc
    BY <2>1
  <2>3. h \in [0 .. m -> Acc]
    BY <2>1, <2>2
  <2>4. h[0] = base
    BY <2>1
  <2>5. \A k \in 1 .. m : h[k] = F[<<k, h[from[k]]>>]
    <3>1. ASSUME NEW k \in 1 .. m PROVE h[k] = F[<<k, h[from[k]]>>]
      <4>1. from[k] \in 0 .. m - 1
        <5>1. from[k] \in 0 .. k - 1
          OBVIOUS
        <5>2. QED BY <5>1
      <4>2. h[from[k]] = g[from[k]]
        BY <4>1
      <4>3. CASE k = m
        <5>1. h[m] = F[<<m, g[from[m]]>>]
          OBVIOUS
        <5> HIDE DEF h
        <5>2. QED BY <4>2, <4>3, <5>1
      <4>4. CASE k # m
        <5>1. k \in 1 .. m - 1
          BY <4>4
        <5>2. h[k] = g[k]
          BY <4>4
        <5>3. QED BY <2>1, <4>2, <5>1, <5>2
      <4>5. QED BY <4>3, <4>4
    <3>2. QED BY <3>1
  <2> HIDE DEF h
  <2>6. QED BY <2>3, <2>4, <2>5, SMTT(30)
<1>3. n \in Good
  <2> HIDE DEF Good
  <2>1. QED BY <1>1, <1>2, Climb
<1>4. QED BY <1>3

(* ... and from its value at the number before.                            *)
Stepwise(Acc, n, base, F) ==
  \E g \in [0 .. n -> Acc] : g[0] = base /\ \A k \in 1 .. n : g[k] = F[<<k, g[k - 1]>>]

LEMMA Stepped ==
  ASSUME NEW n \in Nat, NEW Acc, NEW base \in Acc, NEW F, StaysIn(Acc, n, F)
  PROVE  Stepwise(Acc, n, base, F)
<1> DEFINE from == [k \in 1 .. n |-> k - 1]
<1>1. \A k \in 1 .. n : from[k] = k - 1 /\ from[k] \in 0 .. k - 1
  OBVIOUS
<1> HIDE DEF from
<1>2. HasTrace(Acc, n, base, from, F)
  BY <1>1, Traced DEF LooksBack
<1>3. PICK g \in [0 .. n -> Acc] : g[0] = base /\ \A k \in 1 .. n : g[k] = F[<<k, g[from[k]]>>]
  BY <1>2 DEF HasTrace
<1>4. \A k \in 1 .. n : g[k] = F[<<k, g[k - 1]>>]
  BY <1>1, <1>3
<1>5. QED BY <1>3, <1>4 DEF Stepwise

-----------------------------------------------------------------------------
(* The prefixes that are kept                                              *)

(* How many of the numbers up to L are in a set; and which, if with each   *)
(* number all smaller ones are in it.                                      *)
LEMMA Counted ==
  ASSUME NEW L \in Nat, NEW D, D \subseteq 1 .. L
  PROVE  /\ Cardinality(D) \in 0 .. L
         /\ (\A k \in D : \A j \in 1 .. k : j \in D) => D = 1 .. Cardinality(D)
<1>1. IsFiniteSet(1 .. L) /\ Cardinality(1 .. L) = L /\ D \in SUBSET (1 .. L)
  BY FS_Interval
<1>2. IsFiniteSet(D) /\ Cardinality(D) <= Cardinality(1 .. L)
  BY <1>1, FS_Subset
<1>3. Cardinality(D) \in Nat
  BY <1>2, FS_CardinalityType
<1>4. Cardinality(D) \in 0 .. L
  BY <1>1, <1>2, <1>3
<1>5. ASSUME \A k \in D : \A j \in 1 .. k : j \in D PROVE D = 1 .. Cardinality(D)
  <2>1. CASE D = {}
    <3>1. Cardinality(D) = 0
      BY <2>1, FS_EmptySet
    <3>2. QED BY <2>1, <3>1
  <2>2. CASE D # {}
    <3>1. PICK g \in D : \A k \in D : g >= k
      <4>1. D \subseteq 0 .. L
        OBVIOUS
      <4>2. QED BY <2>2, <4>1, GreatestNumber
    <3>2. g \in Nat /\ D = 1 .. g
      <4>1. g \in Nat /\ \A k \in D : k \in 1 .. g
        BY <3>1
      <4>2. \A j \in 1 .. g : j \in D
        BY <1>5, <3>1
      <4>3. QED BY <4>1, <4>2
    <3>3. Cardinality(1 .. g) = g
      <4>1. Cardinality(1 .. g) = g - 1 + 1
        BY <3>2, FS_Interval
      <4>2. QED BY <3>2, <4>1
    <3>4. QED BY <3>2, <3>3
  <2>3. QED BY <2>1, <2>2
<1>6. QED BY <1>4, <1>5

(* The patience algorithm's lists after p of the items.                    *)
Piles == [tails : Seq(Nat), previous : Seq(Nat)]

Piled(items, p, a) ==
  /\ p > 0 => Len(a.tails) > 0
  /\ \A k \in 1 .. Len(a.tails) : a.tails[k] \in 1 .. p
  /\ \A k, l \in 1 .. Len(a.tails) :
       k <= l => items[a.tails[k]].slack <= items[a.tails[l]].slack
  /\ Len(a.previous) = p
  /\ \A q \in 1 .. p :
       /\ a.previous[q] \in 0 .. q - 1
       /\ a.previous[q] # 0 => items[a.previous[q]].slack <= items[q].slack

(* The number of the pile that each item went to: it rises along items     *)
(* whose slacks do not decrease, and the item before is one pile below.    *)
Ranked(items, p, a) ==
  \E rank \in [1 .. p -> 1 .. Len(a.tails)] :
    /\ \A q \in 1 .. p : items[a.tails[rank[q]]].slack <= items[q].slack
    /\ \A q, r \in 1 .. p :
         q < r /\ items[q].slack <= items[r].slack => rank[q] < rank[r]
    /\ \A k \in 1 .. Len(a.tails) : rank[a.tails[k]] = k
    /\ \A q \in 1 .. p :
         /\ a.previous[q] = 0 => rank[q] = 1
         /\ a.previous[q] # 0 => rank[a.previous[q]] = rank[q] - 1

PlaceItem(items, a, p) ==
  LET shorter == {k \in DOMAIN a.tails : items[a.tails[k]].slack <= items[p].slack}
      slot    == Cardinality(shorter)
  IN  [tails    |-> IF slot = Len(a.tails)
                      THEN Append(a.tails, p)
                      ELSE [a.tails EXCEPT ![slot + 1] = p],
       previous |-> Append(a.previous, IF slot > 0 THEN a.tails[slot] ELSE 0)]

LEMMA PlacedInPiles ==
  ASSUME NEW items, NEW a \in Piles, NEW p \in Nat
  PROVE  PlaceItem(items, a, p) \in Piles
<1> DEFINE shorter == {k \in DOMAIN a.tails : items[a.tails[k]].slack <= items[p].slack}
           slot    == Cardinality(shorter)
<1>1. /\ a.tails \in Seq(Nat) /\ Len(a.tails) \in Nat /\ a.previous \in Seq(Nat)
      /\ shorter \subseteq 1 .. Len(a.tails)
  BY DEF Piles
<1>2. slot \in 0 .. Len(a.tails)
  <2> HIDE DEF shorter
  <2>1. QED BY <1>1, Counted
<1>3. PlaceItem(items, a, p) =
        [tails    |-> IF slot = Len(a.tails)
                        THEN Append(a.tails, p)
                        ELSE [a.tails EXCEPT ![slot + 1] = p],
         previous |-> Append(a.previous, IF slot > 0 THEN a.tails[slot] ELSE 0)]
  BY DEF PlaceItem
<1> HIDE DEF slot
<1>4. Append(a.previous, IF slot > 0 THEN a.tails[slot] ELSE 0) \in Seq(Nat)
  BY <1>1, <1>2
<1>5. Append(a.tails, p) \in Seq(Nat) /\ [a.tails EXCEPT ![slot + 1] = p] \in Seq(Nat)
  <2> DEFINE t == a.tails
  <2> HIDE DEF t
  <2>1. t \in Seq(Nat) /\ Len(t) \in Nat
    BY <1>1 DEF t
  <2>2. Append(t, p) \in Seq(Nat)
    BY <2>1
  <2>3. \A x : [t EXCEPT ![x] = p] \in Seq(Nat)
    <3>1. t \in [1 .. Len(t) -> Nat]
      BY <2>1
    <3> DEFINE m == Len(t)
    <3>2. m \in Nat
      BY <2>1
    <3> HIDE DEF m
    <3>3. t \in [1 .. m -> Nat]
      BY <3>1 DEF m
    <3>4. \A x : [t EXCEPT ![x] = p] \in [1 .. m -> Nat]
      BY <3>3
    <3>5. QED BY <3>2, <3>4
  <2>4. QED BY <2>2, <2>3 DEF t
<1>6. QED BY <1>3, <1>4, <1>5 DEF Piles

LEMMA StaysPiled ==
  ASSUME NEW items, NEW p \in Nat \ {0}, \A k \in 1 .. p : items[k].slack \in Int,
         NEW a \in Piles, Piled(items, p - 1, a), Ranked(items, p - 1, a)
  PROVE  /\ Piled(items, p, PlaceItem(items, a, p))
         /\ Ranked(items, p, PlaceItem(items, a, p))
<1> DEFINE t       == a.tails
           m       == Len(t)
           z       == [k \in 1 .. p |-> items[k].slack]
           shorter == {k \in DOMAIN t : items[t[k]].slack <= items[p].slack}
           slot    == Cardinality(shorter)
           tails   == IF slot = m THEN Append(t, p) ELSE [t EXCEPT ![slot + 1] = p]
           last    == IF slot > 0 THEN t[slot] ELSE 0
           prev    == Append(a.previous, last)
           b       == PlaceItem(items, a, p)
<1>1. t \in Seq(Nat) /\ m \in Nat /\ DOMAIN t = 1 .. m /\ a.previous \in Seq(Nat)
  BY DEF Piles
<1>2. b.tails = tails /\ b.previous = prev
  BY DEF PlaceItem
<1>3. \A k \in 1 .. p : z[k] = items[k].slack /\ z[k] \in Int
  OBVIOUS
<1>4. \A k \in 1 .. m : t[k] \in 1 .. p - 1
  BY DEF Piled
<1>5. \A k, l \in 1 .. m : k <= l => items[t[k]].slack <= items[t[l]].slack
  BY DEF Piled
<1>6. shorter = {k \in 1 .. m : items[t[k]].slack <= items[p].slack}
  BY <1>1
<1>7. Len(a.previous) = p - 1 /\ \A q \in 1 .. p - 1 :
         /\ a.previous[q] \in 0 .. q - 1
         /\ a.previous[q] # 0 => items[a.previous[q]].slack <= items[q].slack
  BY DEF Piled
<1>8. PICK R \in [1 .. p - 1 -> 1 .. m] :
         /\ \A q \in 1 .. p - 1 : items[t[R[q]]].slack <= items[q].slack
         /\ \A q, r \in 1 .. p - 1 :
              q < r /\ items[q].slack <= items[r].slack => R[q] < R[r]
         /\ \A k \in 1 .. m : R[t[k]] = k
         /\ \A q \in 1 .. p - 1 :
              /\ a.previous[q] = 0 => R[q] = 1
              /\ a.previous[q] # 0 => R[a.previous[q]] = R[q] - 1
  BY DEF Ranked
<1> HIDE DEF t, m, z, shorter
<1>9. p \in 1 .. p /\ \A k \in 1 .. m : t[k] \in 1 .. p /\ items[t[k]].slack = z[t[k]]
  BY <1>3, <1>4
<1>10. \A k, l \in 1 .. m : k <= l => z[t[k]] <= z[t[l]]
  BY <1>5, <1>9
<1>11. shorter = {k \in 1 .. m : z[t[k]] <= z[p]}
  BY <1>3, <1>6, <1>9
<1>12. slot \in 0 .. m /\ shorter = 1 .. slot
  <2>1. \A k \in shorter : \A j \in 1 .. k : j \in shorter
    <3>1. ASSUME NEW k \in shorter, NEW j \in 1 .. k PROVE j \in shorter
      <4>1. k \in 1 .. m /\ z[t[k]] <= z[p]
        BY <1>11, <3>1
      <4>2. j \in 1 .. m /\ j <= k
        BY <1>1, <4>1
      <4>3. z[t[j]] <= z[t[k]]
        BY <1>10, <4>1, <4>2
      <4>4. z[t[j]] \in Int /\ z[t[k]] \in Int /\ z[p] \in Int
        BY <1>3, <1>9, <4>1, <4>2
      <4>5. z[t[j]] <= z[p]
        BY <4>1, <4>3, <4>4
      <4>6. QED BY <1>11, <4>2, <4>5
    <3>2. QED BY <3>1
  <2>2. shorter \subseteq 1 .. m
    BY <1>11
  <2>3. QED BY <1>1, <2>1, <2>2, Counted
<1>13. last = IF slot > 0 THEN t[slot] ELSE 0
  OBVIOUS
<1> HIDE DEF slot
<1>14. \A k \in 1 .. m : k <= slot <=> z[t[k]] <= z[p]
  <2>1. \A k \in 1 .. m : k \in shorter <=> z[t[k]] <= z[p]
    BY <1>11
  <2>2. QED BY <1>1, <1>12, <2>1
<1>15. last \in 0 .. p - 1 /\ (last # 0 => z[last] <= z[p])
  <2>1. CASE slot > 0
    <3>1. slot \in 1 .. m
      BY <1>1, <1>12, <2>1
    <3>2. t[slot] \in 1 .. p - 1 /\ z[t[slot]] <= z[p]
      BY <1>1, <1>4, <1>14, <3>1
    <3>3. QED BY <2>1, <3>2
  <2>2. CASE ~ (slot > 0)
    BY <2>2
  <2>3. QED BY <2>1, <2>2
<1>16. /\ tails \in Seq(Nat) /\ Len(tails) \in Nat /\ slot + 1 \in 1 .. Len(tails)
       /\ tails[slot + 1] = p
       /\ \A k \in 1 .. Len(tails) : k # slot + 1 => k \in 1 .. m /\ tails[k] = t[k]
  <2>1. CASE slot = m
    <3>1. tails = Append(t, p) /\ Len(t) = m
      BY <2>1 DEF m
    <3>2. /\ Append(t, p) \in Seq(Nat) /\ Len(Append(t, p)) = m + 1
          /\ Append(t, p)[m + 1] = p
          /\ \A k \in 1 .. m : Append(t, p)[k] = t[k]
      BY <1>1, <3>1
    <3> HIDE DEF tails
    <3>3. QED BY <1>1, <2>1, <3>1, <3>2
  <2>2. CASE slot # m
    <3>1. tails = [t EXCEPT ![slot + 1] = p]
      BY <2>2
    <3>2. t \in [1 .. m -> Nat]
      BY <1>1 DEF m
    <3>3. slot + 1 \in 1 .. m
      BY <1>1, <1>12, <2>2
    <3> HIDE DEF tails
    <3>4. tails \in [1 .. m -> Nat]
      BY <3>1, <3>2
    <3>5. tails[slot + 1] = p /\ \A k \in 1 .. m : k # slot + 1 => tails[k] = t[k]
      BY <3>1, <3>2, <3>3
    <3>6. tails \in Seq(Nat) /\ Len(tails) = m
      BY <1>1, <3>4
    <3>7. QED BY <1>1, <3>3, <3>5, <3>6
  <2>3. QED BY <2>1, <2>2
<1>17. m <= Len(tails)
  <2>1. CASE slot = m
    <3>1. Len(Append(t, p)) = Len(t) + 1 /\ Len(t) = m
      BY <1>1 DEF m
    <3>2. tails = Append(t, p)
      BY <2>1
    <3> HIDE DEF tails
    <3>3. QED BY <1>1, <3>1, <3>2
  <2>2. CASE slot # m
    <3>1. tails = [t EXCEPT ![slot + 1] = p]
      BY <2>2
    <3>2. t \in [1 .. m -> Nat]
      BY <1>1 DEF m
    <3> HIDE DEF tails
    <3>3. tails \in [1 .. m -> Nat]
      BY <3>1, <3>2
    <3>4. QED BY <1>1, <3>3
  <2>3. QED BY <2>1, <2>2
<1> HIDE DEF tails, last
<1>18. \A k \in 1 .. Len(tails) : tails[k] \in 1 .. p
  BY <1>9, <1>16
<1>19. ASSUME NEW k \in 1 .. Len(tails), NEW l \in 1 .. Len(tails), k <= l
       PROVE  z[tails[k]] <= z[tails[l]]
  <2>1. z[p] \in Int /\ z[tails[k]] \in Int /\ z[tails[l]] \in Int
    BY <1>3, <1>9, <1>18
  <2>2. CASE k = slot + 1 /\ l = slot + 1
    BY <2>1, <2>2
  <2>3. CASE k = slot + 1 /\ l # slot + 1
    <3>1. l \in 1 .. m /\ ~ (l <= slot) /\ tails[l] = t[l]
      BY <1>12, <1>16, <1>19, <2>3
    <3>2. ~ (z[tails[l]] <= z[p]) /\ tails[k] = p
      BY <1>14, <1>16, <2>3, <3>1
    <3>3. QED BY <2>1, <3>2
  <2>4. CASE k # slot + 1 /\ l = slot + 1
    <3>1. k \in 1 .. m /\ k <= slot /\ tails[k] = t[k]
      BY <1>12, <1>16, <1>19, <2>4
    <3>2. QED BY <1>14, <1>16, <2>4, <3>1
  <2>5. CASE k # slot + 1 /\ l # slot + 1
    BY <1>10, <1>16, <1>19, <2>5
  <2>6. QED BY <2>2, <2>3, <2>4, <2>5
<1>20. Len(prev) = p /\ prev[p] = last /\ \A q \in 1 .. p - 1 : prev[q] = a.previous[q]
  <2>1. last \in Nat
    BY <1>15
  <2>2. QED BY <1>1, <1>7, <2>1
<1> HIDE DEF prev
<1>21. \A q \in 1 .. p :
         /\ prev[q] \in 0 .. q - 1
         /\ prev[q] # 0 => items[prev[q]].slack <= items[q].slack
  <2>1. ASSUME NEW q \in 1 .. p
        PROVE  /\ prev[q] \in 0 .. q - 1
               /\ prev[q] # 0 => items[prev[q]].slack <= items[q].slack
    <3>1. CASE q = p
      <4>1. prev[q] = last /\ (last # 0 => last \in 1 .. p)
        BY <1>15, <1>20, <3>1
      <4>2. QED BY <1>3, <1>9, <1>15, <3>1, <4>1
    <3>2. CASE q # p
      <4>1. q \in 1 .. p - 1
        BY <3>2
      <4>2. QED BY <1>7, <1>20, <4>1
    <3>3. QED BY <3>1, <3>2
  <2>2. QED BY <2>1
<1> DEFINE rank == [q \in 1 .. p |-> IF q = p THEN slot + 1 ELSE R[q]]
<1>22. rank[p] = slot + 1 /\ \A q \in 1 .. p : q # p => q \in 1 .. p - 1 /\ rank[q] = R[q]
  OBVIOUS
<1>23. /\ \A q \in 1 .. p - 1 : R[q] \in 1 .. m /\ z[t[R[q]]] <= z[q]
       /\ m <= Len(tails)
  <2>1. \A q \in 1 .. p - 1 : q \in 1 .. p /\ R[q] \in 1 .. m
    BY <1>8
  <2>2. QED BY <1>3, <1>9, <1>8, <1>17, <2>1
<1>24. rank \in [1 .. p -> 1 .. Len(tails)]
  <2>1. \A q \in 1 .. p - 1 : R[q] \in 1 .. Len(tails)
    BY <1>1, <1>16, <1>23
  <2>2. QED BY <1>16, <2>1
<1> HIDE DEF rank
<1>25. \A q \in 1 .. p : z[tails[rank[q]]] <= z[q]
  <2> SUFFICES ASSUME NEW q \in 1 .. p PROVE z[tails[rank[q]]] <= z[q]
    OBVIOUS
  <2>1. CASE q = p
    BY <1>3, <1>9, <1>16, <1>22, <2>1
  <2>2. CASE q # p /\ rank[q] # slot + 1
    <3>1. q \in 1 .. p - 1 /\ rank[q] = R[q] /\ rank[q] \in 1 .. Len(tails)
      BY <1>22, <1>24, <2>2
    <3>2. tails[rank[q]] = t[R[q]]
      BY <1>16, <2>2, <3>1
    <3>3. QED BY <1>23, <3>1, <3>2
  <2>3. CASE q # p /\ rank[q] = slot + 1
    <3>1. q \in 1 .. p - 1 /\ R[q] = slot + 1 /\ R[q] \in 1 .. m /\ z[t[R[q]]] <= z[q]
      BY <1>22, <1>23, <2>3
    <3>2. ~ (z[t[R[q]]] <= z[p])
      BY <1>12, <1>14, <3>1
    <3>3. z[t[R[q]]] \in Int /\ z[p] \in Int /\ z[q] \in Int
      BY <1>3, <1>9, <3>1
    <3>4. tails[rank[q]] = p
      BY <1>16, <2>3
    <3>5. QED BY <3>1, <3>2, <3>3, <3>4
  <2>4. QED BY <2>1, <2>2, <2>3
<1>26. \A q, r \in 1 .. p : q < r /\ z[q] <= z[r] => rank[q] < rank[r]
  <2> SUFFICES ASSUME NEW q \in 1 .. p, NEW r \in 1 .. p, q < r, z[q] <= z[r]
               PROVE  rank[q] < rank[r]
    OBVIOUS
  <2>1. q \in 1 .. p - 1 /\ rank[q] = R[q]
    BY <1>22
  <2>2. CASE r = p
    <3>1. R[q] \in 1 .. m /\ z[t[R[q]]] <= z[q]
      BY <1>23, <2>1
    <3>2. z[t[R[q]]] \in Int /\ z[p] \in Int /\ z[q] \in Int
      BY <1>3, <1>9, <3>1
    <3>3. z[t[R[q]]] <= z[p]
      BY <2>2, <3>1, <3>2
    <3>4. R[q] <= slot
      BY <1>14, <3>1, <3>3
    <3>5. QED BY <1>1, <1>12, <1>22, <2>1, <2>2, <3>1, <3>4
  <2>3. CASE r # p
    <3>1. r \in 1 .. p - 1 /\ rank[r] = R[r]
      BY <1>22, <2>3
    <3>2. items[q].slack <= items[r].slack
      BY <1>3
    <3>3. QED BY <1>8, <2>1, <3>1, <3>2
  <2>4. QED BY <2>2, <2>3
<1>27. \A k \in 1 .. Len(tails) : rank[tails[k]] = k
  <2> SUFFICES ASSUME NEW k \in 1 .. Len(tails) PROVE rank[tails[k]] = k
    OBVIOUS
  <2>1. CASE k = slot + 1
    BY <1>16, <1>22, <2>1
  <2>2. CASE k # slot + 1
    <3>1. k \in 1 .. m /\ tails[k] = t[k]
      BY <1>16, <2>2
    <3>2. t[k] \in 1 .. p /\ t[k] # p
      BY <1>4, <3>1
    <3>3. QED BY <1>8, <1>22, <3>1, <3>2
  <2>3. QED BY <2>1, <2>2
<1>28. \A q \in 1 .. p :
         /\ prev[q] = 0 => rank[q] = 1
         /\ prev[q] # 0 => rank[prev[q]] = rank[q] - 1
  <2> SUFFICES ASSUME NEW q \in 1 .. p
               PROVE  /\ prev[q] = 0 => rank[q] = 1
                      /\ prev[q] # 0 => rank[prev[q]] = rank[q] - 1
    OBVIOUS
  <2>1. CASE q = p
    <3>1. prev[q] = last /\ rank[q] = slot + 1
      BY <1>20, <1>22, <2>1
    <3>2. slot = 0 => rank[q] = 1 /\ prev[q] = 0
      BY <1>13, <3>1
    <3>3. slot # 0 => /\ slot \in 1 .. m /\ prev[q] = t[slot] /\ t[slot] \in 1 .. p - 1
      BY <1>1, <1>4, <1>12, <1>13, <3>1
    <3>4. slot # 0 => prev[q] # 0 /\ rank[prev[q]] = slot
      <4>1. ASSUME slot # 0 PROVE prev[q] # 0 /\ rank[prev[q]] = slot
        <5>1. slot \in 1 .. m /\ prev[q] = t[slot] /\ t[slot] \in 1 .. p /\ t[slot] # p
          BY <3>3, <4>1
        <5>2. rank[t[slot]] = R[t[slot]] /\ R[t[slot]] = slot /\ t[slot] # 0
          BY <1>8, <1>22, <5>1
        <5>3. QED BY <5>1, <5>2
      <4>2. QED BY <4>1
    <3>5. rank[q] - 1 = slot
      BY <1>12, <3>1
    <3>6. QED BY <3>2, <3>4, <3>5
  <2>2. CASE q # p
    <3>1. q \in 1 .. p - 1 /\ prev[q] = a.previous[q] /\ rank[q] = R[q]
      BY <1>20, <1>22, <2>2
    <3>2. prev[q] # 0 => prev[q] \in 1 .. p /\ prev[q] # p
      <4>1. prev[q] \in 0 .. q - 1
        BY <1>7, <3>1
      <4>2. QED BY <3>1, <4>1
    <3>3. prev[q] # 0 => rank[prev[q]] = R[prev[q]]
      BY <1>22, <3>2
    <3>4. QED BY <1>8, <3>1, <3>3
  <2>3. QED BY <2>1, <2>2
<1> HIDE DEF b
<1>29. Ranked(items, p, b)
  <2>1. \A q \in 1 .. p : items[tails[rank[q]]].slack <= items[q].slack
    <3>1. \A q \in 1 .. p : tails[rank[q]] \in 1 .. p
      BY <1>18, <1>24
    <3>2. QED BY <1>3, <1>25, <3>1
  <2>2. \A q, r \in 1 .. p :
          q < r /\ items[q].slack <= items[r].slack => rank[q] < rank[r]
    BY <1>3, <1>26
  <2>3. QED BY <1>2, <1>24, <1>27, <1>28, <2>1, <2>2 DEF Ranked
<1>30. Len(b.tails) > 0 /\ \A k \in 1 .. Len(b.tails) : b.tails[k] \in 1 .. p
  BY <1>2, <1>16, <1>18
<1>31. \A k, l \in 1 .. Len(b.tails) :
         k <= l => items[b.tails[k]].slack <= items[b.tails[l]].slack
  BY <1>2, <1>3, <1>18, <1>19
<1>32. Piled(items, p, b)
  BY <1>2, <1>20, <1>21, <1>30, <1>31 DEF Piled
<1>33. QED BY <1>32, <1>29 DEF b

(* The lists that the patience algorithm ends with.                        *)
LEMMA PilesBuilt ==
  ASSUME NEW items \in Seq([index : Int, slack : Int])
  PROVE  LET piles == CHOOSE f : f = [p \in 0 .. Len(items) |->
                        IF p = 0 THEN [tails |-> <<>>, previous |-> <<>>]
                                 ELSE PlaceItem(items, f[p - 1], p)]
         IN  /\ piles[Len(items)] \in Piles
             /\ Piled(items, Len(items), piles[Len(items)])
             /\ Ranked(items, Len(items), piles[Len(items)])
<1> DEFINE N     == Len(items)
           base  == [tails |-> <<>>, previous |-> <<>>]
           F     == [x \in (1 .. N) \X Piles |-> PlaceItem(items, x[2], x[1])]
           from  == [k \in 1 .. N |-> k - 1]
           Body(f) == [p \in 0 .. N |-> IF p = 0 THEN base ELSE PlaceItem(items, f[p - 1], p)]
           piles == CHOOSE f : f = Body(f)
<1>1. N \in Nat /\ \A k \in 1 .. N : items[k].slack \in Int
  <2> DEFINE R == [index : Int, slack : Int]
  <2>1. \A r \in R : r.slack \in Int
    OBVIOUS
  <2>2. items \in Seq(R)
    OBVIOUS
  <2> HIDE DEF R
  <2>3. QED BY <2>1, <2>2
<1>2. base \in Piles
  BY DEF Piles
<1>3. \A k \in 1 .. N : \A a \in Piles : F[<<k, a>>] = PlaceItem(items, a, k)
  OBVIOUS
<1>4. \A k \in 1 .. N : \A a \in Piles : PlaceItem(items, a, k) \in Piles
  BY <1>1, PlacedInPiles
<1> HIDE DEF N, base, F, from
<1>5. \E g \in [0 .. N -> Piles] :
        g[0] = base /\ \A k \in 1 .. N : g[k] = PlaceItem(items, g[k - 1], k)
  <2>1. \A k \in 1 .. N : \A a \in Piles : F[<<k, a>>] \in Piles
    BY <1>3, <1>4
  <2>2. \A k \in 1 .. N : from[k] = k - 1 /\ from[k] \in 0 .. k - 1
    BY <1>1 DEF from
  <2>3. PICK g \in [0 .. N -> Piles] :
          g[0] = base /\ \A k \in 1 .. N : g[k] = F[<<k, g[from[k]]>>]
    <3>1. HasTrace(Piles, N, base, from, F)
      <4>1. LooksBack(N, from) /\ StaysIn(Piles, N, F)
        BY <2>1, <2>2 DEF LooksBack, StaysIn
      <4>2. QED BY <1>1, <1>2, <4>1, Traced
    <3>2. QED BY <3>1 DEF HasTrace
  <2>4. \A k \in 1 .. N : k - 1 \in 0 .. N
    BY <1>1
  <2>5. \A k \in 1 .. N : g[k] = PlaceItem(items, g[k - 1], k)
    BY <1>3, <2>2, <2>3, <2>4
  <2>6. QED BY <2>3, <2>5
<1>6. piles = Body(piles)
  <2>1. PICK g \in [0 .. N -> Piles] :
          g[0] = base /\ \A k \in 1 .. N : g[k] = PlaceItem(items, g[k - 1], k)
    BY <1>5
  <2>2. g = Body(g)
    BY <1>1, <2>1
  <2> HIDE DEF Body
  <2>3. QED BY <2>2
<1> HIDE DEF piles
<1>7. piles[0] = base /\ \A k \in 1 .. N : piles[k] = PlaceItem(items, piles[k - 1], k)
  BY <1>1, <1>6
<1> DEFINE Good == {k \in 0 .. N : /\ piles[k] \in Piles
                                   /\ Piled(items, k, piles[k]) /\ Ranked(items, k, piles[k])}
<1>8. 0 \in Good
  <2>1. 0 \in 0 .. N
    BY <1>1
  <2>2. Piled(items, 0, base)
    BY DEF Piled, base
  <2>3. Ranked(items, 0, base)
    <3> DEFINE none == [q \in 1 .. 0 |-> 0]
    <3>1. none \in [1 .. 0 -> 1 .. 0] /\ base.tails = <<>> /\ Len(base.tails) = 0
      BY DEF base
    <3> HIDE DEF none
    <3>2. \A q \in 1 .. 0 : FALSE
      OBVIOUS
    <3>3. \A q \in 1 .. Len(base.tails) : FALSE
      BY <3>1, <3>2
    <3>4. none \in [1 .. 0 -> 1 .. Len(base.tails)]
      BY <3>1
    <3>5. QED BY <3>2, <3>3, <3>4, Zenon DEF Ranked
  <2>4. QED BY <1>2, <1>7, <2>1, <2>2, <2>3
<1>9. ASSUME NEW k \in 1 .. N, k - 1 \in Good PROVE k \in Good
  <2>1. /\ piles[k - 1] \in Piles
        /\ Piled(items, k - 1, piles[k - 1]) /\ Ranked(items, k - 1, piles[k - 1])
    BY <1>9
  <2>2. k \in Nat \ {0} /\ k \in 0 .. N /\ \A j \in 1 .. k : j \in 1 .. N
    BY <1>1
  <2>3. /\ Piled(items, k, PlaceItem(items, piles[k - 1], k))
        /\ Ranked(items, k, PlaceItem(items, piles[k - 1], k))
    BY <1>1, <2>1, <2>2, StaysPiled
  <2>4. QED BY <1>4, <1>7, <2>1, <2>2, <2>3
<1>10. N \in Good
  <2> HIDE DEF Good
  <2>1. \A k \in 1 .. N : k - 1 \in Good => k \in Good
    BY <1>9
  <2>2. \A k \in 0 .. N : k \in Good
    BY <1>1, <1>8, <2>1, Climb
  <2>3. QED BY <1>1, <2>2
<1>11. piles[N] \in Piles /\ Piled(items, N, piles[N]) /\ Ranked(items, N, piles[N])
  BY <1>10
<1>12. QED BY <1>11 DEF piles, N, base

(* Positions along which the slacks do not decrease.                       *)
Rising(items, S) == \A i, j \in S : i < j => items[i].slack <= items[j].slack

(* What is kept does not decrease along the way, and nothing that does not *)
(* decrease is longer.                                                     *)
LEMMA LongestIsLongest ==
  ASSUME NEW items \in Seq([index : Int, slack : Int])
  PROVE  \E S \in SUBSET (1 .. Len(items)) :
           /\ LongestNonDecreasing(items) = {items[i].index : i \in S}
           /\ Rising(items, S)
           /\ \A T \in SUBSET (1 .. Len(items)) :
                Rising(items, T) => Cardinality(T) <= Cardinality(S)
<1> DEFINE N     == Len(items)
           place(acc, pos) ==
             LET shorter == {k \in DOMAIN acc.tails :
                               items[acc.tails[k]].slack <= items[pos].slack}
                 slot    == Cardinality(shorter)
             IN  [tails    |-> IF slot = Len(acc.tails)
                                 THEN Append(acc.tails, pos)
                                 ELSE [acc.tails EXCEPT ![slot + 1] = pos],
                  previous |-> Append(acc.previous,
                                      IF slot > 0 THEN acc.tails[slot] ELSE 0)]
           piles == CHOOSE f : f = [p \in 0 .. Len(items) |->
                      IF p = 0 THEN [tails |-> <<>>, previous |-> <<>>] ELSE place(f[p - 1], p)]
           done  == piles[Len(items)]
           Body(f) == [p \in 0 .. Len(items) |->
                         IF p = 0 THEN {} ELSE {items[p].index} \cup f[done.previous[p]]]
           chain == CHOOSE f : f = Body(f)
<1>1. /\ items # <<>> => LongestNonDecreasing(items) = chain[done.tails[Len(done.tails)]]
      /\ items = <<>> => LongestNonDecreasing(items) = {}
  BY DEF LongestNonDecreasing, Last
<1>2. done \in Piles /\ Piled(items, N, done) /\ Ranked(items, N, done)
  <2>1. done = (CHOOSE f : f = [p \in 0 .. Len(items) |->
                  IF p = 0 THEN [tails |-> <<>>, previous |-> <<>>]
                           ELSE PlaceItem(items, f[p - 1], p)])[Len(items)]
    BY DEF PlaceItem
  <2>2. QED BY <2>1, PilesBuilt
<1> HIDE DEF done
<1>3. N \in Nat /\ \A k \in 1 .. N : items[k].index \in Int /\ items[k].slack \in Int
  <2> DEFINE R == [index : Int, slack : Int]
  <2>1. \A r \in R : r.index \in Int /\ r.slack \in Int
    OBVIOUS
  <2>2. items \in Seq(R)
    OBVIOUS
  <2> HIDE DEF R
  <2>3. QED BY <2>1, <2>2
<1> DEFINE prev == done.previous
           F    == [x \in (1 .. N) \X SUBSET Int |-> {items[x[1]].index} \cup x[2]]
<1>4. \A k \in 1 .. N : prev[k] \in 0 .. k - 1
                        /\ (prev[k] # 0 => items[prev[k]].slack <= items[k].slack)
  BY <1>2 DEF Piled
<1>5. Body(chain) = [p \in 0 .. N |-> IF p = 0 THEN {} ELSE {items[p].index} \cup chain[prev[p]]]
  OBVIOUS
<1> HIDE DEF N, prev
<1>6. \E g : g = [p \in 0 .. N |-> IF p = 0 THEN {} ELSE {items[p].index} \cup g[prev[p]]]
  <2>1. \A k \in 1 .. N : \A a \in SUBSET Int : F[<<k, a>>] = {items[k].index} \cup a
    OBVIOUS
  <2>2. \A k \in 1 .. N : \A a \in SUBSET Int : F[<<k, a>>] \in SUBSET Int
    BY <1>3, <2>1
  <2>3. {} \in SUBSET Int
    OBVIOUS
  <2> HIDE DEF F
  <2>4. PICK g \in [0 .. N -> SUBSET Int] :
          g[0] = {} /\ \A k \in 1 .. N : g[k] = F[<<k, g[prev[k]]>>]
    <3>1. HasTrace(SUBSET Int, N, {}, prev, F)
      <4>1. LooksBack(N, prev) /\ StaysIn(SUBSET Int, N, F)
        BY <1>4, <2>2 DEF LooksBack, StaysIn
      <4>2. QED BY <1>3, <2>3, <4>1, Traced
    <3>2. QED BY <3>1 DEF HasTrace
  <2>5. \A k \in 1 .. N : prev[k] \in 0 .. N
    BY <1>3, <1>4
  <2>6. \A k \in 1 .. N : g[k] = {items[k].index} \cup g[prev[k]]
    BY <2>1, <2>4, <2>5
  <2>7. g = [p \in 0 .. N |-> IF p = 0 THEN {} ELSE {items[p].index} \cup g[prev[p]]]
    BY <1>3, <2>4, <2>6
  <2>8. QED BY <2>7
<1>7. chain = Body(chain)
  <2>1. \E g : g = Body(g)
    BY <1>6 DEF N, prev
  <2> HIDE DEF Body
  <2>2. QED BY <2>1
<1>8. chain = [p \in 0 .. N |-> IF p = 0 THEN {} ELSE {items[p].index} \cup chain[prev[p]]]
  BY <1>5, <1>7, Zenon
<1> HIDE DEF chain
<1>9. chain[0] = {} /\ \A k \in 1 .. N : chain[k] = {items[k].index} \cup chain[prev[k]]
  <2>1. \A p \in 0 .. N : chain[p] = IF p = 0 THEN {} ELSE {items[p].index} \cup chain[prev[p]]
    BY <1>8, Zenon
  <2>2. 0 \in 0 .. N /\ \A k \in 1 .. N : k \in 0 .. N /\ k # 0
    BY <1>3
  <2>3. QED BY <2>1, <2>2
<1> DEFINE L == Len(done.tails)
<1>10. PICK R \in [1 .. N -> 1 .. L] :
         /\ \A q, r \in 1 .. N :
              q < r /\ items[q].slack <= items[r].slack => R[q] < R[r]
         /\ \A k \in 1 .. L : R[done.tails[k]] = k
         /\ \A q \in 1 .. N :
              /\ prev[q] = 0 => R[q] = 1
              /\ prev[q] # 0 => R[prev[q]] = R[q] - 1
  BY <1>2 DEF Ranked, prev
<1>11. L \in Nat
  BY <1>2 DEF Piles
<1> HIDE DEF L
<1> DEFINE Kept(k, S) == /\ chain[k] = {items[i].index : i \in S}
                         /\ IsFiniteSet(S) /\ Cardinality(S) = IF k = 0 THEN 0 ELSE R[k]
                         /\ k # 0 => k \in S
                         /\ \A i, j \in S : i < j => items[i].slack <= items[j].slack
                         /\ \A i \in S : items[i].slack <= items[k].slack
           Good == {m \in 0 .. N : \A k \in 0 .. m : \E S \in SUBSET (1 .. k) : Kept(k, S)}
<1>12. 0 \in Good
  <2>1. Kept(0, {})
    BY <1>9, FS_EmptySet
  <2>2. \A k \in 0 .. 0 : k = 0 /\ {} \in SUBSET (1 .. k)
    OBVIOUS
  <2>3. 0 \in 0 .. N
    BY <1>3
  <2> HIDE DEF Kept
  <2>4. QED BY <2>1, <2>2, <2>3
<1>13. ASSUME NEW m \in 1 .. N, m - 1 \in Good PROVE m \in Good
  <2>1. \A k \in 0 .. m - 1 : \E S \in SUBSET (1 .. k) : Kept(k, S)
    BY <1>13
  <2>2. prev[m] \in 0 .. m - 1
    BY <1>4
  <2>3. PICK S \in SUBSET (1 .. prev[m]) : Kept(prev[m], S)
    <3> HIDE DEF Kept
    <3>1. QED BY <2>1, <2>2
  <2> DEFINE T == S \cup {m}
  <2>4. T \in SUBSET (1 .. m)
    BY <1>3, <2>2, <2>3
  <2>5. Kept(m, T)
    <3>1. chain[m] = {items[i].index : i \in T}
      <4>1. chain[m] = {items[m].index} \cup chain[prev[m]]
        BY <1>9
      <4>2. chain[prev[m]] = {items[i].index : i \in S}
        BY <2>3
      <4>3. QED BY <4>1, <4>2
    <3>2. \A i \in S : i \in 1 .. N /\ i < m /\ items[i].slack <= items[m].slack
      <4>1. ASSUME NEW i \in S PROVE i \in 1 .. N /\ i < m /\ items[i].slack <= items[m].slack
        <5>1. i \in 1 .. prev[m] /\ items[i].slack <= items[prev[m]].slack
          BY <2>3
        <5>2. i \in 1 .. N /\ i < m /\ prev[m] \in 1 .. N /\ prev[m] # 0
          <6>1. N \in Nat /\ m \in 1 .. N /\ prev[m] \in 0 .. m - 1 /\ i \in 1 .. prev[m]
            BY <1>3, <2>2, <5>1
          <6> DEFINE q == prev[m]
          <6> HIDE DEF q
          <6>2. N \in Nat /\ m \in 1 .. N /\ q \in 0 .. m - 1 /\ i \in 1 .. q
            BY <6>1 DEF q
          <6>3. i \in 1 .. N /\ i < m /\ q \in 1 .. N /\ q # 0
            BY <6>2
          <6>4. QED BY <6>3 DEF q
        <5>3. items[prev[m]].slack <= items[m].slack
          BY <1>4, <5>2
        <5> DEFINE z == [k \in 1 .. N |-> items[k].slack]
        <5>4. /\ \A k \in 1 .. N : z[k] \in Int
              /\ z[i] = items[i].slack /\ z[m] = items[m].slack
              /\ z[prev[m]] = items[prev[m]].slack
          BY <1>3, <5>2
        <5> HIDE DEF z
        <5>5. z[i] <= z[prev[m]] /\ z[prev[m]] <= z[m]
          BY <5>1, <5>3, <5>4
        <5>6. z[i] <= z[m]
          BY <5>2, <5>4, <5>5, SMTT(30)
        <5>7. QED BY <5>2, <5>4, <5>6
      <4>2. QED BY <4>1
    <3>3. items[m].slack <= items[m].slack
      <4>1. items[m].slack \in Int
        BY <1>3
      <4>2. QED BY <4>1
    <3>4. \A i, j \in T : i < j => items[i].slack <= items[j].slack
      <4>1. \A i \in S : i \in Int /\ i < m
        BY <3>2
      <4>2. \A i \in S : ~ (m < i)
        BY <4>1
      <4>3. ~ (m < m)
        OBVIOUS
      <4>4. \A i, j \in S : i < j => items[i].slack <= items[j].slack
        BY <2>3
      <4>5. QED BY <3>2, <4>2, <4>3, <4>4
    <3>5. IsFiniteSet(T) /\ Cardinality(T) = R[m]
      <4>1. IsFiniteSet(S) /\ Cardinality(S) = IF prev[m] = 0 THEN 0 ELSE R[prev[m]]
        BY <2>3
      <4>2. R[m] \in Int /\ R[m] = IF prev[m] = 0 THEN 1 ELSE R[prev[m]] + 1
        <5>1. R[m] \in 1 .. L
          BY <1>10
        <5>2. prev[m] # 0 => R[prev[m]] \in 1 .. L /\ R[prev[m]] = R[m] - 1
          <6>1. prev[m] # 0 => prev[m] \in 1 .. N
            BY <1>3, <2>2
          <6>2. QED BY <1>10, <6>1
        <5>3. prev[m] = 0 => R[m] = 1
          BY <1>10
        <5>4. QED BY <1>11, <5>1, <5>2, <5>3
      <4>3. m \notin S
        BY <3>2
      <4>4. IsFiniteSet(T) /\ Cardinality(T) = Cardinality(S) + 1
        BY <4>1, <4>3, FS_AddElement
      <4> HIDE DEF T
      <4>5. QED BY <4>1, <4>2, <4>4
    <3>6. m # 0
      BY <1>3
    <3>7. QED BY <3>1, <3>2, <3>3, <3>4, <3>5, <3>6
  <2>6. \E U \in SUBSET (1 .. m) : Kept(m, U)
    <3> HIDE DEF Kept, T
    <3>1. QED BY <2>4, <2>5
  <2>7. \A k \in 0 .. m : k = m \/ k \in 0 .. m - 1
    OBVIOUS
  <2> HIDE DEF Kept, T
  <2>8. \A k \in 0 .. m : \E U \in SUBSET (1 .. k) : Kept(k, U)
    BY <2>1, <2>6, <2>7
  <2>9. QED BY <2>8
<1>14. \A k \in 0 .. N : \E S \in SUBSET (1 .. k) : Kept(k, S)
  <2>1. N \in Good
    <3> HIDE DEF Good
    <3>1. \A k \in 1 .. N : k - 1 \in Good => k \in Good
      BY <1>13
    <3>2. N \in 0 .. N
      BY <1>3
    <3>3. \A k \in 0 .. N : k \in Good
      BY <1>3, <1>12, <3>1, Climb
    <3>4. QED BY <3>2, <3>3
  <2> HIDE DEF Kept
  <2>2. QED BY <2>1
<1>15. CASE items = <<>>
  <2>1. {} \in SUBSET (1 .. Len(items)) /\ {} = {items[i].index : i \in {}}
    OBVIOUS
  <2>2. \A T \in SUBSET (1 .. Len(items)) : T = {}
    BY <1>15
  <2>3. Cardinality({}) <= Cardinality({})
    BY FS_EmptySet
  <2>4. QED BY <1>1, <1>15, <2>1, <2>2, <2>3 DEF Rising
<1>16. CASE items # <<>>
  <2> DEFINE last == done.tails[Len(done.tails)]
  <2>1. N > 0
    BY <1>16 DEF N
  <2>2. last \in 1 .. N
    <3>1. Len(done.tails) > 0 /\ Len(done.tails) \in Nat
      BY <1>2, <2>1 DEF Piled, Piles
    <3>2. QED BY <1>2, <3>1 DEF Piled
  <2> HIDE DEF last
  <2>3. PICK S \in SUBSET (1 .. last) : Kept(last, S)
    <3> HIDE DEF Kept
    <3>1. last \in 0 .. N
      BY <2>2
    <3>2. QED BY <1>14, <3>1
  <2>4. S \in SUBSET (1 .. Len(items))
    BY <1>3, <2>2, <2>3 DEF N
  <2>5. LongestNonDecreasing(items) = {items[i].index : i \in S}
    BY <1>1, <1>16, <2>3 DEF last
  <2>6. Rising(items, S)
    BY <2>3 DEF Rising
  <2>7. Cardinality(S) = L
    <3>1. L \in 1 .. L
      <4>1. L > 0
        BY <1>2, <2>1 DEF Piled, L
      <4>2. QED BY <1>11, <4>1
    <3>2. R[last] = L
      BY <1>10, <3>1 DEF last, L
    <3>3. last # 0
      BY <2>2
    <3>4. QED BY <2>3, <3>2, <3>3
  <2>8. ASSUME NEW T \in SUBSET (1 .. N), Rising(items, T) PROVE Cardinality(T) <= L
    <3> DEFINE pile == [i \in T |-> R[i]]
    <3>1. pile \in [T -> 1 .. L] /\ \A i \in T : pile[i] = R[i]
      BY <1>10
    <3> HIDE DEF pile
    <3>2. \A i, j \in T : i < j => pile[i] < pile[j]
      BY <1>10, <2>8, <3>1 DEF Rising
    <3>3. \A i, j \in T : pile[i] = pile[j] => i = j
      <4>1. \A i \in T : i \in Int /\ pile[i] \in Int
        BY <1>3, <1>11, <3>1
      <4>2. QED BY <3>2, <4>1
    <3>4. pile \in Injection(T, 1 .. L)
      BY <3>1, <3>3 DEF Injection, IsInjective
    <3>5. IsFiniteSet(1 .. L) /\ Cardinality(1 .. L) = L
      BY <1>11, FS_Interval
    <3>6. QED BY <3>4, <3>5, FS_Injection
  <2>9. \A T \in SUBSET (1 .. Len(items)) :
          Rising(items, T) => Cardinality(T) <= Cardinality(S)
    BY <2>7, <2>8 DEF N
  <2>10. QED BY <2>4, <2>5, <2>6, <2>9
<1>17. QED BY <1>15, <1>16

(* Places of the order whose keys have a prefix, with prefixes that a      *)
(* legal numbering could keep all together.                                *)
CouldKeep(order, current, K) ==
  /\ \A i \in K : order[i] \in DOMAIN current
  /\ KeptRise(order, current, K)

(* The prefixes that are kept rise, and leave room for the others; no more *)
(* prefixes do.                                                            *)
LEMMA KeptRises ==
  ASSUME NEW Keys, NEW order \in Seq(Keys), NEW current,
         \A i \in 1 .. Len(order) : order[i] \in DOMAIN current => current[order[i]] \in Int
  PROVE  LET kept == LongestNonDecreasing(Candidates(order, current))
         IN  /\ CouldKeep(order, current, kept)
             /\ \A K \in SUBSET (1 .. Len(order)) :
                  CouldKeep(order, current, K) => Cardinality(K) <= Cardinality(kept)
<1> DEFINE n     == Len(order)
           I     == {i \in 1 .. n : /\ order[i] \in DOMAIN current
                                   /\ current[order[i]] - (i - 1) \in 1 .. (MaxPrefix + 1 - n)}
           at    == Ascending(I)
           C     == Candidates(order, current)
           slack == [i \in I |-> current[order[i]] - (i - 1)]
           kept  == LongestNonDecreasing(C)
<1>1. n \in Nat
  OBVIOUS
<1>2. I \subseteq 1 .. n /\ \A i \in I : current[order[i]] \in Int
  OBVIOUS
<1>3. \A i \in I : i \in Int /\ slack[i] \in Int /\ slack[i] = current[order[i]] - (i - 1)
                 /\ slack[i] \in 1 .. (MaxPrefix + 1 - n)
  <2>1. \A i \in I : i \in Int /\ current[order[i]] \in Int
    BY <1>1, <1>2
  <2>2. \A i \in I : current[order[i]] - (i - 1) \in 1 .. (MaxPrefix + 1 - n)
    OBVIOUS
  <2>3. \A i \in I : slack[i] = current[order[i]] - (i - 1)
    OBVIOUS
  <2> HIDE DEF I, slack, n
  <2>4. QED BY <2>1, <2>2, <2>3
<1>4. C = [k \in DOMAIN at |-> [index |-> at[k], slack |-> current[order[at[k]]] - (at[k] - 1)]]
  BY DEF Candidates
<1> HIDE DEF n, I, at, C, slack
<1>5. PICK m \in Nat : /\ at \in [1 .. m -> I]
                       /\ \A i, j \in 1 .. m : i < j => at[i] < at[j]
                       /\ \A x \in I : \E i \in 1 .. m : at[i] = x
  BY <1>1, <1>2, AscendingRises DEF at
<1>6. \A k \in 1 .. m : at[k] \in I
  BY <1>5
<1>7. C = [k \in 1 .. m |-> [index |-> at[k], slack |-> slack[at[k]]]]
  <2>1. DOMAIN at = 1 .. m
    BY <1>5
  <2>2. QED BY <1>3, <1>4, <1>6, <2>1
<1>8. C \in Seq([index : Int, slack : Int]) /\ Len(C) = m
  <2>1. \A k \in 1 .. m : at[k] \in Int /\ slack[at[k]] \in Int
    BY <1>3, <1>6
  <2>2. C \in [1 .. m -> [index : Int, slack : Int]]
    BY <1>7, <2>1
  <2> DEFINE R == [index : Int, slack : Int]
  <2>3. C \in [1 .. m -> R]
    BY <2>2
  <2> HIDE DEF R
  <2>4. C \in Seq(R) /\ Len(C) = m
    BY <2>3
  <2>5. QED BY <2>4 DEF R
<1>9. PICK S \in SUBSET (1 .. m) :
        /\ kept = {C[i].index : i \in S}
        /\ \A i, j \in S : i < j => C[i].slack <= C[j].slack
        /\ \A T \in SUBSET (1 .. m) : Rising(C, T) => Cardinality(T) <= Cardinality(S)
  <2>1. \E S \in SUBSET (1 .. Len(C)) :
          /\ kept = {C[i].index : i \in S}
          /\ Rising(C, S)
          /\ \A T \in SUBSET (1 .. Len(C)) : Rising(C, T) => Cardinality(T) <= Cardinality(S)
    BY <1>8, LongestIsLongest
  <2>2. QED BY <1>8, <2>1 DEF Rising
<1>10. \A i \in S : C[i].index = at[i] /\ C[i].slack = slack[at[i]] /\ at[i] \in I
  BY <1>6, <1>7, <1>9
<1>11. kept = {at[i] : i \in S}
  <2>1. kept = {C[i].index : i \in S}
    BY <1>9
  <2> HIDE DEF kept
  <2>2. QED BY <1>10, <2>1
<1> HIDE DEF kept
<1>12. kept \subseteq I
  BY <1>10, <1>11
<1>13. ASSUME NEW x \in kept, NEW y \in kept, x < y PROVE slack[x] <= slack[y]
  <2>1. PICK i \in S, j \in S : x = at[i] /\ y = at[j]
    BY <1>11
  <2>2. i \in 1 .. m /\ j \in 1 .. m
    BY <1>9
  <2>3. i # j /\ ~ (j < i)
    <3>1. x \in Int /\ y \in Int
      BY <1>3, <1>12
    <3>2. ~ (at[j] < at[i]) /\ at[i] # at[j]
      BY <1>13, <2>1, <3>1
    <3>3. QED BY <1>5, <2>2, <3>2
  <2>4. i < j
    BY <2>2, <2>3
  <2>5. C[i].slack <= C[j].slack
    BY <1>9, <2>4
  <2>6. QED BY <1>10, <2>1, <2>5
<1>14. \A x \in kept : x \in 1 .. n /\ current[order[x]] \in Int
                      /\ slack[x] = current[order[x]] - (x - 1)
                      /\ slack[x] \in 1 .. (MaxPrefix + 1 - n)
  BY <1>2, <1>3, <1>12
<1>15. KeptRise(order, current, kept)
  BY <1>13, <1>14 DEF KeptRise, n
<1>16. CouldKeep(order, current, kept)
  <2>1. \A i \in I : order[i] \in DOMAIN current
    BY DEF I
  <2>2. QED BY <1>12, <1>15, <2>1 DEF CouldKeep
<1>17. ASSUME NEW K \in SUBSET (1 .. n), CouldKeep(order, current, K)
       PROVE  Cardinality(K) <= Cardinality(kept)
  <2>1. K \subseteq I
    BY <1>17 DEF CouldKeep, KeptRise, I, n
  <2>2. \A x, y \in K : x < y => slack[x] <= slack[y]
    <3>1. \A x, y \in K : x < y => current[order[x]] - (x - 1) <= current[order[y]] - (y - 1)
      BY <1>17 DEF CouldKeep, KeptRise
    <3>2. QED BY <1>3, <2>1, <3>1
  (* The positions among the candidates.                                   *)
  <2> DEFINE P == {k \in 1 .. m : at[k] \in K}
             f == [x \in K |-> CHOOSE k \in 1 .. m : at[k] = x]
             g == [i \in S |-> at[i]]
  <2>3. Cardinality(P) <= Cardinality(S)
    <3>1. P \in SUBSET (1 .. m)
      OBVIOUS
    <3>2. \A k \in P : k \in 1 .. m /\ at[k] \in K /\ C[k].slack = slack[at[k]]
      BY <1>6, <1>7
    <3> HIDE DEF P
    <3>3. Rising(C, P)
      BY <1>5, <2>2, <3>2 DEF Rising
    <3>4. QED BY <1>9, <3>1, <3>3
  <2>4. IsFiniteSet(P) /\ Cardinality(K) <= Cardinality(P)
    <3>1. \A x \in K : f[x] \in 1 .. m /\ at[f[x]] = x
      BY <1>5, <2>1
    <3>2. f \in [K -> P]
      <4>1. \A x \in K : f[x] \in P
        BY <3>1
      <4> HIDE DEF P
      <4>2. QED BY <4>1
    <3> HIDE DEF f
    <3>3. \A x, y \in K : f[x] = f[y] => x = y
      BY <3>1
    <3>4. f \in Injection(K, P)
      BY <3>2, <3>3 DEF Injection, IsInjective
    <3>5. IsFiniteSet(P)
      <4>1. IsFiniteSet(1 .. m) /\ P \in SUBSET (1 .. m)
        BY FS_Interval
      <4> HIDE DEF P
      <4>2. QED BY <4>1, FS_Subset
    <3> HIDE DEF P
    <3>6. QED BY <3>4, <3>5, FS_Injection
  <2>5. Cardinality(S) <= Cardinality(kept) /\ IsFiniteSet(S) /\ IsFiniteSet(kept)
    <3>1. g \in [S -> kept] /\ \A i \in S : g[i] = at[i]
      BY <1>11
    <3> HIDE DEF g
    <3>2. \A i, j \in S : g[i] = g[j] => i = j
      <4>1. \A i \in S : i \in 1 .. m /\ at[i] \in Int
        BY <1>3, <1>9, <1>10
      <4>2. QED BY <1>5, <3>1, <4>1
    <3>3. g \in Injection(S, kept)
      BY <3>1, <3>2 DEF Injection, IsInjective
    <3>4. IsFiniteSet(kept)
      <4>1. IsFiniteSet(1 .. n) /\ kept \in SUBSET (1 .. n)
        BY <1>1, <1>14, FS_Interval
      <4>2. QED BY <4>1, FS_Subset
    <3>5. QED BY <3>3, <3>4, FS_Injection
  <2>6. IsFiniteSet(K)
    <3>1. IsFiniteSet(1 .. n)
      BY <1>1, FS_Interval
    <3>2. QED BY <3>1, FS_Subset
  <2> HIDE DEF P
  <2>7. Cardinality(K) \in Int /\ Cardinality(P) \in Int /\ Cardinality(S) \in Int
        /\ Cardinality(kept) \in Int
    BY <2>4, <2>5, <2>6, FS_CardinalityType
  <2>8. QED BY <2>3, <2>4, <2>5, <2>7
<1>18. QED BY <1>16, <1>17 DEF kept, C, n

-----------------------------------------------------------------------------
(* The numbers of the new videos                                           *)

(* Multiplying keeps the order; dividing by d, steps of d or more differ.  *)
LEMMA Multiples ==
  ASSUME NEW a \in Nat, NEW b \in Nat, NEW c \in Nat, a <= b
  PROVE  c * a <= c * b /\ c * a \in Nat /\ c * b \in Nat /\ c * b = c * a + c * (b - a)
  BY SMT

LEMMA Quotients ==
  ASSUME NEW a \in Nat, NEW b \in Nat, NEW d \in Nat \ {0}, a + d <= b
  PROVE  a \div d \in Nat /\ b \div d \in Nat /\ a \div d < b \div d
  BY SMT

(* The numbers put between low and high, which leave room for count, lie   *)
(* strictly between them and rise.                                         *)
LEMMA FilledRises ==
  ASSUME NEW low \in Nat, NEW high \in Nat, NEW count \in Nat, NEW openEnd \in BOOLEAN,
         low + count < high, openEnd => high = MaxPrefix + 1,
         NEW i \in 1 .. count
  PROVE  /\ Filled(low, high, count, i, openEnd) \in Nat
         /\ low < Filled(low, high, count, i, openEnd)
         /\ Filled(low, high, count, i, openEnd) < high
         /\ \A j \in 1 .. count : i < j =>
              Filled(low, high, count, i, openEnd) < Filled(low, high, count, j, openEnd)
<1> USE PrefixAssumption
<1>1. CASE openEnd /\ low + Step * count <= MaxPrefix
  <2>1. \A j \in 1 .. count : Filled(low, high, count, j, openEnd) = low + Step * j
    BY <1>1 DEF Filled
  <2>2. \A j \in 1 .. count : Step * j \in Nat /\ Step * j >= Step * 1 /\ Step * j <= Step * count
    BY Multiples
  <2>3. \A j \in 1 .. count : i < j => Step * j = Step * i + Step * (j - i) /\ Step * (j - i) >= Step * 1
    BY Multiples
  <2>4. Step * 1 = Step /\ Step > 0
    OBVIOUS
  <2> DEFINE number(j) == Step * j
  <2>5. /\ \A j \in 1 .. count : number(j) \in Nat /\ 1 <= number(j) /\ low + number(j) <= MaxPrefix
        /\ \A j \in 1 .. count : i < j => number(i) < number(j)
    BY <1>1, <2>2, <2>3, <2>4
  <2>6. high = MaxPrefix + 1
    BY <1>1
  <2>7. \A j \in 1 .. count : Filled(low, high, count, j, openEnd) = low + number(j)
    BY <2>1
  <2> HIDE DEF number
  <2>8. QED BY <2>5, <2>6, <2>7
<1>2. CASE ~ (openEnd /\ low + Step * count <= MaxPrefix)
  <2> DEFINE gap == high - low
             d == count + 1
  <2>1. \A j \in 1 .. count : Filled(low, high, count, j, openEnd) = low + (gap * j) \div d
    BY <1>2 DEF Filled
  <2>2. gap \in Nat /\ d \in Nat \ {0} /\ d <= gap
    OBVIOUS
  <2> HIDE DEF gap
  <2>3. \A a, b \in Nat : a < b => gap * a \in Nat /\ gap * b \in Nat /\ gap * a + d <= gap * b
    <3>1. ASSUME NEW a \in Nat, NEW b \in Nat, a < b
          PROVE  gap * a \in Nat /\ gap * b \in Nat /\ gap * a + d <= gap * b
      <4>1. gap * b = gap * a + gap * (b - a) /\ gap * a \in Nat /\ gap * b \in Nat
        BY <2>2, <3>1, Multiples
      <4>2. 1 <= b - a /\ b - a \in Nat
        BY <3>1
      <4>3. gap * (b - a) >= gap * 1 /\ gap * (b - a) \in Nat
        BY <2>2, <4>2, Multiples
      <4>4. gap * 1 = gap
        BY <2>2
      <4>5. QED BY <2>2, <4>1, <4>3, <4>4
    <3>2. QED BY <3>1
  <2>4. \A a, b \in Nat : a < b =>
          /\ (gap * a) \div d \in Nat /\ (gap * b) \div d \in Nat
          /\ (gap * a) \div d < (gap * b) \div d
    BY <2>2, <2>3, Quotients
  <2>5. (gap * 0) \div d = 0
    BY <2>2
  <2>6. (gap * d) \div d = gap
    BY <2>2, SMT
  <2>7. QED
    <3>1. i \in Nat /\ d \in Nat /\ 0 < i /\ i < d
      OBVIOUS
    <3>2. (gap * i) \div d \in Nat /\ 0 < (gap * i) \div d /\ (gap * i) \div d < gap
      BY <2>4, <2>5, <2>6, <3>1
    <3>3. \A j \in 1 .. count : i < j =>
            (gap * j) \div d \in Nat /\ (gap * i) \div d < (gap * j) \div d
      BY <2>4, <3>1
    <3>4. low + gap = high
      BY DEF gap
    <3> DEFINE number(j) == (gap * j) \div d
    <3>5. /\ number(i) \in Nat /\ 0 < number(i) /\ number(i) < gap
          /\ \A j \in 1 .. count : i < j => number(j) \in Nat /\ number(i) < number(j)
      BY <3>2, <3>3
    <3>6. \A j \in 1 .. count : Filled(low, high, count, j, openEnd) = low + number(j)
      BY <2>1
    <3> HIDE DEF d, number
    <3>7. QED BY <2>2, <3>4, <3>5, <3>6
<1>3. QED BY <1>1, <1>2

(* Every key of the order gets a number that fits in three digits, and the *)
(* numbers rise along the order (assign_prefixes), whatever the prefixes   *)
(* it starts from, for any largest prefix and step.                        *)
THEOREM NumbersRise ==
  ASSUME NEW order, NEW current, NEW Keys,
         order \in Seq(Keys),
         \A i, j \in 1 .. Len(order) : order[i] = order[j] => i = j,
         Len(order) <= MaxPrefix,
         \A i \in 1 .. Len(order) : order[i] \in DOMAIN current => current[order[i]] \in Int
  PROVE  \A i \in 1 .. Len(order) :
           /\ AssignPrefixes(order, current)[order[i]] \in 1 .. MaxPrefix
           /\ \A j \in 1 .. Len(order) : i < j =>
                AssignPrefixes(order, current)[order[i]]
                  < AssignPrefixes(order, current)[order[j]]
<1> DEFINE n          == Len(order)
           kept       == LongestNonDecreasing(Candidates(order, current))
           keptAt(i)  == current[order[i]]
           before(i)  == {k \in kept : k < i}
           after(i)   == {k \in kept : k > i}
           start(i)   == IF before(i) = {} THEN 0 ELSE Max(before(i))
           end(i)     == IF after(i) = {} THEN n + 1 ELSE Min(after(i))
           low(i)     == IF before(i) = {} THEN 0 ELSE keptAt(start(i))
           high(i)    == IF after(i) = {} THEN MaxPrefix + 1 ELSE keptAt(end(i))
           open(i)    == after(i) = {}
           size(i)    == end(i) - start(i) - 1
           value(i)   == IF i \in kept
                           THEN keptAt(i)
                           ELSE Filled(low(i), high(i), size(i), i - start(i), open(i))
           indexOf(k) == CHOOSE i \in 1 .. n : order[i] = k
<1>1. KeptRise(order, current, kept)
  BY KeptRises DEF CouldKeep
<1>2. n \in Nat /\ MaxPrefix \in Nat /\ n <= MaxPrefix
  BY PrefixAssumption
<1>3. \A i \in 1 .. n : AssignPrefixes(order, current)[order[i]] = value(i)
  <2>1. AssignPrefixes(order, current) = [k \in ToSet(order) |-> value(indexOf(k))]
    BY DEF AssignPrefixes
  <2>2. \A i \in 1 .. n : order[i] \in ToSet(order)
    BY DEF ToSet
  <2>3. \A i \in 1 .. n : indexOf(order[i]) = i
    OBVIOUS
  <2> HIDE DEF value, indexOf
  <2>4. QED BY <2>1, <2>2, <2>3
<1>4. kept \subseteq 1 .. n
  BY <1>1 DEF KeptRise
<1>5. \A k \in kept : keptAt(k) \in Nat /\ k <= keptAt(k) /\ keptAt(k) <= MaxPrefix + k - n
  BY <1>1, <1>2, <1>4 DEF KeptRise
<1>6. \A k, l \in kept : k < l => keptAt(l) - keptAt(k) >= l - k
  <2>1. \A k, l \in kept : k < l => keptAt(k) - (k - 1) <= keptAt(l) - (l - 1)
    BY <1>1 DEF KeptRise
  <2>2. \A k \in kept : k \in Nat
    BY <1>2, <1>4
  <2> HIDE DEF kept, keptAt
  <2>3. QED BY <1>5, <2>1, <2>2
<1> HIDE DEF n, kept, keptAt
<1>7. \A i \in 1 .. n :
        /\ start(i) \in Nat /\ start(i) < i
        /\ \A k \in kept : k < i => k <= start(i)
        /\ before(i) = {} => start(i) = 0 /\ low(i) = 0
        /\ before(i) # {} => start(i) \in kept /\ low(i) = keptAt(start(i))
  <2> SUFFICES ASSUME NEW i \in 1 .. n
               PROVE  /\ start(i) \in Nat /\ start(i) < i
                      /\ \A k \in kept : k < i => k <= start(i)
                      /\ before(i) = {} => start(i) = 0 /\ low(i) = 0
                      /\ before(i) # {} => start(i) \in kept /\ low(i) = keptAt(start(i))
    OBVIOUS
  <2>1. before(i) = {} => start(i) = 0 /\ low(i) = 0
    OBVIOUS
  <2>2. before(i) # {} => /\ start(i) \in before(i)
                          /\ \A k \in before(i) : start(i) >= k
                          /\ low(i) = keptAt(start(i))
    <3>1. before(i) \subseteq 1 .. n
      BY <1>4
    <3>2. before(i) # {} => /\ Max(before(i)) \in before(i)
                            /\ \A k \in before(i) : Max(before(i)) >= k
      <4> HIDE DEF before
      <4>1. QED BY <1>2, <3>1, GreatestNumber
    <3> HIDE DEF before
    <3>3. QED BY <3>2
  <2>3. \A k \in kept : k < i => k \in before(i)
    OBVIOUS
  <2>4. \A k \in before(i) : k \in kept /\ k < i
    OBVIOUS
  <2>5. before(i) = {} \/ before(i) # {}
    OBVIOUS
  <2> HIDE DEF before, start, low
  <2>6. i \in Nat /\ 0 < i /\ \A k \in kept : k \in Nat
    BY <1>2, <1>4
  <2>7. start(i) \in Nat /\ start(i) < i
    BY <2>1, <2>2, <2>4, <2>5, <2>6
  <2>8. \A k \in kept : k < i => k <= start(i)
    BY <2>2, <2>3, <2>6, <2>7
  <2>9. QED BY <2>1, <2>2, <2>4, <2>7, <2>8
<1>8. \A i \in 1 .. n :
        /\ end(i) \in Nat /\ i < end(i)
        /\ \A k \in kept : i < k => end(i) <= k
        /\ open(i) => end(i) = n + 1 /\ high(i) = MaxPrefix + 1
        /\ ~ open(i) => end(i) \in kept /\ high(i) = keptAt(end(i))
  <2> SUFFICES ASSUME NEW i \in 1 .. n
               PROVE  /\ end(i) \in Nat /\ i < end(i)
                      /\ \A k \in kept : i < k => end(i) <= k
                      /\ open(i) => end(i) = n + 1 /\ high(i) = MaxPrefix + 1
                      /\ ~ open(i) => end(i) \in kept /\ high(i) = keptAt(end(i))
    OBVIOUS
  <2>1. open(i) => end(i) = n + 1 /\ high(i) = MaxPrefix + 1
    OBVIOUS
  <2>2. ~ open(i) => /\ end(i) \in after(i)
                     /\ \A k \in after(i) : end(i) <= k
                     /\ high(i) = keptAt(end(i))
    <3>1. after(i) \subseteq Nat
      <4>1. after(i) \subseteq kept
        OBVIOUS
      <4>2. \A k \in kept : k \in Nat
        BY <1>2, <1>4
      <4>3. \A k \in after(i) : k \in Nat
        BY <4>1, <4>2
      <4> HIDE DEF after
      <4>4. QED BY <4>3
    <3>2. after(i) # {} => /\ Min(after(i)) \in after(i)
                           /\ \A k \in after(i) : Min(after(i)) <= k
      <4> HIDE DEF after
      <4>1. QED BY <3>1, LeastNumber
    <3> HIDE DEF after
    <3>3. QED BY <3>2
  <2>3. \A k \in kept : i < k => k \in after(i) /\ ~ open(i)
    BY <1>2, <1>4
  <2>4. \A k \in after(i) : k \in kept /\ i < k
    BY <1>2, <1>4
  <2> HIDE DEF after, end, high, open
  <2>5. i \in Nat /\ i < n + 1 /\ \A k \in kept : k \in Nat
    BY <1>2, <1>4
  <2>6. end(i) \in Nat /\ i < end(i)
    BY <1>2, <2>1, <2>2, <2>4, <2>5
  <2>7. \A k \in kept : i < k => end(i) <= k
    BY <2>2, <2>3, <2>5, <2>6
  <2>8. QED BY <2>1, <2>2, <2>4, <2>6, <2>7
<1>9. \A i \in 1 .. n : open(i) \in BOOLEAN
  OBVIOUS
<1>10. \A i, j \in 1 .. n : start(i) = start(j) => low(i) = low(j)
  <2>1. ASSUME NEW i \in 1 .. n, NEW j \in 1 .. n, start(i) = start(j)
        PROVE  low(i) = low(j)
    <3>1. before(i) = {} <=> before(j) = {}
      <4> HIDE DEF before, low, start
      <4>1. \A k \in kept : k # 0
        BY <1>2, <1>4
      <4>2. QED BY <1>7, <2>1, <4>1
    <3> HIDE DEF before, low, start
    <3>2. QED BY <1>7, <2>1, <3>1
  <2>2. QED BY <2>1
<1>11. \A i, j \in 1 .. n : end(i) = end(j) => high(i) = high(j) /\ open(i) = open(j)
  <2>1. ASSUME NEW i \in 1 .. n, NEW j \in 1 .. n, end(i) = end(j)
        PROVE  high(i) = high(j) /\ open(i) = open(j)
    <3>1. open(i) <=> open(j)
      <4> HIDE DEF open, end, high
      <4>1. \A k \in kept : k # n + 1
        BY <1>2, <1>4
      <4>2. QED BY <1>8, <2>1, <4>1
    <3>2. open(i) = open(j)
      BY <1>9, <3>1
    <3> HIDE DEF open, end, high
    <3>3. QED BY <1>8, <2>1, <3>1, <3>2
  <2>2. QED BY <2>1
<1>12. \A i \in 1 .. n : i \in kept => value(i) = keptAt(i)
  OBVIOUS
<1>13. \A i \in 1 .. n : i \notin kept =>
         value(i) = Filled(low(i), high(i), size(i), i - start(i), open(i))
  OBVIOUS
<1>14. \A i \in 1 .. n : before(i) = {} \/ before(i) # {}
  OBVIOUS
<1> HIDE DEF before, after, start, end, low, high, open, value
<1>15. \A i \in 1 .. n :
         /\ low(i) \in Nat /\ high(i) \in Nat /\ high(i) <= MaxPrefix + 1
         /\ high(i) - low(i) >= end(i) - start(i)
  <2> SUFFICES ASSUME NEW i \in 1 .. n
               PROVE  /\ low(i) \in Nat /\ high(i) \in Nat /\ high(i) <= MaxPrefix + 1
                      /\ high(i) - low(i) >= end(i) - start(i)
    OBVIOUS
  <2>1. \/ start(i) = 0 /\ low(i) = 0
        \/ start(i) \in kept /\ low(i) = keptAt(start(i))
    BY <1>7
  <2>2. \/ end(i) = n + 1 /\ high(i) = MaxPrefix + 1
        \/ end(i) \in kept /\ high(i) = keptAt(end(i))
    BY <1>8
  <2>3. start(i) \in Nat /\ end(i) \in Nat /\ start(i) < end(i) /\ end(i) <= n + 1
    BY <1>2, <1>4, <1>7, <1>8, <2>2
  <2>4. QED BY <1>2, <1>4, <1>5, <1>6, <2>1, <2>2, <2>3
<1>16. \A i \in 1 .. n : i \notin kept =>
         /\ value(i) \in Nat /\ low(i) < value(i) /\ value(i) < high(i)
         /\ \A j \in 1 .. size(i) : i - start(i) < j =>
              value(i) < Filled(low(i), high(i), size(i), j, open(i))
  <2> SUFFICES ASSUME NEW i \in 1 .. n, i \notin kept
               PROVE  /\ value(i) \in Nat /\ low(i) < value(i) /\ value(i) < high(i)
                      /\ \A j \in 1 .. size(i) : i - start(i) < j =>
                           value(i) < Filled(low(i), high(i), size(i), j, open(i))
    OBVIOUS
  <2>1. /\ size(i) \in Nat /\ i - start(i) \in 1 .. size(i)
        /\ low(i) \in Nat /\ high(i) \in Nat /\ low(i) + size(i) < high(i)
    BY <1>7, <1>8, <1>15
  <2>2. open(i) \in BOOLEAN /\ (open(i) => high(i) = MaxPrefix + 1)
    BY <1>8, <1>9
  <2> DEFINE number(j) == Filled(low(i), high(i), size(i), j, open(i))
  <2> HIDE DEF size
  <2>3. /\ number(i - start(i)) \in Nat
        /\ low(i) < number(i - start(i)) /\ number(i - start(i)) < high(i)
        /\ \A j \in 1 .. size(i) : i - start(i) < j => number(i - start(i)) < number(j)
    BY <2>1, <2>2, FilledRises
  <2>4. value(i) = number(i - start(i))
    BY <1>13
  <2> HIDE DEF number
  <2>5. \A j : number(j) = Filled(low(i), high(i), size(i), j, open(i))
    BY DEF number
  <2>6. QED BY <2>3, <2>4, <2>5
<1>17. \A i \in 1 .. n : value(i) \in 1 .. MaxPrefix
  <2>1. ASSUME NEW i \in 1 .. n, i \in kept PROVE value(i) \in 1 .. MaxPrefix
    BY <1>2, <1>4, <1>5, <1>12, <2>1
  <2>2. ASSUME NEW i \in 1 .. n, i \notin kept PROVE value(i) \in 1 .. MaxPrefix
    BY <1>2, <1>15, <1>16, <2>2
  <2>3. QED BY <2>1, <2>2
<1>18. \A i, j \in 1 .. n : i < j => value(i) < value(j)
  <2> SUFFICES ASSUME NEW i \in 1 .. n, NEW j \in 1 .. n, i < j
               PROVE  value(i) < value(j)
    OBVIOUS
  (* The number of a kept key is above those before it, below those after. *)
  <2>1. \A k \in kept : k < j => keptAt(k) < value(j)
    <3>1. CASE j \in kept
      BY <1>2, <1>4, <1>5, <1>6, <1>12, <3>1
    <3>2. CASE j \notin kept
      <4>1. ASSUME NEW k \in kept, k < j PROVE keptAt(k) < value(j)
        <5>1. k <= start(j) /\ k \in Nat /\ start(j) \in Nat /\ k # 0
          <6>1. k \in 1 .. n
            BY <1>4
          <6>2. k <= start(j) /\ start(j) \in Nat
            BY <1>7, <4>1
          <6>3. QED BY <1>2, <6>1, <6>2
        <5>2. start(j) \in kept /\ low(j) = keptAt(start(j))
          BY <1>7, <5>1
        <5>3. keptAt(k) <= keptAt(start(j))
          BY <1>5, <1>6, <5>1, <5>2
        <5>4. QED BY <1>5, <1>16, <3>2, <5>2, <5>3
      <4>2. QED BY <4>1
    <3>3. QED BY <3>1, <3>2
  <2>2. \A k \in kept : i < k => value(i) < keptAt(k)
    <3>1. CASE i \in kept
      BY <1>2, <1>4, <1>5, <1>6, <1>12, <3>1
    <3>2. CASE i \notin kept
      <4>1. ASSUME NEW k \in kept, i < k PROVE value(i) < keptAt(k)
        <5>1. end(i) <= k /\ k \in Nat /\ end(i) \in Nat /\ k # n + 1 /\ k <= n
          BY <1>2, <1>4, <1>8, <4>1
        <5>2. end(i) \in kept /\ high(i) = keptAt(end(i))
          BY <1>2, <1>8, <5>1
        <5>3. keptAt(end(i)) <= keptAt(k)
          BY <1>5, <1>6, <5>1, <5>2
        <5>4. QED BY <1>5, <1>16, <3>2, <5>2, <5>3
      <4>2. QED BY <4>1
    <3>3. QED BY <3>1, <3>2
  <2>3. CASE i \in kept
    BY <1>12, <2>1, <2>3
  <2>4. CASE j \in kept
    BY <1>12, <2>2, <2>4
  <2>5. CASE \E k \in kept : i < k /\ k < j
    <3>1. PICK k \in kept : i < k /\ k < j
      BY <2>5
    <3>2. value(i) < keptAt(k) /\ keptAt(k) < value(j)
      BY <2>1, <2>2, <3>1
    <3>3. QED BY <1>5, <1>17, <3>2
  (* Nothing kept from i to j: both lie in the same gap.                   *)
  <2>6. CASE i \notin kept /\ j \notin kept /\ ~ \E k \in kept : i < k /\ k < j
    <3>1. \A k \in kept : k \in 1 .. n /\ k # i /\ k # j /\ ~ (i < k /\ k < j)
      BY <1>4, <2>6
    <3>2. start(i) = start(j)
      <4>1. start(j) \in kept => start(j) <= start(i)
        BY <1>2, <1>7, <3>1
      <4>2. start(i) \in kept => start(i) <= start(j)
        BY <1>2, <1>7, <3>1
      <4>3. /\ start(i) \in Nat /\ start(j) \in Nat
            /\ start(i) = 0 \/ start(i) \in kept
            /\ start(j) = 0 \/ start(j) \in kept
        BY <1>7
      <4>4. QED BY <4>1, <4>2, <4>3
    <3>3. end(i) = end(j)
      <4>1. end(j) \in kept => end(i) <= end(j)
        BY <1>2, <1>8, <3>1
      <4>2. end(i) \in kept => end(j) <= end(i)
        BY <1>2, <1>8, <3>1
      <4>3. /\ end(i) \in Nat /\ end(j) \in Nat
            /\ end(i) = n + 1 \/ end(i) \in kept
            /\ end(j) = n + 1 \/ end(j) \in kept
        BY <1>8
      <4>4. \A k \in kept : k <= n
        BY <1>2, <1>4
      <4>5. QED BY <1>2, <4>1, <4>2, <4>3, <4>4
    <3>4. low(i) = low(j) /\ high(i) = high(j) /\ open(i) = open(j) /\ size(i) = size(j)
      BY <1>10, <1>11, <3>2, <3>3
    <3>5. j - start(i) \in 1 .. size(i) /\ i - start(i) < j - start(i)
      BY <1>7, <1>8, <3>2, <3>3
    <3>6. value(j) = Filled(low(i), high(i), size(i), j - start(i), open(i))
      BY <1>13, <2>6, <3>2, <3>4
    <3> HIDE DEF size
    <3>7. QED BY <1>16, <2>6, <3>5, <3>6
  <2>7. QED BY <2>3, <2>4, <2>5, <2>6
<1>19. QED
  BY <1>3, <1>17, <1>18 DEF n

(* In a legal numbering, numbers are as far apart as places at least.      *)
LEMMA NumbersApart ==
  ASSUME NEW n \in Nat, NEW f \in [1 .. n -> Int], \A i \in 1 .. n - 1 : f[i] < f[i + 1]
  PROVE  \A i, j \in 1 .. n : i <= j => f[i] + (j - i) <= f[j]
<1> DEFINE Good == {d \in 0 .. n : \A i \in 1 .. n : i + d \in 1 .. n => f[i] + d <= f[i + d]}
<1>1. 0 \in Good
  <2>1. \A i \in 1 .. n : f[i] \in Int /\ i + 0 = i
    OBVIOUS
  <2>2. \A i \in 1 .. n : f[i] + 0 <= f[i]
    BY <2>1
  <2>3. QED BY <2>1, <2>2
<1>2. ASSUME NEW d \in 1 .. n, d - 1 \in Good PROVE d \in Good
  <2>1. ASSUME NEW i \in 1 .. n, i + d \in 1 .. n PROVE f[i] + d <= f[i + d]
    <3> DEFINE j == i + (d - 1)
    <3>1. j \in 1 .. n /\ j \in 1 .. n - 1 /\ j + 1 = i + d /\ d \in Int
      BY <2>1
    <3>2. f[i] + (d - 1) <= f[j]
      BY <1>2, <3>1
    <3> HIDE DEF j
    <3>3. f[j] < f[i + d]
      BY <3>1
    <3>4. f[i] \in Int /\ f[j] \in Int /\ f[i + d] \in Int
      BY <2>1, <3>1
    <3>5. QED BY <3>1, <3>2, <3>3, <3>4
  <2>2. QED BY <2>1
<1>3. \A d \in 0 .. n : d \in Good
  <2> HIDE DEF Good
  <2>1. QED BY <1>1, <1>2, Climb
<1>4. ASSUME NEW i \in 1 .. n, NEW j \in 1 .. n, i <= j PROVE f[i] + (j - i) <= f[j]
  <2>1. j - i \in 0 .. n /\ i + (j - i) = j
    BY <1>4
  <2>2. j - i \in Good
    <3> HIDE DEF Good
    <3>1. QED BY <1>3, <2>1
  <2>3. i + (j - i) \in 1 .. n => f[i] + (j - i) <= f[i + (j - i)]
    BY <2>2
  <2>4. QED BY <2>1, <2>3
<1>5. QED BY <1>4

(* The places whose keys have on the Pi the prefix that numbers gives them. *)
KeptPlaces(order, current, numbers) ==
  {i \in 1 .. Len(order) : order[i] \in DOMAIN current /\ current[order[i]] = numbers[i]}

(* The numbers that the planner gives, place by place.                     *)
Assigned(order, current) ==
  [i \in 1 .. Len(order) |-> AssignPrefixes(order, current)[order[i]]]

LEMMA KeptStay ==
  ASSUME NEW Keys, NEW order \in Seq(Keys), NEW current,
         \A i, j \in 1 .. Len(order) : order[i] = order[j] => i = j
  PROVE  \A i \in 1 .. Len(order) :
           i \in LongestNonDecreasing(Candidates(order, current)) =>
             AssignPrefixes(order, current)[order[i]] = current[order[i]]
<1> DEFINE n          == Len(order)
           kept       == LongestNonDecreasing(Candidates(order, current))
           keptAt(i)  == current[order[i]]
           before(i)  == {k \in kept : k < i}
           after(i)   == {k \in kept : k > i}
           start(i)   == IF before(i) = {} THEN 0 ELSE Max(before(i))
           end(i)     == IF after(i) = {} THEN n + 1 ELSE Min(after(i))
           low(i)     == IF before(i) = {} THEN 0 ELSE keptAt(start(i))
           high(i)    == IF after(i) = {} THEN MaxPrefix + 1 ELSE keptAt(end(i))
           value(i)   == IF i \in kept
                           THEN keptAt(i)
                           ELSE Filled(low(i), high(i), end(i) - start(i) - 1,
                                       i - start(i), after(i) = {})
           indexOf(k) == CHOOSE i \in 1 .. n : order[i] = k
<1>1. AssignPrefixes(order, current) = [k \in ToSet(order) |-> value(indexOf(k))]
  BY DEF AssignPrefixes
<1>2. \A i \in 1 .. n : order[i] \in ToSet(order)
  BY DEF ToSet
<1>3. \A i \in 1 .. n : indexOf(order[i]) = i
  OBVIOUS
<1>4. \A i \in 1 .. n : i \in kept => value(i) = current[order[i]]
  OBVIOUS
<1> HIDE DEF value, indexOf, kept
<1>5. \A i \in 1 .. n : i \in kept => AssignPrefixes(order, current)[order[i]] = current[order[i]]
  BY <1>1, <1>2, <1>3, <1>4
<1>6. QED BY <1>5 DEF n, kept

(* No legal numbering of the order leaves more of the prefixes on the Pi   *)
(* as they are than the planner's (assign_prefixes): it renames as few     *)
(* videos as can be, whatever the order, the prefixes on the Pi, the       *)
(* largest prefix and the step.                                            *)
THEOREM MostAreKept ==
  ASSUME NEW Keys, NEW order \in Seq(Keys), NEW current,
         \A i, j \in 1 .. Len(order) : order[i] = order[j] => i = j,
         \A i \in 1 .. Len(order) : order[i] \in DOMAIN current => current[order[i]] \in Int,
         NEW f \in [1 .. Len(order) -> 1 .. MaxPrefix],
         \A i \in 1 .. Len(order) - 1 : f[i] < f[i + 1]
  PROVE  Cardinality(KeptPlaces(order, current, f))
           <= Cardinality(KeptPlaces(order, current, Assigned(order, current)))
<1> DEFINE n    == Len(order)
           kept == LongestNonDecreasing(Candidates(order, current))
           K    == KeptPlaces(order, current, f)
           mine == Assigned(order, current)
           M    == KeptPlaces(order, current, mine)
<1>1. n \in Nat /\ MaxPrefix \in Nat
  BY PrefixAssumption
<1>2. CouldKeep(order, current, kept)
      /\ \A J \in SUBSET (1 .. n) : CouldKeep(order, current, J) => Cardinality(J) <= Cardinality(kept)
  BY KeptRises
<1>3. kept \subseteq M
  <2>1. ASSUME NEW i \in kept PROVE i \in M
    <3>1. i \in 1 .. n /\ order[i] \in DOMAIN current
      BY <1>2 DEF CouldKeep, KeptRise
    <3>2. mine[i] = current[order[i]]
      BY <3>1, KeptStay DEF Assigned
    <3> HIDE DEF mine, kept
    <3>3. QED BY <3>1, <3>2 DEF KeptPlaces
  <2>2. QED BY <2>1
<1>4. K \in SUBSET (1 .. n) /\ M \in SUBSET (1 .. n)
  BY DEF KeptPlaces
<1>5. CouldKeep(order, current, K)
  <2>1. \A i \in K : i \in 1 .. n /\ order[i] \in DOMAIN current /\ current[order[i]] = f[i]
    BY DEF KeptPlaces
  <2>2. \A i, j \in 1 .. n : i <= j => f[i] + (j - i) <= f[j]
    <3>1. f \in [1 .. n -> Int]
      BY <1>1
    <3>2. QED BY <1>1, <3>1, NumbersApart
  <2>3. \A i \in 1 .. n : f[i] - (i - 1) \in 1 .. (MaxPrefix + 1 - n)
    <3>1. ASSUME NEW i \in 1 .. n PROVE f[i] - (i - 1) \in 1 .. (MaxPrefix + 1 - n)
      <4>1. 1 \in 1 .. n /\ n \in 1 .. n /\ 1 <= i /\ i <= n /\ i \in Int
        BY <1>1
      <4>2. f[1] + (i - 1) <= f[i] /\ f[i] + (n - i) <= f[n]
        BY <2>2, <4>1
      <4>3. f[1] \in 1 .. MaxPrefix /\ f[i] \in 1 .. MaxPrefix /\ f[n] \in 1 .. MaxPrefix
        BY <4>1
      <4> HIDE DEF n
      <4>4. QED BY <1>1, <4>1, <4>2, <4>3
    <3>2. QED BY <3>1
  <2>4. \A i, j \in 1 .. n : i < j => f[i] - (i - 1) <= f[j] - (j - 1)
    <3>1. \A i \in 1 .. n : i \in Int /\ f[i] \in Int
      BY <1>1
    <3> HIDE DEF n
    <3>2. QED BY <2>2, <3>1
  <2> HIDE DEF K
  <2>5. /\ K \subseteq 1 .. n
        /\ \A i \in K : current[order[i]] \in Int
                        /\ current[order[i]] - (i - 1) \in 1 .. (MaxPrefix + 1 - n)
        /\ \A i, j \in K : i < j => current[order[i]] - (i - 1) <= current[order[j]] - (j - 1)
    <3>1. \A i \in K : f[i] \in Int
      BY <1>1, <2>1
    <3> HIDE DEF n
    <3>2. QED BY <1>4, <2>1, <2>3, <2>4, <3>1
  <2>6. QED BY <2>1, <2>5 DEF CouldKeep, KeptRise
<1> HIDE DEF K, M, kept
<1>6. Cardinality(K) <= Cardinality(kept)
  BY <1>2, <1>4, <1>5
<1>7. IsFiniteSet(K) /\ IsFiniteSet(M) /\ IsFiniteSet(kept) /\ Cardinality(kept) <= Cardinality(M)
  <2>1. IsFiniteSet(1 .. n)
    BY <1>1, FS_Interval
  <2>2. IsFiniteSet(K) /\ IsFiniteSet(M)
    BY <1>4, <2>1, FS_Subset
  <2>3. kept \in SUBSET M
    BY <1>3
  <2>4. QED BY <2>2, <2>3, FS_Subset
<1>8. Cardinality(K) \in Int /\ Cardinality(M) \in Int /\ Cardinality(kept) \in Int
  BY <1>7, FS_CardinalityType
<1>9. Cardinality(K) <= Cardinality(M)
  BY <1>6, <1>7, <1>8
<1>10. QED BY <1>9 DEF K, M

(* When the prefixes on the Pi are those of a legal numbering of the whole *)
(* order, none of them changes: a numbering carried out is not undone.     *)
LEMMA NumbersStay ==
  ASSUME NEW Keys, NEW order \in Seq(Keys), NEW current,
         \A i, j \in 1 .. Len(order) : order[i] = order[j] => i = j,
         NEW f,
         \A i \in 1 .. Len(order) :
           f[i] \in 1 .. MaxPrefix /\ \A j \in 1 .. Len(order) : i < j => f[i] < f[j],
         \A i \in 1 .. Len(order) : order[i] \in DOMAIN current => current[order[i]] = f[i]
  PROVE  \A i \in 1 .. Len(order) :
           order[i] \in DOMAIN current => AssignPrefixes(order, current)[order[i]] = f[i]
<1> DEFINE n   == Len(order)
           g   == [i \in 1 .. n |-> f[i]]
           new == Assigned(order, current)
           all == {i \in 1 .. n : order[i] \in DOMAIN current}
<1>1. n \in Nat
  OBVIOUS
<1>2. g \in [1 .. n -> 1 .. MaxPrefix] /\ \A i \in 1 .. n - 1 : g[i] < g[i + 1]
  <2>1. \A i \in 1 .. n - 1 : i \in 1 .. n /\ i + 1 \in 1 .. n /\ i < i + 1
    BY <1>1
  <2>2. QED BY <2>1
<1>3. \A i \in 1 .. n : order[i] \in DOMAIN current => current[order[i]] \in Int
  <2>1. \A p \in 1 .. MaxPrefix : p \in Int
    BY PrefixAssumption
  <2>2. QED BY <2>1
<1>4. Cardinality(KeptPlaces(order, current, g)) <= Cardinality(KeptPlaces(order, current, new))
  BY <1>2, <1>3, MostAreKept
<1>5. KeptPlaces(order, current, g) = all
  BY DEF KeptPlaces
<1> DEFINE still == KeptPlaces(order, current, new)
<1>6. still \subseteq all /\ still = {i \in 1 .. n : order[i] \in DOMAIN current /\ current[order[i]] = new[i]}
  BY DEF KeptPlaces
<1>7. IsFiniteSet(all) /\ Cardinality(all) \in Nat
  <2>1. all \subseteq 1 .. n
    OBVIOUS
  <2> HIDE DEF all
  <2>2. IsFiniteSet(1 .. n)
    BY <1>1, FS_Interval
  <2>3. IsFiniteSet(all)
    BY <2>1, <2>2, FS_Subset
  <2>4. QED BY <2>3, FS_CardinalityType
<1> HIDE DEF all, still
<1>8. Cardinality(still) \in Nat /\ Cardinality(still) <= Cardinality(all)
  BY <1>6, <1>7, FS_Subset, FS_CardinalityType
<1>9. Cardinality(all) <= Cardinality(still)
  BY <1>4, <1>5 DEF still
<1>10. Cardinality(all) = Cardinality(still)
  BY <1>7, <1>8, <1>9
<1>11. all = still
  BY <1>6, <1>7, <1>10, FS_Subset
<1>12. \A i \in 1 .. n : order[i] \in DOMAIN current => current[order[i]] = new[i]
  BY <1>6, <1>11 DEF all
<1>13. QED BY <1>12 DEF Assigned
=============================================================================
