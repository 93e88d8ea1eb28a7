-------------------------- MODULE CollectionFacts --------------------------
(***************************************************************************)
(* Facts about naturals, arrangements and sequences that the proofs of     *)
(* several components rest on. Where a fact needs induction it is had from *)
(* the least counterexample, which a set of naturals has.                  *)
(***************************************************************************)
EXTENDS Integers, SequencesExt, FiniteSetTheorems, FunctionTheorems, TLAPS

\* Every nonempty set of naturals has a least element.
LEMMA LeastNat ==
    ASSUME NEW T \in SUBSET Nat, T # {}
    PROVE  \E x \in T : \A y \in T : x <= y
<1>1. \E x \in T : \A y \in T : <<y, x>> \notin OpToRel(<, Nat)
  BY NatLessThanWellFounded, WFMin
<1>2. PICK x \in T : \A y \in T : <<y, x>> \notin OpToRel(<, Nat)
  BY <1>1
<1>3. \A y \in T : ~(y < x)
  BY <1>2 DEF OpToRel
<1> QED
  BY <1>3
\* And a greatest one, when it is bounded.
LEMMA GreatestNat ==
    ASSUME NEW T \in SUBSET Nat, T # {}, NEW bound \in Nat, \A x \in T : x <= bound
    PROVE  \E x \in T : \A y \in T : y <= x
<1> DEFINE below == {bound - x : x \in T}
<1>1. below \in SUBSET Nat /\ below # {}
  <2>1. \A x \in T : bound - x \in Nat
    OBVIOUS
  <2>2. below \subseteq Nat
    BY <2>1
  <2>3. PICK x \in T : TRUE
    OBVIOUS
  <2>4. bound - x \in below
    BY <2>3
  <2> QED
    BY <2>2, <2>4
<1>2. PICK d \in below : \A e \in below : d <= e
  BY <1>1, LeastNat
<1>3. PICK x \in T : d = bound - x
  BY <1>2
<1>4. \A y \in T : bound - y \in below /\ d <= bound - y
  BY <1>2
<1> QED
  BY <1>3, <1>4

\* A finite set of naturals is bounded, so it has one too.
LEMMA FiniteIsBounded ==
    ASSUME NEW T \in SUBSET Nat, IsFiniteSet(T)
    PROVE  \E bound \in Nat : \A x \in T : x <= bound
<1>1. PICK n \in Nat : \E f \in Surjection(1..n, T) : TRUE
  BY FS_NatSurjection DEF ExistsSurjection
<1>2. PICK f \in Surjection(1..n, T) : TRUE
  BY <1>1
<1>3. f \in [1..n -> T] /\ \A x \in T : \E i \in 1..n : f[i] = x
  BY Fun_SurjectionProperties
<1> DEFINE Bounded(k) == \E bound \in Nat : \A i \in 1..k : f[i] <= bound
           fails == {k \in 0..n : ~Bounded(k)}
<1>4. fails = {}
  <2> SUFFICES ASSUME fails # {} PROVE FALSE
    OBVIOUS
  <2>1. PICK k \in fails : \A m \in fails : k <= m
    <3>1. fails \in SUBSET Nat
      OBVIOUS
    <3> HIDE DEF fails
    <3> QED
      BY <3>1, LeastNat
  <2>2. k \in Nat /\ k <= n /\ ~Bounded(k)
    BY <2>1
  <2>3. k # 0
    <3>1. \A i \in 1..0 : f[i] <= 0
      OBVIOUS
    <3>2. Bounded(0)
      BY <3>1
    <3> HIDE DEF Bounded
    <3> QED
      BY <2>2, <3>2
  <2>4. PICK j \in Nat : j = k - 1 /\ j <= n /\ ~(k <= j)
    BY <2>2, <2>3
  <2>5. Bounded(j)
    <3> HIDE DEF Bounded
    <3> QED
      BY <2>1, <2>4
  <2>6. PICK bound \in Nat : \A i \in 1..j : f[i] <= bound
    BY <2>5
  <2>7. k \in 1..n /\ f[k] \in T /\ f[k] \in Nat
    <3>1. k \in 1..n
      BY <2>2, <2>3
    <3> QED
      BY <1>3, <3>1
  <2>8. PICK larger \in Nat : bound <= larger /\ f[k] <= larger
    <3>1. PICK v \in Nat : v = f[k]
      BY <2>7
    <3>2. bound + v \in Nat /\ bound <= bound + v /\ v <= bound + v
      OBVIOUS
    <3> QED
      BY <3>1, <3>2
  <2>9. ASSUME NEW i \in 1..k PROVE f[i] <= larger
    <3>1. CASE i = k
      BY <2>8, <3>1
    <3>2. CASE i # k
      <4>1. i \in 1..j /\ i \in 1..n
        BY <2>2, <2>4, <3>2
      <4>2. PICK v \in Nat : v = f[i]
        BY <1>3, <4>1
      <4>3. v <= bound
        BY <2>6, <4>1, <4>2
      <4>4. v <= larger
        BY <2>8, <4>3
      <4> QED
        BY <4>2, <4>4
    <3> QED
      BY <3>1, <3>2
  <2> QED
    BY <2>2, <2>9
<1>5. Bounded(n)
  <2> HIDE DEF Bounded
  <2>1. n \in 0..n
    OBVIOUS
  <2> QED
    BY <1>4, <2>1
<1>6. PICK bound \in Nat : \A i \in 1..n : f[i] <= bound
  BY <1>5
<1> QED
  BY <1>3, <1>6

-----------------------------------------------------------------------------
(* Division.                                                               *)

\* Dividing leaves a remainder less than the divisor.
LEMMA Remainder ==
    ASSUME NEW a \in Nat, NEW w \in Nat \ {0}
    PROVE  \E k \in Nat, r \in 0..w - 1 : r = a % w /\ a = w * k + r
<1>1. PICK k : k = a \div w
  OBVIOUS
<1>2. PICK r : r = a % w
  OBVIOUS
<1>3. k \in Nat /\ r \in 0..w - 1
  BY <1>1, <1>2
<1>4. a = w * k + r
  BY <1>1, <1>2, <1>3
<1> QED
  BY <1>2, <1>3, <1>4

\* ... and the quotient is not too large.
LEMMA Quotient ==
    ASSUME NEW a \in Nat, NEW w \in Nat \ {0}
    PROVE  \E k \in Nat : k = a \div w /\ w * k <= a
<1>1. PICK k : k = a \div w
  OBVIOUS
<1>2. PICK r : r = a % w
  OBVIOUS
<1>3. k \in Nat /\ r \in 0..w - 1
  BY <1>1, <1>2
<1>4. a = w * k + r
  BY <1>1, <1>2, <1>3
<1> QED
  BY <1>1, <1>3, <1>4

\* Of two multiples, the larger is at least one divisor away.
LEMMA NextMultiple ==
    ASSUME NEW k \in Nat, NEW d \in Nat, NEW w \in Nat \ {0}, k < d
    PROVE  w * k + w <= w * d
<1>1. d - k \in Nat /\ d - k >= 1
  OBVIOUS
<1>2. w * (d - k) >= w
  BY <1>1
<1>3. w * (d - k) = w * d - w * k
  OBVIOUS
<1> QED
  BY <1>2, <1>3

\* A multiple leaves no remainder.
LEMMA RemainderOfMultiple ==
    ASSUME NEW k \in Nat, NEW w \in Nat \ {0}
    PROVE  (w * k) % w = 0
<1>1. w * k \in Nat
  OBVIOUS
<1>2. PICK d \in Nat, r \in 0..w - 1 : r = (w * k) % w /\ w * k = w * d + r
  BY <1>1, Remainder
<1>3. ~(k < d) /\ ~(d < k)
  BY <1>2, NextMultiple
<1>4. r = 0
  BY <1>2, <1>3
<1> QED
  BY <1>2, <1>4

\* There is but one quotient and one remainder.
LEMMA DivisionIs ==
    ASSUME NEW k \in Nat, NEW w \in Nat \ {0}, NEW r \in 0..w - 1, NEW a, a = w * k + r
    PROVE  a \in Nat /\ a \div w = k /\ a % w = r
<1>1. w * k \in Nat /\ a \in Nat
  OBVIOUS
<1>2. PICK q : q = a \div w
  OBVIOUS
<1>3. PICK s : s = a % w
  OBVIOUS
<1>4. q \in Nat /\ s \in 0..w - 1 /\ a = w * q + s
  BY <1>1, <1>2, <1>3
<1>5. ~(k < q)
  <2>1. k < q => w * k + w <= w * q
    BY <1>4, NextMultiple
  <2>2. PICK x \in Nat : x = w * k
    BY <1>1
  <2>3. PICK y \in Nat : y = w * q
    BY <1>4
  <2> QED
    BY <1>4, <2>1, <2>2, <2>3
<1>6. ~(q < k)
  <2>1. q < k => w * q + w <= w * k
    BY <1>4, NextMultiple
  <2>2. PICK x \in Nat : x = w * k
    BY <1>1
  <2>3. PICK y \in Nat : y = w * q
    BY <1>4
  <2> QED
    BY <1>4, <2>1, <2>2, <2>3
<1>7. q = k
  BY <1>4, <1>5, <1>6
<1>8. s = r
  BY <1>4, <1>7
<1> QED
  BY <1>1, <1>2, <1>3, <1>7, <1>8

\* A product grows with its factors.
LEMMA ProductGrows ==
    ASSUME NEW a \in Nat, NEW b \in Nat, NEW c \in Nat, NEW d \in Nat, a <= c, b <= d
    PROVE  a * b \in Nat /\ a * b <= c * d
<1>1. a * b <= a * d
  <2>1. a * (d - b) >= 0 /\ a * (d - b) = a * d - a * b
    OBVIOUS
  <2> QED
    BY <2>1
<1>2. a * d <= c * d
  <2>1. (c - a) * d >= 0 /\ (c - a) * d = c * d - a * d
    OBVIOUS
  <2> QED
    BY <2>1
<1> QED
  BY <1>1, <1>2

\* Of fewer than w * n, dividing by w gives less than n.
LEMMA QuotientIsLess ==
    ASSUME NEW n \in Nat, NEW w \in Nat, NEW a \in 0..w * n - 1
    PROVE  /\ w > 0 /\ n > 0
           /\ \E k \in 0..n - 1, r \in 0..w - 1 : k = a \div w /\ r = a % w /\ a = w * k + r
<1>1. w # 0 /\ n # 0
  <2>1. w * n > 0
    OBVIOUS
  <2> QED
    BY <2>1
<1>2. a \in Nat
  OBVIOUS
<1>3. PICK k : k = a \div w
  OBVIOUS
<1>4. PICK r : r = a % w
  OBVIOUS
<1>5. k \in Nat /\ r \in 0..w - 1 /\ a = w * k + r
  BY <1>1, <1>2, <1>3, <1>4
<1>6. k < n
  <2> SUFFICES ASSUME n <= k PROVE FALSE
    BY <1>5
  <2>1. w * n <= w * k
    BY <1>5, ProductGrows
  <2>2. PICK x \in Int : x = w * n
    OBVIOUS
  <2>3. PICK y \in Int : y = w * k
    BY <1>5
  <2> QED
    BY <1>5, <2>1, <2>2, <2>3
<1> QED
  BY <1>1, <1>3, <1>4, <1>5, <1>6

-----------------------------------------------------------------------------
(* Recursion along 0..n: s[0] is given, and each s[k] is made of k and     *)
(* s[k - 1]. What a recursive function of the models is, says CHOOSE.      *)

Steps(s, n, e, step) == s = [k \in 0..n |-> IF k = 0 THEN e ELSE step[<<k, s[k - 1]>>]]

\* Whatever the steps are, there is a function that takes them.
LEMMA StepsExist ==
    ASSUME NEW n \in Nat, NEW S, NEW e \in S, NEW step \in [(1..n) \X S -> S]
    PROVE  \E s \in [0..n -> S] : Steps(s, n, e, step)
<1> DEFINE Solved(s, m) == \A k \in 0..m : s[k] = IF k = 0 THEN e ELSE step[<<k, s[k - 1]>>]
           fails == {m \in 0..n : ~\E s \in [0..m -> S] : Solved(s, m)}
<1>1. fails = {}
  <2> SUFFICES ASSUME fails # {} PROVE FALSE
    OBVIOUS
  <2>1. PICK m \in fails : \A k \in fails : m <= k
    <3>1. fails \in SUBSET Nat
      OBVIOUS
    <3> HIDE DEF fails
    <3> QED
      BY <3>1, LeastNat
  <2>2. CASE m = 0
    <3> DEFINE none == [k \in 0..0 |-> e]
    <3>1. none \in [0..0 -> S] /\ Solved(none, 0)
      OBVIOUS
    <3> QED
      BY <2>1, <2>2, <3>1
  <2>3. CASE m # 0
    <3>1. m - 1 \in 0..n /\ m \in 1..n /\ ~(m <= m - 1)
      BY <2>1, <2>3
    <3>0. m - 1 \notin fails
      <4> HIDE DEF fails
      <4> QED
        BY <2>1, <3>1
    <3>2. PICK g \in [0..m - 1 -> S] : Solved(g, m - 1)
      BY <3>0, <3>1
    <3> DEFINE h == [k \in 0..m |-> IF k = m THEN step[<<m, g[m - 1]>>] ELSE g[k]]
    <3>3. g[m - 1] \in S /\ step[<<m, g[m - 1]>>] \in S
      BY <3>1
    <3>4. h \in [0..m -> S]
      BY <3>1, <3>3
    <3>5. ASSUME NEW k \in 0..m PROVE h[k] = IF k = 0 THEN e ELSE step[<<k, h[k - 1]>>]
      <4>1. CASE k = m
        <5>1. k # 0 /\ h[k - 1] = g[m - 1] /\ h[k] = step[<<m, g[m - 1]>>]
          BY <2>3, <3>1, <4>1
        <5> QED
          BY <4>1, <5>1
      <4>2. CASE k # m
        <5>1. k \in 0..m - 1 /\ h[k] = g[k] /\ (k # 0 => h[k - 1] = g[k - 1])
          BY <3>1, <4>2
        <5> QED
          BY <3>2, <5>1
      <4> QED
        BY <4>1, <4>2
    <3> QED
      BY <2>1, <3>4, <3>5
  <2> QED
    BY <2>2, <2>3
<1>2. PICK s \in [0..n -> S] : Solved(s, n)
  <2>1. n \in 0..n
    OBVIOUS
  <2> QED
    BY <1>1, <2>1
<1>3. Steps(s, n, e, step)
  BY <1>2 DEF Steps
<1> QED
  BY <1>3

\* What every step keeps is kept.
LEMMA StepsStay ==
    ASSUME NEW n \in Nat, NEW S, NEW s, s[0] \in S, \A k \in 1..n : s[k - 1] \in S => s[k] \in S
    PROVE  \A k \in 0..n : s[k] \in S
<1> DEFINE leaves == {k \in 0..n : s[k] \notin S}
<1> SUFFICES ASSUME leaves # {} PROVE FALSE
  OBVIOUS
<1>1. PICK k \in leaves : \A j \in leaves : k <= j
  <2>1. leaves \in SUBSET Nat
    OBVIOUS
  <2> HIDE DEF leaves
  <2> QED
    BY <2>1, LeastNat
<1>2. k \in 1..n /\ k - 1 \in 0..n /\ k - 1 \notin leaves
  BY <1>1
<1> QED
  BY <1>1, <1>2

-----------------------------------------------------------------------------
(* Sorting. A strict order of 1..n as a set of pairs, and an arrangement   *)
(* of 1..n that follows it.                                                *)

Follows(f, n, R) == \A p, q \in 1..n : p < q => <<f[p], f[q]>> \in R
EachOnce(f, n) == /\ \A p, q \in 1..n : f[p] = f[q] => p = q
                  /\ \A i \in 1..n : \E p \in 1..n : f[p] = i
StrictOrder(n, R) ==
    /\ \A i \in 1..n : <<i, i>> \notin R
    /\ \A i, j \in 1..n : i = j \/ <<i, j>> \in R \/ <<j, i>> \in R
    /\ \A i, j, k \in 1..n : <<i, j>> \in R /\ <<j, k>> \in R => <<i, k>> \in R

\* There is one: i's place is the number of those that come before it.
LEMMA SortExists ==
    ASSUME NEW n \in Nat, NEW R, StrictOrder(n, R)
    PROVE  \E f \in [1..n -> 1..n] : Follows(f, n, R)
<1> USE DEF StrictOrder
<1> DEFINE D == 1..n
           before(i) == {j \in D : <<j, i>> \in R}
           rank == [i \in D |-> Cardinality(before(i)) + 1]
<1>1. IsFiniteSet(D) /\ Cardinality(D) = n
  BY FS_Interval
<1>2. ASSUME NEW i \in D
      PROVE  IsFiniteSet(before(i)) /\ Cardinality(before(i)) \in 0..n - 1
  <2>1. before(i) \subseteq D \ {i}
    OBVIOUS
  <2>2. IsFiniteSet(D \ {i}) /\ Cardinality(D \ {i}) = n - 1
    BY <1>1, FS_RemoveElement
  <2> HIDE DEF D, before
  <2>3. IsFiniteSet(before(i)) /\ Cardinality(before(i)) <= n - 1
    BY <2>1, <2>2, FS_Subset
  <2> QED
    BY <2>3, FS_CardinalityType
<1>3. rank \in [D -> D]
  BY <1>2
<1>4. ASSUME NEW i \in D, NEW j \in D, <<i, j>> \in R
      PROVE  rank[i] < rank[j]
  <2>1. before(i) \subseteq before(j) /\ i \in before(j) /\ i \notin before(i)
    BY <1>4
  <2>0. rank[i] = Cardinality(before(i)) + 1 /\ rank[j] = Cardinality(before(j)) + 1
    OBVIOUS
  <2> HIDE DEF before, rank
  <2>2. IsFiniteSet(before(j)) /\ Cardinality(before(i)) \in Nat /\ Cardinality(before(j)) \in Nat
    BY <1>2
  <2>3. Cardinality(before(i)) <= Cardinality(before(j)) /\ Cardinality(before(i)) # Cardinality(before(j))
    BY <2>1, <2>2, FS_Subset
  <2>4. Cardinality(before(i)) < Cardinality(before(j))
    BY <2>2, <2>3
  <2> QED
    BY <2>0, <2>2, <2>4
<1> HIDE DEF rank
<1>5. rank \in Injection(D, D)
  <2>1. ASSUME NEW i \in D, NEW j \in D, rank[i] = rank[j] PROVE i = j
    <3>1. rank[i] \in Nat /\ rank[j] \in Nat
      BY <1>3
    <3>2. <<i, j>> \notin R /\ <<j, i>> \notin R
      BY <1>4, <2>1, <3>1
    <3> QED
      BY <3>2
  <2> QED
    BY <1>3, <2>1, Fun_IsInj
<1>6. \A p \in D : \E i \in D : rank[i] = p
  <2> HIDE DEF D
  <2> QED
    BY <1>1, <1>5, FS_Injection, Fun_SurjectionProperties
<1> DEFINE f == [p \in D |-> CHOOSE i \in D : rank[i] = p]
<1>7. \A p \in D : f[p] \in D /\ rank[f[p]] = p
  BY <1>6
<1>8. f \in [1..n -> 1..n]
  BY <1>7
<1>9. Follows(f, n, R)
  <2> SUFFICES ASSUME NEW p \in D, NEW q \in D, p < q PROVE <<f[p], f[q]>> \in R
    BY DEF Follows
  <2>1. f[p] # f[q] /\ ~(rank[f[q]] < rank[f[p]])
    BY <1>7
  <2> QED
    BY <1>4, <1>7, <2>1
<1> QED
  BY <1>8, <1>9

\* Whichever it is, each of 1..n is at one place of it.
LEMMA SortIsPermutation ==
    ASSUME NEW n \in Nat, NEW R, StrictOrder(n, R), NEW f \in [1..n -> 1..n], Follows(f, n, R)
    PROVE  EachOnce(f, n)
<1> DEFINE D == 1..n
<1>1. ASSUME NEW p \in D, NEW q \in D, f[p] = f[q] PROVE p = q
  <2>1. ~(p < q) /\ ~(q < p)
    BY <1>1 DEF StrictOrder, Follows
  <2> QED
    BY <2>1
<1>2. IsFiniteSet(D)
  BY FS_Interval
<1>0. f \in [D -> D]
  OBVIOUS
<1> HIDE DEF D
<1>3. f \in Injection(D, D)
  BY <1>1, <1>0, Fun_IsInj
<1>4. f \in Surjection(D, D)
  BY <1>2, <1>3, FS_Injection
<1>5. \A i \in D : \E p \in D : f[p] = i
  BY <1>4, Fun_SurjectionProperties
<1> QED
  BY <1>1, <1>5 DEF D, EachOnce

-----------------------------------------------------------------------------
(* Flattening. The function FlattenSeq is defined with, of the first n of  *)
(* the sequences, and what it does to one more.                            *)

Flattens(g, s, n) == g = [i \in 1..n |-> IF i = 1 THEN s[i] ELSE g[i - 1] \o s[i]]

\* The equation has a solution at every length.
LEMMA FlattenExists ==
    ASSUME NEW s, NEW n \in Nat
    PROVE  \E g : Flattens(g, s, n)
<1> DEFINE fails == {m \in Nat : ~\E g : Flattens(g, s, m)}
<1> SUFFICES ASSUME fails # {} PROVE FALSE
  OBVIOUS
<1>1. PICK m \in fails : \A k \in fails : m <= k
  <2>1. fails \in SUBSET Nat
    OBVIOUS
  <2> HIDE DEF fails
  <2> QED
    BY <2>1, LeastNat
<1>2. CASE m = 0
  <2> DEFINE none == [i \in 1..0 |-> s[i]]
  <2>1. 1..0 = {}
    OBVIOUS
  <2>2. none = [i \in 1..0 |-> IF i = 1 THEN s[i] ELSE none[i - 1] \o s[i]]
    BY <2>1
  <2>3. Flattens(none, s, 0)
    BY <2>2 DEF Flattens
  <2> QED
    BY <1>2, <2>3
<1>3. CASE m > 0
  <2>1. m - 1 \in Nat /\ m - 1 \notin fails
    BY <1>1, <1>3
  <2>2. PICK g : Flattens(g, s, m - 1)
    BY <2>1
  <2> DEFINE last == IF m = 1 THEN s[m] ELSE g[m - 1] \o s[m]
             h == [i \in 1..m |-> IF i = m THEN last ELSE g[i]]
  <2>3. \A i \in 1..m - 1 : g[i] = IF i = 1 THEN s[i] ELSE g[i - 1] \o s[i]
    BY <2>1, <2>2 DEF Flattens
  <2>4. ASSUME NEW i \in 1..m
        PROVE  h[i] = IF i = 1 THEN s[i] ELSE h[i - 1] \o s[i]
    <3>1. CASE i = m /\ m = 1
      BY <3>1
    <3>2. CASE i = m /\ m # 1
      <4>1. h[i] = g[m - 1] \o s[m]
        BY <3>2
      <4>2. i - 1 \in 1..m /\ i - 1 # m
        BY <1>1, <3>2
      <4>3. h[i - 1] = g[i - 1]
        BY <4>2
      <4> QED
        BY <3>2, <4>1, <4>3
    <3>3. CASE i # m
      <4>1. i \in 1..m - 1 /\ h[i] = g[i] /\ (i # 1 => h[i - 1] = g[i - 1])
        BY <1>1, <3>3
      <4> QED
        BY <2>3, <4>1
    <3> QED
      BY <3>1, <3>2, <3>3
  <2>5. Flattens(h, s, m)
    <3> HIDE DEF last
    <3>1. h = [i \in 1..m |-> h[i]]
      OBVIOUS
    <3>2. [i \in 1..m |-> h[i]] = [i \in 1..m |-> IF i = 1 THEN s[i] ELSE h[i - 1] \o s[i]]
      BY <2>4
    <3> HIDE DEF h
    <3> QED
      BY <3>1, <3>2 DEF Flattens
  <2> QED
    BY <1>1, <2>5
<1> QED
  BY <1>1, <1>2, <1>3

\* And what it solves to depends on the first sequences only.
LEMMA FlattenAgrees ==
    ASSUME NEW n \in Nat, NEW k \in 0..n, NEW s, NEW g, Flattens(g, s, n),
           NEW t, NEW h, Flattens(h, t, k), \A i \in 1..k : s[i] = t[i]
    PROVE  \A i \in 1..k : g[i] = h[i]
<1> DEFINE differ == {i \in 1..k : g[i] # h[i]}
<1> SUFFICES ASSUME differ # {} PROVE FALSE
  OBVIOUS
<1>1. PICK i \in differ : \A j \in differ : i <= j
  <2>1. differ \in SUBSET Nat
    OBVIOUS
  <2> HIDE DEF differ
  <2> QED
    BY <2>1, LeastNat
<1>2. /\ g[i] = IF i = 1 THEN s[i] ELSE g[i - 1] \o s[i]
      /\ h[i] = IF i = 1 THEN t[i] ELSE h[i - 1] \o t[i]
  <2>1. i \in 1..n /\ i \in 1..k
    BY <1>1
  <2> QED
    BY <2>1 DEF Flattens
<1>3. i # 1 => i - 1 \in 1..k /\ i - 1 \notin differ
  BY <1>1
<1> QED
  BY <1>1, <1>2, <1>3

\* What it solves to are sequences of the same elements.
LEMMA FlattenType ==
    ASSUME NEW P, NEW n \in Nat, NEW s \in [1..n -> Seq(P)], NEW g, Flattens(g, s, n)
    PROVE  \A i \in 1..n : g[i] \in Seq(P)
<1> DEFINE wrong == {i \in 1..n : g[i] \notin Seq(P)}
<1> SUFFICES ASSUME wrong # {} PROVE FALSE
  OBVIOUS
<1>1. PICK i \in wrong : \A j \in wrong : i <= j
  <2>1. wrong \in SUBSET Nat
    OBVIOUS
  <2> HIDE DEF wrong
  <2> QED
    BY <2>1, LeastNat
<1>2. g[i] = IF i = 1 THEN s[i] ELSE g[i - 1] \o s[i]
  BY <1>1 DEF Flattens
<1>3. i # 1 => g[i - 1] \in Seq(P)
  BY <1>1
<1>4. s[i] \in Seq(P) /\ g[i] \notin Seq(P)
  BY <1>1
<1>5. \A a, b \in Seq(P) : a \o b \in Seq(P)
  OBVIOUS
<1> QED
  BY <1>2, <1>3, <1>4, <1>5

\* Nothing flattens to nothing.
LEMMA FlattenNone == ASSUME NEW s, s = <<>> PROVE FlattenSeq(s) = <<>>
BY DEF FlattenSeq

\* One more sequence goes to the end.
LEMMA FlattenOneMore ==
    ASSUME NEW P, NEW k \in Nat, NEW s \in [1..k + 1 -> Seq(P)],
           NEW t \in [1..k -> Seq(P)], \A i \in 1..k : t[i] = s[i]
    PROVE  FlattenSeq(t) \in Seq(P) /\ FlattenSeq(s) = FlattenSeq(t) \o s[k + 1]
<1>1. s \in Seq(Seq(P)) /\ Len(s) = k + 1 /\ t \in Seq(Seq(P)) /\ Len(t) = k
  OBVIOUS
<1> DEFINE g == CHOOSE g : Flattens(g, s, k + 1)
           h == CHOOSE h : Flattens(h, t, k)
<1>2. Flattens(g, s, k + 1) /\ Flattens(h, t, k)
  <2>1. \E f : Flattens(f, s, k + 1)
    <3>1. k + 1 \in Nat
      OBVIOUS
    <3> QED
      BY <3>1, FlattenExists
  <2>2. \E f : Flattens(f, t, k)
    BY FlattenExists
  <2> QED
    BY <2>1, <2>2
<1>3. FlattenSeq(s) = g[k + 1] /\ FlattenSeq(t) = IF k = 0 THEN <<>> ELSE h[k]
  BY <1>1 DEF FlattenSeq, Flattens
<1> HIDE DEF g, h
<1>4. g[k + 1] = IF k = 0 THEN s[k + 1] ELSE g[k] \o s[k + 1]
  <2>1. k + 1 \in 1..k + 1 /\ (k + 1 = 1 <=> k = 0) /\ k + 1 - 1 = k
    OBVIOUS
  <2>2. \A i \in 1..k + 1 : g[i] = IF i = 1 THEN s[i] ELSE g[i - 1] \o s[i]
    BY <1>2 DEF Flattens
  <2>3. g[k + 1] = IF k + 1 = 1 THEN s[k + 1] ELSE g[k + 1 - 1] \o s[k + 1]
    BY <2>1, <2>2
  <2> QED
    BY <2>1, <2>3
<1>5. CASE k = 0
  BY <1>3, <1>4, <1>5
<1>6. CASE k # 0
  <2>0. k \in 1..k /\ k + 1 \in Nat /\ k <= k + 1 /\ k <= k
    BY <1>6
  <2>1. \A i \in 1..k : g[i] = h[i]
    <3>1. \A i \in 1..k : s[i] = t[i]
      OBVIOUS
    <3>2. PICK n \in Nat : n = k + 1
      BY <2>0
    <3>3. Flattens(g, s, n) /\ k \in 0..n
      BY <1>2, <2>0, <3>2
    <3> QED
      BY <1>2, <3>1, <3>3, FlattenAgrees
  <2>2. \A i \in 1..k : h[i] \in Seq(P)
    BY <1>2, FlattenType
  <2> QED
    BY <1>3, <1>4, <1>6, <2>0, <2>1, <2>2
<1> QED
  BY <1>5, <1>6

=============================================================================
