---------------------------- MODULE EncodersProofs ----------------------------
(***************************************************************************)
(* No encoder makes a NaN or an infinity, for any checkpoint of finite     *)
(* numbers, any texts, widths, windows, budgets and register tiles: where  *)
(* a mask has shut everything out that is a token, softmax is still given  *)
(* a key, and no kernel reads or writes past a buffer.                     *)
(*                                                                         *)
(* An element that is read is one that is there: that is most of the work, *)
(* as every view, block, tile and lane computes where it reads.            *)
(***************************************************************************)
EXTENDS Encoders, CollectionFacts

-----------------------------------------------------------------------------
(* Numbers stay numbers.                                                   *)

\* Every residue but 0 has an inverse.
LEMMA InversesExist == \A a \in 1..60 : \E b \in 0..60 : (a * b) % 61 = 1
<1>1. \A a \in 1..12 : \E b \in 0..60 : (a * b) % 61 = 1
  <2>1. /\ (1 * 1) % 61 = 1 /\ (2 * 31) % 61 = 1 /\ (3 * 41) % 61 = 1 /\ (4 * 46) % 61 = 1
        /\ (5 * 49) % 61 = 1 /\ (6 * 51) % 61 = 1 /\ (7 * 35) % 61 = 1 /\ (8 * 23) % 61 = 1
        /\ (9 * 34) % 61 = 1 /\ (10 * 55) % 61 = 1 /\ (11 * 50) % 61 = 1 /\ (12 * 56) % 61 = 1
    OBVIOUS
  <2> QED
    BY <2>1
<1>2. \A a \in 13..24 : \E b \in 0..60 : (a * b) % 61 = 1
  <2>1. /\ (13 * 47) % 61 = 1 /\ (14 * 48) % 61 = 1 /\ (15 * 57) % 61 = 1 /\ (16 * 42) % 61 = 1
        /\ (17 * 18) % 61 = 1 /\ (18 * 17) % 61 = 1 /\ (19 * 45) % 61 = 1 /\ (20 * 58) % 61 = 1
        /\ (21 * 32) % 61 = 1 /\ (22 * 25) % 61 = 1 /\ (23 * 8) % 61 = 1 /\ (24 * 28) % 61 = 1
    OBVIOUS
  <2> QED
    BY <2>1
<1>3. \A a \in 25..36 : \E b \in 0..60 : (a * b) % 61 = 1
  <2>1. /\ (25 * 22) % 61 = 1 /\ (26 * 54) % 61 = 1 /\ (27 * 52) % 61 = 1 /\ (28 * 24) % 61 = 1
        /\ (29 * 40) % 61 = 1 /\ (30 * 59) % 61 = 1 /\ (31 * 2) % 61 = 1 /\ (32 * 21) % 61 = 1
        /\ (33 * 37) % 61 = 1 /\ (34 * 9) % 61 = 1 /\ (35 * 7) % 61 = 1 /\ (36 * 39) % 61 = 1
    OBVIOUS
  <2> QED
    BY <2>1
<1>4. \A a \in 37..48 : \E b \in 0..60 : (a * b) % 61 = 1
  <2>1. /\ (37 * 33) % 61 = 1 /\ (38 * 53) % 61 = 1 /\ (39 * 36) % 61 = 1 /\ (40 * 29) % 61 = 1
        /\ (41 * 3) % 61 = 1 /\ (42 * 16) % 61 = 1 /\ (43 * 44) % 61 = 1 /\ (44 * 43) % 61 = 1
        /\ (45 * 19) % 61 = 1 /\ (46 * 4) % 61 = 1 /\ (47 * 13) % 61 = 1 /\ (48 * 14) % 61 = 1
    OBVIOUS
  <2> QED
    BY <2>1
<1>5. \A a \in 49..60 : \E b \in 0..60 : (a * b) % 61 = 1
  <2>1. /\ (49 * 5) % 61 = 1 /\ (50 * 11) % 61 = 1 /\ (51 * 6) % 61 = 1 /\ (52 * 27) % 61 = 1
        /\ (53 * 38) % 61 = 1 /\ (54 * 26) % 61 = 1 /\ (55 * 10) % 61 = 1 /\ (56 * 12) % 61 = 1
        /\ (57 * 15) % 61 = 1 /\ (58 * 20) % 61 = 1 /\ (59 * 30) % 61 = 1 /\ (60 * 60) % 61 = 1
    OBVIOUS
  <2> QED
    BY <2>1
<1>6. \A a \in 1..60 : a \in 1..12 \/ a \in 13..24 \/ a \in 25..36 \/ a \in 37..48 \/ a \in 49..60
  BY SMTT(40)
<1> QED
  BY <1>1, <1>2, <1>3, <1>4, <1>5, <1>6

LEMMA KnownIs == ASSUME NEW f PROVE Known(f) = f
BY DEF Known

LEMMA NumbersAre == Numbers = 0..60 /\ P = 61
BY DEF Numbers, P

\* What is taken modulo P.
LEMMA ResiduesAre == \A a \in Int : a % P \in Numbers
BY DEF Numbers, P

LEMMA PlusStays == \A a, b \in Numbers : Plus(a, b) \in Numbers
BY ResiduesAre DEF Plus, IsNumber, Numbers, P

LEMMA TimesStays == \A a, b \in Numbers : Times(a, b) \in Numbers
<1> SUFFICES ASSUME NEW a \in Numbers, NEW b \in Numbers PROVE Times(a, b) \in Numbers
  OBVIOUS
<1>1. a \in Nat /\ b \in Nat
  BY DEF Numbers, P
<1>2. NegInf \notin {a, b} /\ Floor \notin {a, b} /\ NaN \notin {a, b}
  BY <1>1 DEF NegInf, Floor, NaN
<1>3. {a, b} # {NegInf, 0} /\ {a, b} # {Floor, 0}
  BY <1>2
<1>4. IsNumber(a) /\ IsNumber(b)
  BY <1>1 DEF IsNumber
<1>5. Times(a, b) = (a * b) % P
  BY <1>2, <1>3, <1>4 DEF Times
<1>6. a * b \in Int
  BY <1>1
<1> QED
  BY <1>5, <1>6, ResiduesAre

LEMMA NegStays == \A a \in Numbers : Neg(a) \in Numbers
<1> SUFFICES ASSUME NEW a \in Numbers PROVE Neg(a) \in Numbers
  OBVIOUS
<1>1. P - 1 \in Numbers
  BY NumbersAre
<1> QED
  BY <1>1, TimesStays DEF Neg

LEMMA InvStays == \A a \in Numbers : Inv(a) \in Numbers
<1> SUFFICES ASSUME NEW a \in Numbers PROVE Inv(a) \in Numbers
  OBVIOUS
<1> DEFINE inverse(b) == IF b = 0 THEN 0 ELSE CHOOSE c \in Numbers : (b * c) % P = 1
           table == [b \in Numbers |-> inverse(b)]
<1>0. Inverses = table
  <2> HIDE DEF inverse
  <2>1. Known(table) = table
    BY DEF Known
  <2> QED
    BY <2>1, SMTT(40) DEF Inverses, inverse
<1>1. Inv(a) = inverse(a)
  <2>1. IsNumber(a)
    BY NumbersAre DEF IsNumber
  <2>2. table[a] = inverse(a)
    <3> HIDE DEF inverse
    <3> QED
      OBVIOUS
  <2> QED
    BY <1>0, <2>1, <2>2 DEF Inv
<1>2. CASE a = 0
  BY <1>1, <1>2, NumbersAre
<1>3. CASE a # 0
  <2>1. a \in 1..60
    BY <1>3, NumbersAre
  <2>2. \E b \in Numbers : (a * b) % P = 1
    BY <2>1, InversesExist, NumbersAre
  <2>3. (CHOOSE b \in Numbers : (a * b) % P = 1) \in Numbers
    BY <2>2
  <2> QED
    BY <1>1, <1>3, <2>3
<1> QED
  BY <1>2, <1>3

\* Each is a residue of products and sums of what it is given.
LEMMA FunctionsStay ==
    \A a \in Numbers : /\ Gelu(a) \in Numbers /\ Silu(a) \in Numbers /\ Exp(a) \in Numbers
                       /\ RSqrt(a) \in Numbers /\ Bf16(a) \in Numbers
<1> SUFFICES ASSUME NEW a \in Numbers
             PROVE  /\ Gelu(a) \in Numbers /\ Silu(a) \in Numbers /\ Exp(a) \in Numbers
                    /\ RSqrt(a) \in Numbers /\ Bf16(a) \in Numbers
  OBVIOUS
<1>1. a \in Int /\ IsNumber(a)
  BY NumbersAre DEF IsNumber
<1>2. a * a \in Int /\ a * a * a \in Int
  BY <1>1
<1>3. a * a * a + 7 * a * a + 2 * a \in Int /\ a * a * a * 5 + a * a + 11 * a \in Int
  BY <1>1, <1>2
<1>4. a * a * 3 + a * 17 + 1 \in Int /\ a * a * 13 + 29 * a + 5 \in Int
  BY <1>1, <1>2
<1>5. Gelu(a) \in Numbers /\ Silu(a) \in Numbers
  BY <1>1, <1>3, ResiduesAre DEF Gelu, Silu
<1>6. Exp(a) \in Numbers /\ RSqrt(a) \in Numbers
  BY <1>1, <1>4, ResiduesAre DEF Exp, RSqrt
<1>7. Bf16(a) \in Numbers
  BY <1>1, NumbersAre DEF Bf16
<1> QED
  BY <1>5, <1>6, <1>7

LEMMA AnglesAreNumbers ==
    \A theta, i, pos \in Nat : CosOf(theta, i, pos) \in Numbers /\ SinOf(theta, i, pos) \in Numbers
<1> SUFFICES ASSUME NEW theta \in Nat, NEW i \in Nat, NEW pos \in Nat
             PROVE  CosOf(theta, i, pos) \in Numbers /\ SinOf(theta, i, pos) \in Numbers
  OBVIOUS
<1>1. theta * 7 + (i + 2) * pos * 11 + pos * pos * theta + 3 \in Int
  OBVIOUS
<1>2. theta * 5 + (i + 3) * pos * 19 + pos * pos * (theta + 1) + 8 \in Int
  OBVIOUS
<1> QED
  BY <1>1, <1>2, ResiduesAre DEF CosOf, SinOf

\* What a recursion over 0..n makes, whatever it adds up.
LEMMA SumStays ==
    ASSUME NEW n \in Nat, NEW f, \A k \in 1..n : f[k] \in Numbers
    PROVE  SumOf(f, n) \in Numbers
<1> DEFINE step == [x \in (1..n) \X Numbers |-> Plus(x[2], f[x[1]])]
           Is(s) == s = [k \in 0..n |-> IF k = 0 THEN 0 ELSE Plus(s[k - 1], f[k])]
           chosen == CHOOSE s : Is(s)
<1>1. step \in [(1..n) \X Numbers -> Numbers]
  BY PlusStays
<1>2. 0 \in Numbers
  BY NumbersAre
<1>3. PICK s \in [0..n -> Numbers] : Steps(s, n, 0, step)
  <2> HIDE DEF step
  <2> QED
    BY <1>1, <1>2, StepsExist
<1>4. Is(s)
  <2>1. \A k \in 0..n : k # 0 => k \in 1..n /\ k - 1 \in 0..n
    OBVIOUS
  <2>2. \A k \in 1..n : step[<<k, s[k - 1]>>] = Plus(s[k - 1], f[k])
    BY <2>1
  <2> HIDE DEF step
  <2>3. s = [k \in 0..n |-> IF k = 0 THEN 0 ELSE step[<<k, s[k - 1]>>]]
    BY <1>3 DEF Steps
  <2>4. \A k \in 0..n : s[k] = IF k = 0 THEN 0 ELSE Plus(s[k - 1], f[k])
    BY <2>1, <2>2, <2>3
  <2> QED
    BY <2>4
<1>5. Is(chosen)
  <2> HIDE DEF Is
  <2> QED
    BY <1>4
<1>6. SumOf(f, n) = chosen[n]
  BY DEF SumOf
<1>7. \A k \in 0..n : chosen[k] = IF k = 0 THEN 0 ELSE Plus(chosen[k - 1], f[k])
  BY <1>5
<1> HIDE DEF chosen
<1>8. chosen[0] \in Numbers
  BY <1>2, <1>7
<1>9. \A k \in 1..n : chosen[k - 1] \in Numbers => chosen[k] \in Numbers
  BY <1>7, PlusStays
<1>10. \A k \in 0..n : chosen[k] \in Numbers
  BY <1>8, <1>9, StepsStay, Zenon
<1> QED
  BY <1>6, <1>10

LEMMA DotStays ==
    ASSUME NEW n \in Nat, NEW f, NEW g, \A k \in 0..n - 1 : f[k] \in Numbers /\ g[k] \in Numbers
    PROVE  Dot(f, g, n) \in Numbers
<1> DEFINE step == [x \in (1..n) \X Numbers |-> Plus(x[2], Times(f[x[1] - 1], g[x[1] - 1]))]
           Is(s) == s = [k \in 0..n |-> IF k = 0 THEN 0 ELSE Plus(s[k - 1], Times(f[k - 1], g[k - 1]))]
           chosen == CHOOSE s : Is(s)
<1>0. \A k \in 1..n : Times(f[k - 1], g[k - 1]) \in Numbers
  <2> SUFFICES ASSUME NEW k \in 1..n PROVE Times(f[k - 1], g[k - 1]) \in Numbers
    OBVIOUS
  <2>1. k - 1 \in 0..n - 1
    OBVIOUS
  <2> QED
    BY <2>1, TimesStays
<1>1. step \in [(1..n) \X Numbers -> Numbers]
  BY <1>0, PlusStays
<1>2. 0 \in Numbers
  BY NumbersAre
<1>3. PICK s \in [0..n -> Numbers] : Steps(s, n, 0, step)
  <2> HIDE DEF step
  <2> QED
    BY <1>1, <1>2, StepsExist
<1>4. Is(s)
  <2>1. \A k \in 0..n : k # 0 => k \in 1..n /\ k - 1 \in 0..n
    OBVIOUS
  <2>2. \A k \in 1..n : step[<<k, s[k - 1]>>] = Plus(s[k - 1], Times(f[k - 1], g[k - 1]))
    BY <2>1
  <2> HIDE DEF step
  <2>3. s = [k \in 0..n |-> IF k = 0 THEN 0 ELSE step[<<k, s[k - 1]>>]]
    BY <1>3 DEF Steps
  <2>4. \A k \in 0..n : s[k] = IF k = 0 THEN 0 ELSE Plus(s[k - 1], Times(f[k - 1], g[k - 1]))
    BY <2>1, <2>2, <2>3
  <2> QED
    BY <2>4
<1>5. Is(chosen)
  <2> HIDE DEF Is
  <2> QED
    BY <1>4
<1>6. Dot(f, g, n) = chosen[n]
  BY DEF Dot
<1>7. \A k \in 0..n : chosen[k] = IF k = 0 THEN 0 ELSE Plus(chosen[k - 1], Times(f[k - 1], g[k - 1]))
  BY <1>5
<1> HIDE DEF chosen
<1>8. chosen[0] \in Numbers
  BY <1>2, <1>7
<1>9. \A k \in 1..n : chosen[k - 1] \in Numbers => chosen[k] \in Numbers
  BY <1>0, <1>7, PlusStays
<1>10. \A k \in 0..n : chosen[k] \in Numbers
  BY <1>8, <1>9, StepsStay, Zenon
<1> QED
  BY <1>6, <1>10

-----------------------------------------------------------------------------
(* Rows.                                                                   *)

\* What a mask makes of a number.
Masked == Numbers \union {NegInf, Floor}

LEMMA MaskedAre == /\ \A a \in Masked : IsNumber(a) <=> a \in Numbers
                   /\ NaN \notin Masked /\ NegInf \notin Numbers /\ Floor \notin Numbers
                   /\ NegInf # Floor
BY NumbersAre DEF Masked, IsNumber, NaN, NegInf, Floor

LEMMA SharesStay ==
    ASSUME NEW n \in Nat, NEW weight, \A j \in 0..n - 1 : weight[j] \in Numbers
    PROVE  \A j \in 0..n - 1 : Shares(weight, n)[j] \in Numbers
<1> DEFINE f == [j \in 1..n |-> weight[j - 1]]
           share == Inv(SumOf(f, n))
<1>1. \A k \in 1..n : f[k] \in Numbers
  <2> SUFFICES ASSUME NEW k \in 1..n PROVE weight[k - 1] \in Numbers
    OBVIOUS
  <2>1. k - 1 \in 0..n - 1
    OBVIOUS
  <2> QED
    BY <2>1
<1>2. share \in Numbers
  <2> HIDE DEF f
  <2> QED
    BY <1>1, SumStays, InvStays
<1>3. Shares(weight, n) = [j \in 0..n - 1 |-> Times(weight[j], share)]
  BY DEF Shares
<1> HIDE DEF share
<1> QED
  BY <1>2, <1>3, TimesStays

\* A row that is not shut out everywhere becomes numbers.
LEMMA SoftmaxStays ==
    ASSUME NEW n \in Nat, NEW scores, \A j \in 0..n - 1 : scores[j] \in Masked,
           NEW own \in 0..n - 1, scores[own] # NegInf
    PROVE  \A j \in 0..n - 1 : SoftmaxRow(scores, n)[j] \in Numbers
<1> DEFINE values == {scores[j] : j \in 0..n - 1}
           weights == [j \in 0..n - 1 |-> SoftWeight(values, scores[j])]
<1>1. NaN \notin values
  BY MaskedAre
<1>2. values # {NegInf}
  <2>1. scores[own] \in values
    OBVIOUS
  <2> QED
    BY <2>1
<1>3. SoftmaxRow(scores, n) = Shares(weights, n)
  <2>1. PICK row : row = Known(scores)
    OBVIOUS
  <2>2. row = scores
    BY <2>1, KnownIs
  <2> DEFINE seen == {row[j] : j \in 0..n - 1}
             given == [j \in 0..n - 1 |-> SoftWeight(seen, row[j])]
  <2>3. SoftmaxRow(scores, n) = IF NaN \in seen \/ seen = {NegInf} THEN [j \in 0..n - 1 |-> NaN]
                                ELSE Known(Shares(Known(given), n))
    BY <2>1, Zenon DEF SoftmaxRow
  <2>4. seen = values /\ given = weights
    BY <2>2
  <2>5. Known(Shares(Known(weights), n)) = Shares(weights, n)
    BY KnownIs
  <2> HIDE DEF seen, values, given, weights
  <2> QED
    BY <1>1, <1>2, <2>3, <2>4, <2>5
<1>4. \A j \in 0..n - 1 : weights[j] \in Numbers
  <2> SUFFICES ASSUME NEW a \in Masked PROVE SoftWeight(values, a) \in Numbers
    OBVIOUS
  <2>1. IsNumber(a) => Exp(a) \in Numbers
    BY MaskedAre, FunctionsStay
  <2> HIDE DEF values
  <2> QED
    BY <2>1, NumbersAre DEF SoftWeight
<1> HIDE DEF weights
<1> QED
  BY <1>3, <1>4, SharesStay

LEMMA NormRowStays ==
    ASSUME NEW n \in Nat, NEW row, NEW gamma, NEW eps \in Numbers,
           \A j \in 0..n - 1 : row[j] \in Numbers /\ gamma[j] \in Numbers
    PROVE  \A j \in 0..n - 1 : NormRow(row, n, gamma, eps)[j] \in Numbers
<1> DEFINE f == [j \in 1..n |-> row[j - 1]]
           mean == Times(SumOf(f, n), Inv(n % P))
           off == [j \in 0..n - 1 |-> Plus(row[j], Neg(mean))]
           rs == RSqrt(Plus(Times(Dot(off, off, n), Inv(n % P)), eps))
           normed == [j \in 0..n - 1 |-> Times(Times(off[j], rs), gamma[j])]
<1>1. Inv(n % P) \in Numbers
  <2>1. n % P \in Numbers
    BY ResiduesAre
  <2> QED
    BY <2>1, InvStays
<1>2. mean \in Numbers
  <2>1. \A k \in 1..n : f[k] \in Numbers
    <3> SUFFICES ASSUME NEW k \in 1..n PROVE row[k - 1] \in Numbers
      OBVIOUS
    <3>1. k - 1 \in 0..n - 1
      OBVIOUS
    <3> QED
      BY <3>1
  <2> HIDE DEF f
  <2>2. SumOf(f, n) \in Numbers
    BY <2>1, SumStays
  <2> QED
    BY <1>1, <2>2, TimesStays
<1>3. NormRow(row, n, gamma, eps) = normed
  <2>1. Known(row) = row /\ Known(off) = off /\ Known(normed) = normed
    BY KnownIs
  <2> QED
    BY <2>1 DEF NormRow
<1> HIDE DEF mean
<1>4. \A j \in 0..n - 1 : off[j] \in Numbers
  BY <1>2, NegStays, PlusStays
<1> HIDE DEF off
<1>5. rs \in Numbers
  <2>1. Dot(off, off, n) \in Numbers
    BY <1>4, DotStays
  <2>2. Times(Dot(off, off, n), Inv(n % P)) \in Numbers
    BY <1>1, <2>1, TimesStays
  <2>3. Plus(Times(Dot(off, off, n), Inv(n % P)), eps) \in Numbers
    BY <2>2, PlusStays
  <2> QED
    BY <2>3, FunctionsStay
<1> HIDE DEF rs
<1>6. \A j \in 0..n - 1 : normed[j] \in Numbers
  BY <1>4, <1>5, TimesStays
<1> QED
  BY <1>3, <1>6

\* The sum of a lane reads the row only: registers before the body's end, and
\* the lanes of the tail (row_avx512).
LEMMA VSumStays ==
    ASSUME NEW n \in Nat, NEW e, \A j \in 0..n - 1 : e[j] \in Numbers, NEW lane \in 0..NLANE - 1
    PROVE  VSum(e, n, lane) \in Numbers
<1>1. NLANE \in Nat \ {0}
  BY TileAssumption
<1>2. PICK k \in Nat, r \in 0..NLANE - 1 : r = n % NLANE /\ n = NLANE * k + r
  BY <1>1, Remainder
<1>3. NLANE * k \in Nat /\ BodyOf(n) = NLANE * k /\ TailLanes(n) = 0..r - 1
  BY <1>1, <1>2 DEF BodyOf, TailLanes
<1>4. BodyOf(n) \div NLANE = k
  <2>1. 0 \in 0..NLANE - 1
    BY <1>1
  <2>2. NLANE * k = NLANE * k + 0
    BY <1>3
  <2> QED
    BY <1>1, <1>3, <2>1, <2>2, DivisionIs
<1> DEFINE f == [c \in 1..k |-> e[(c - 1) * NLANE + lane]]
<1>5. \A c \in 1..k : f[c] \in Numbers
  <2> SUFFICES ASSUME NEW c \in 1..k PROVE e[(c - 1) * NLANE + lane] \in Numbers
    OBVIOUS
  <2>1. PICK d \in Nat : d = c - 1 /\ d < k
    OBVIOUS
  <2>2. NLANE * d + NLANE <= NLANE * k
    BY <1>1, <2>1, NextMultiple
  <2>3. NLANE * d \in Nat /\ d * NLANE = NLANE * d
    BY <1>1, <2>1
  <2>4. PICK low, high : low = NLANE * d /\ high = NLANE * k
    OBVIOUS
  <2>5. d * NLANE + lane \in 0..n - 1
    <3>1. low \in Nat /\ high \in Nat /\ low + NLANE <= high /\ n = high + r
      BY <1>2, <1>3, <2>2, <2>3, <2>4
    <3>2. low + lane \in 0..n - 1
      BY <1>1, <3>1
    <3> QED
      BY <2>3, <2>4, <3>2
  <2> QED
    BY <2>1, <2>5
<1>6. SumOf(f, k) \in Numbers
  <2> HIDE DEF f
  <2> QED
    BY <1>5, SumStays
<1>7. CASE lane \in TailLanes(n)
  <2>1. NLANE * k + lane \in 0..n - 1
    BY <1>2, <1>3, <1>7, SMTT(40)
  <2>2. Plus(SumOf(f, k), e[NLANE * k + lane]) \in Numbers
    <3> HIDE DEF f
    <3> QED
      BY <1>6, <2>1, PlusStays
  <2> QED
    BY <1>3, <1>4, <1>7, <2>2 DEF VSum
<1>8. CASE lane \notin TailLanes(n)
  BY <1>3, <1>4, <1>6, <1>8 DEF VSum
<1> QED
  BY <1>7, <1>8

\* The bf16 softmax makes numbers of any row, one of minus infinities too.
LEMMA RowAvx512Stays ==
    ASSUME NEW n \in Nat \ {0}, NEW s, DOMAIN s = 0..n - 1, NEW m,
           \A j \in 0..n - 1 : Plus(s[j], m[j]) \in Masked
    PROVE  \A j \in 0..n - 1 : RowAvx512(s, m)[j] \in Numbers
<1> DEFINE t == [j \in 0..n - 1 |-> Plus(s[j], m[j])]
           IsTop(r) == /\ \A j \in 0..n - 1 : Rank(t[j]) <= r
                       /\ \E j \in 0..n - 1 : Rank(t[j]) = r
           vmax == CHOOSE r \in 0..2 : IsTop(r)
           e == [j \in 0..n - 1 |-> Exp512(t[j], vmax)]
           vsum == [l \in 1..NLANE |-> VSum(e, n, l - 1)]
           share == Inv(SumOf(vsum, NLANE))
<1>1. Cardinality(DOMAIN s) = n
  BY FS_Interval
<1>2. RowAvx512(s, m) = [j \in 0..n - 1 |-> Times(e[j], share)]
  <2>1. Known(t) = t
    BY KnownIs
  <2>2. RowAvx512(s, m) = Divided(Exponentiated(t, n), n)
    <3>1. PICK c : c = Cardinality(DOMAIN s)
      OBVIOUS
    <3>2. RowAvx512(s, m) = Divided(Exponentiated(Known([j \in 0..c - 1 |-> Plus(s[j], m[j])]), c), c)
      BY <3>1, Zenon DEF RowAvx512
    <3> QED
      BY <1>1, <2>1, <3>1, <3>2, Zenon
  <2>3. Exponentiated(t, n) = e
    <3>1. Exponentiated(t, n) = Known(e)
      BY Zenon DEF Exponentiated
    <3> QED
      BY <3>1, KnownIs
  <2> HIDE DEF e
  <2>4. Divided(e, n) = Known([j \in 0..n - 1 |-> Times(e[j], share)])
    BY Zenon DEF Divided
  <2> QED
    BY <2>2, <2>3, <2>4, KnownIs
<1>3. \A j \in 0..n - 1 : t[j] \in Masked /\ Rank(t[j]) \in 0..2
  BY DEF Rank
<1>4. vmax \in 0..2 /\ IsTop(vmax)
  <2> HIDE DEF t
  <2>1. 0 \in 0..n - 1
    OBVIOUS
  <2>2. \E r \in 0..2 : IsTop(r)
    <3>1. CASE \E j \in 0..n - 1 : Rank(t[j]) = 2
      BY <1>3, <3>1
    <3>2. CASE /\ \A j \in 0..n - 1 : Rank(t[j]) # 2
               /\ \E j \in 0..n - 1 : Rank(t[j]) = 1
      <4>1. \A j \in 0..n - 1 : Rank(t[j]) <= 1
        BY <1>3, <3>2
      <4> QED
        BY <3>2, <4>1
    <3>3. CASE /\ \A j \in 0..n - 1 : Rank(t[j]) # 2 /\ Rank(t[j]) # 1
      <4>1. \A j \in 0..n - 1 : Rank(t[j]) = 0
        BY <1>3, <3>3
      <4> QED
        BY <2>1, <4>1
    <3> QED
      BY <3>1, <3>2, <3>3
  <2> HIDE DEF IsTop
  <2> QED
    BY <2>2
<1> HIDE DEF vmax
<1>5. \A j \in 0..n - 1 : e[j] \in Numbers
  <2> SUFFICES ASSUME NEW j \in 0..n - 1 PROVE Exp512(t[j], vmax) \in Numbers
    OBVIOUS
  <2>1. PICK a \in Masked : a = t[j]
    BY <1>3
  <2>2. Rank(a) <= vmax /\ Rank(a) \in 0..2
    BY <1>3, <1>4, <2>1
  <2>3. IsNumber(a) => Exp(a) \in Numbers
    BY MaskedAre, FunctionsStay
  <2>4. Exp512(a, vmax) \in Numbers
    <3>1. CASE Rank(a) < vmax
      <4>1. Rank(a) # vmax
        BY <1>4, <2>2, <3>1
      <4>2. Exp512(a, vmax) = 0
        BY <3>1, <4>1, Zenon DEF Exp512
      <4> QED
        BY <4>2, NumbersAre
    <3>2. CASE Rank(a) = vmax
      <4>1. ~(Rank(a) < vmax)
        BY <1>4, <2>2, <3>2
      <4>2. Exp512(a, vmax) = IF IsNumber(a) THEN Exp(a) ELSE 1
        BY <3>2, <4>1, Zenon DEF Exp512
      <4> QED
        BY <2>3, <4>2, NumbersAre
    <3> QED
      BY <1>4, <2>2, <3>1, <3>2
  <2> HIDE DEF t
  <2> QED
    BY <2>1, <2>4
<1> HIDE DEF e
<1>6. share \in Numbers
  <2>1. NLANE \in Nat
    BY TileAssumption
  <2>2. \A l \in 1..NLANE : vsum[l] \in Numbers
    <3> SUFFICES ASSUME NEW l \in 1..NLANE PROVE VSum(e, n, l - 1) \in Numbers
      OBVIOUS
    <3>1. l - 1 \in 0..NLANE - 1
      BY <2>1
    <3> QED
      BY <1>5, <3>1, VSumStays
  <2> HIDE DEF vsum
  <2> QED
    BY <2>1, <2>2, SumStays, InvStays
<1> HIDE DEF share
<1> QED
  BY <1>2, <1>5, <1>6, TimesStays

-----------------------------------------------------------------------------
(* Places: flat indices, row-major, and the products of shapes.            *)

\* What the product of a shape is made of.
LEMMA ProductIs ==
    ASSUME NEW s \in Seq(Nat)
    PROVE  \E p \in [0..Len(s) -> Nat] :
              /\ p[0] = 1 /\ \A k \in 1..Len(s) : p[k] = p[k - 1] * s[k]
              /\ Product(s) = p[Len(s)]
<1> DEFINE n == Len(s)
           step == [x \in (1..n) \X Nat |-> x[2] * s[x[1]]]
           Is(p) == p = [k \in 0..n |-> IF k = 0 THEN 1 ELSE p[k - 1] * s[k]]
           chosen == CHOOSE p : Is(p)
<1>1. n \in Nat /\ \A k \in 1..n : s[k] \in Nat
  OBVIOUS
<1>2. step \in [(1..n) \X Nat -> Nat]
  BY <1>1
<1>3. PICK q \in [0..n -> Nat] : Steps(q, n, 1, step)
  <2> HIDE DEF step, n
  <2> QED
    BY <1>1, <1>2, StepsExist
<1>4. Is(q)
  <2>1. \A k \in 1..n : step[<<k, q[k - 1]>>] = q[k - 1] * s[k]
    <3> SUFFICES ASSUME NEW k \in 1..n PROVE step[<<k, q[k - 1]>>] = q[k - 1] * s[k]
      OBVIOUS
    <3>1. k - 1 \in 0..n
      BY <1>1
    <3>2. <<k, q[k - 1]>> \in (1..n) \X Nat
      BY <3>1
    <3> QED
      BY <3>2
  <2> HIDE DEF step, n
  <2>2. q = [k \in 0..n |-> IF k = 0 THEN 1 ELSE step[<<k, q[k - 1]>>]]
    BY <1>3 DEF Steps
  <2>3. \A k \in 0..n : q[k] = IF k = 0 THEN 1 ELSE step[<<k, q[k - 1]>>]
    BY <2>2
  <2>4. \A k \in 0..n : k # 0 => k \in 1..n
    BY <1>1
  <2>5. \A k \in 0..n : q[k] = IF k = 0 THEN 1 ELSE q[k - 1] * s[k]
    BY <2>1, <2>3, <2>4
  <2> QED
    BY <2>5
<1>5. Is(chosen)
  <2> HIDE DEF Is
  <2> QED
    BY <1>4
<1>6. Product(s) = chosen[n]
  BY DEF Product
<1> HIDE DEF chosen, n
<1>7. chosen[0] = 1 /\ \A k \in 1..n : chosen[k] = chosen[k - 1] * s[k]
  BY <1>1, <1>5
<1>8. \A k \in 0..n : chosen[k] \in Nat
  <2>1. \A k \in 1..n : chosen[k - 1] \in Nat => chosen[k] \in Nat
    <3>1. \A u, v \in Nat : u * v \in Nat
      OBVIOUS
    <3> QED
      BY <1>1, <1>7, <3>1
  <2>2. n \in Nat /\ chosen[0] \in Nat
    BY <1>1, <1>7
  <2> QED
    BY <2>1, <2>2, StepsStay
<1>9. chosen = [k \in 0..n |-> chosen[k]]
  BY <1>5
<1>10. chosen \in [0..n -> Nat]
  BY <1>8, <1>9
<1> QED
  BY <1>6, <1>7, <1>10 DEF n

\* The products of shapes of up to five axes.
LEMMA ProductOf1 == ASSUME NEW a \in Nat PROVE Product(<<>>) = 1 /\ Product(<<a>>) = a
<1>1. <<>> \in Seq(Nat) /\ Len(<<>>) = 0
  OBVIOUS
<1>2. Product(<<>>) = 1
  BY <1>1, ProductIs
<1>3. PICK s : s = <<a>>
  OBVIOUS
<1>4. s \in Seq(Nat) /\ Len(s) = 1 /\ s[1] = a
  BY <1>3
<1>5. PICK p \in [0..1 -> Nat] : p[0] = 1 /\ (\A k \in 1..1 : p[k] = p[k - 1] * s[k]) /\ Product(s) = p[1]
  BY <1>4, ProductIs
<1>6. p[1] = p[0] * s[1]
  <2>1. p[1] = p[1 - 1] * s[1]
    BY <1>5
  <2> QED
    BY <2>1
<1>7. Product(s) = a
  BY <1>4, <1>5, <1>6
<1> QED
  BY <1>2, <1>3, <1>7

\* One axis more, in front of what is counted last.
LEMMA ProductGivenOneMore ==
    ASSUME NEW s \in Seq(Nat), NEW t \in Seq(Nat), NEW n \in Nat, Len(s) = n, Len(t) = n + 1,
           \A k \in 1..n : t[k] = s[k]
    PROVE  Product(t) = Product(s) * t[n + 1]
<1>1. PICK p \in [0..n -> Nat] : p[0] = 1 /\ (\A k \in 1..n : p[k] = p[k - 1] * s[k]) /\ Product(s) = p[n]
  BY ProductIs
<1>2. PICK q \in [0..n + 1 -> Nat] : q[0] = 1 /\ (\A k \in 1..n + 1 : q[k] = q[k - 1] * t[k]) /\ Product(t) = q[n + 1]
  BY ProductIs
<1>3. \A k \in 0..n : q[k] = p[k]
  <2> DEFINE differ == {k \in 0..n : q[k] # p[k]}
  <2> SUFFICES ASSUME differ # {} PROVE FALSE
    OBVIOUS
  <2>1. differ \in SUBSET Nat
    OBVIOUS
  <2> HIDE DEF differ
  <2>2. PICK k \in differ : \A x \in differ : k <= x
    BY <2>1, LeastNat
  <2> USE DEF differ
  <2>3. k \in 0..n /\ q[k] # p[k]
    OBVIOUS
  <2>4. k # 0
    BY <1>1, <1>2, <2>3
  <2>5. k \in 1..n /\ k - 1 \in 0..n /\ ~(k <= k - 1)
    BY <2>3, <2>4
  <2>6. q[k - 1] = p[k - 1]
    BY <2>2, <2>5
  <2>7. q[k] = q[k - 1] * t[k] /\ p[k] = p[k - 1] * s[k] /\ t[k] = s[k]
    BY <1>1, <1>2, <2>5
  <2> QED
    BY <2>3, <2>6, <2>7
<1>4. q[n] = p[n]
  BY <1>3
<1>5. q[n + 1] = q[(n + 1) - 1] * t[n + 1]
  BY <1>2
<1> QED
  BY <1>1, <1>2, <1>4, <1>5

LEMMA ProductOf2 == ASSUME NEW a \in Nat, NEW b \in Nat PROVE Product(<<a, b>>) = a * b
<1>1. PICK s, t : s = <<a>> /\ t = <<a, b>>
  OBVIOUS
<1>2. s \in Seq(Nat) /\ t \in Seq(Nat) /\ Len(s) = 1 /\ Len(t) = 1 + 1 /\ (\A k \in 1..1 : t[k] = s[k]) /\ t[2] = b
  BY <1>1
<1>3. Product(t) = Product(s) * t[1 + 1]
  BY <1>2, ProductGivenOneMore
<1> QED
  BY <1>1, <1>2, <1>3, ProductOf1

LEMMA ProductOf3 == ASSUME NEW a \in Nat, NEW b \in Nat, NEW c \in Nat PROVE Product(<<a, b, c>>) = a * b * c
<1>1. PICK s, t : s = <<a, b>> /\ t = <<a, b, c>>
  OBVIOUS
<1>2. s \in Seq(Nat) /\ t \in Seq(Nat) /\ Len(s) = 2 /\ Len(t) = 2 + 1 /\ (\A k \in 1..2 : t[k] = s[k]) /\ t[3] = c
  BY <1>1
<1>3. Product(t) = Product(s) * t[2 + 1]
  BY <1>2, ProductGivenOneMore
<1> QED
  BY <1>1, <1>2, <1>3, ProductOf2

LEMMA ProductOf4 ==
    ASSUME NEW a \in Nat, NEW b \in Nat, NEW c \in Nat, NEW d \in Nat
    PROVE  Product(<<a, b, c, d>>) = a * b * c * d
<1>1. PICK s, t : s = <<a, b, c>> /\ t = <<a, b, c, d>>
  OBVIOUS
<1>2. s \in Seq(Nat) /\ t \in Seq(Nat) /\ Len(s) = 3 /\ Len(t) = 3 + 1 /\ (\A k \in 1..3 : t[k] = s[k]) /\ t[4] = d
  BY <1>1
<1>3. Product(t) = Product(s) * t[3 + 1]
  BY <1>2, ProductGivenOneMore
<1> QED
  BY <1>1, <1>2, <1>3, ProductOf3

LEMMA ProductOf5 ==
    ASSUME NEW a \in Nat, NEW b \in Nat, NEW c \in Nat, NEW d \in Nat, NEW e \in Nat
    PROVE  Product(<<a, b, c, d, e>>) = a * b * c * d * e
<1>1. PICK s, t : s = <<a, b, c, d>> /\ t = <<a, b, c, d, e>>
  OBVIOUS
<1>2. s \in Seq(Nat) /\ t \in Seq(Nat) /\ Len(s) = 4 /\ Len(t) = 4 + 1 /\ (\A k \in 1..4 : t[k] = s[k]) /\ t[5] = e
  BY <1>1
<1>3. Product(t) = Product(s) * t[4 + 1]
  BY <1>2, ProductGivenOneMore
<1> QED
  BY <1>1, <1>2, <1>3, ProductOf4

\* Place k of row a of a matrix of rows that are w wide.
LEMMA PlaceOf2 ==
    ASSUME NEW n \in Nat, NEW w \in Nat, NEW a \in 0..n - 1, NEW k \in 0..w - 1
    PROVE  a * w + k \in 0..n * w - 1
<1>1. w \in Nat \ {0} /\ a \in Nat /\ a < n
  OBVIOUS
<1>2. w * a + w <= w * n
  BY <1>1, NextMultiple
<1>3. a * w = w * a /\ n * w = w * n /\ w * a \in Nat /\ w * n \in Nat
  OBVIOUS
<1>4. PICK x, y : x = w * a /\ y = w * n
  OBVIOUS
<1>5. x + k \in 0..y - 1
  BY <1>2, <1>3, <1>4
<1> QED
  BY <1>3, <1>4, <1>5

LEMMA PlaceOf3 ==
    ASSUME NEW n \in Nat, NEW m \in Nat, NEW w \in Nat, NEW a \in 0..n - 1, NEW b \in 0..m - 1, NEW k \in 0..w - 1
    PROVE  a * (m * w) + b * w + k \in 0..n * m * w - 1
<1>1. PICK x : x = b * w + k
  OBVIOUS
<1>2. x \in 0..m * w - 1 /\ m * w \in Nat
  BY <1>1, PlaceOf2
<1>3. PICK v \in Nat : v = m * w
  BY <1>2
<1>4. a * v + x \in 0..n * v - 1
  BY <1>2, <1>3, PlaceOf2
<1>5. n * m * w = n * v
  BY <1>3
<1>6. a * v + x = a * v + b * w + k
  BY <1>1
<1> QED
  BY <1>3, <1>4, <1>5, <1>6

LEMMA PlaceOf4 ==
    ASSUME NEW n \in Nat, NEW m \in Nat, NEW l \in Nat, NEW w \in Nat,
           NEW a \in 0..n - 1, NEW b \in 0..m - 1, NEW c \in 0..l - 1, NEW k \in 0..w - 1
    PROVE  a * (m * l * w) + b * (l * w) + c * w + k \in 0..n * m * l * w - 1
<1>1. PICK x : x = b * (l * w) + c * w + k
  OBVIOUS
<1>2. x \in 0..m * l * w - 1 /\ m * l * w \in Nat
  BY <1>1, PlaceOf3
<1>3. PICK v \in Nat : v = m * l * w
  BY <1>2
<1>4. a * v + x \in 0..n * v - 1
  BY <1>2, <1>3, PlaceOf2
<1>5. n * m * l * w = n * v
  BY <1>3
<1>6. a * v + x = a * v + b * (l * w) + c * w + k
  BY <1>1
<1> QED
  BY <1>3, <1>4, <1>5, <1>6

LEMMA PlaceOf5 ==
    ASSUME NEW n \in Nat, NEW m \in Nat, NEW l \in Nat, NEW h \in Nat, NEW w \in Nat,
           NEW a \in 0..n - 1, NEW b \in 0..m - 1, NEW c \in 0..l - 1, NEW d \in 0..h - 1, NEW k \in 0..w - 1
    PROVE  a * (m * l * h * w) + b * (l * h * w) + c * (h * w) + d * w + k \in 0..n * m * l * h * w - 1
<1>1. PICK x : x = b * (l * h * w) + c * (h * w) + d * w + k
  OBVIOUS
<1>2. x \in 0..m * l * h * w - 1 /\ m * l * h * w \in Nat
  BY <1>1, PlaceOf4
<1>3. PICK v \in Nat : v = m * l * h * w
  BY <1>2
<1>4. a * v + x \in 0..n * v - 1
  BY <1>2, <1>3, PlaceOf2
<1>5. n * m * l * h * w = n * v
  BY <1>3
<1>6. a * v + x = a * v + b * (l * h * w) + c * (h * w) + d * w + k
  BY <1>1
<1> QED
  BY <1>3, <1>4, <1>5, <1>6

-----------------------------------------------------------------------------
(* Views.                                                                  *)

\* A tensor of numbers, of a shape.
Numeric(x, shape) == x.shape = shape /\ x.data \in [0..Product(shape) - 1 -> Numbers]

LEMMA TensorIs ==
    ASSUME NEW S, NEW s \in Seq(S), NEW data
    PROVE  Tensor(s, data).shape = s /\ Tensor(s, data).data = data
<1>1. s \o <<>> = s
  OBVIOUS
<1> QED
  BY <1>1, KnownIs DEF Tensor

\* Read from the base and, along each axis, so many strides on.
IsRead(given, x, n, shape, base, strides) ==
    \E c \in [1..n -> Nat], sum \in [0..n -> Nat] :
       /\ \A k \in 1..n : c[k] \in 0..shape[k] - 1
       /\ sum[0] = base /\ \A k \in 1..n : sum[k] = sum[k - 1] + c[k] * strides[k]
       /\ given = x.data[sum[n]]

LEMMA ViewReads ==
    ASSUME NEW x, NEW n \in Nat, NEW shape \in Seq(Nat), Len(shape) = n, NEW base \in Nat, NEW strides,
           \A k \in 1..n : shape[k] # 0 /\ strides[k] \in Nat,
           NEW i \in 0..Product(shape) - 1
    PROVE  IsRead(View(x, shape, base, strides).data[i], x, n, shape, base, strides)
<1> DEFINE own == Strides(shape)
           c == [k \in 1..n |-> (i \div own[k]) % shape[k]]
           step == [a \in (1..n) \X Nat |-> a[2] + c[a[1]] * strides[a[1]]]
           Is(s) == s = [k \in 0..Len(shape) |-> IF k = 0 THEN base
                             ELSE s[k - 1] + ((i \div own[k]) % shape[k]) * strides[k]]
           at(j) == LET sum[k \in 0..Len(shape)] ==
                            IF k = 0 THEN base
                                     ELSE sum[k - 1] + ((j \div own[k]) % shape[k]) * strides[k]
                    IN sum[Len(shape)]
           chosen == CHOOSE s : Is(s)
<1>1. \A k \in 1..n : shape[k] \in Nat \ {0}
  OBVIOUS
<1>2. \A k \in 1..n : own[k] \in Nat \ {0}
  <2> SUFFICES ASSUME NEW k \in 1..n PROVE Product(SubSeq(shape, k + 1, n)) \in Nat \ {0}
    BY DEF Strides
  <2>1. PICK t : t = SubSeq(shape, k + 1, n)
    OBVIOUS
  <2>2. t \in Seq(Nat) /\ Len(t) = n - k /\ \A m \in 1..n - k : t[m] # 0
    <3>1. t \in Seq(Nat) /\ Len(t) = n - k /\ \A m \in 1..n - k : t[m] = shape[m + k]
      BY <2>1
    <3>2. \A m \in 1..n - k : m + k \in 1..n
      OBVIOUS
    <3> QED
      BY <1>1, <3>1, <3>2
  <2>3. PICK m \in Nat : m = n - k
    OBVIOUS
  <2>4. PICK p \in [0..m -> Nat] : p[0] = 1 /\ (\A j \in 1..m : p[j] = p[j - 1] * t[j]) /\ Product(t) = p[m]
    BY <2>2, <2>3, ProductIs
  <2>5. \A j \in 1..m : t[j] \in Nat \ {0}
    <3>1. t \in Seq(Nat) /\ Len(t) = m /\ \A j \in 1..m : t[j] # 0
      BY <2>2, <2>3
    <3> HIDE DEF c
    <3>2. \A j \in 1..m : t[j] \in Nat
      BY <3>1
    <3> QED
      BY <3>1, <3>2
  <2>6. \A j \in 1..m : p[j - 1] \in Nat \ {0} => p[j] \in Nat \ {0}
    <3>1. \A u, v \in Nat \ {0} : u * v \in Nat \ {0}
      OBVIOUS
    <3> QED
      BY <2>4, <2>5, <3>1
  <2>7. \A j \in 0..m : p[j] \in Nat \ {0}
    <3>1. p[0] \in Nat \ {0}
      BY <2>4
    <3> QED
      BY <2>3, <2>6, <3>1, StepsStay
  <2> QED
    BY <2>1, <2>3, <2>4, <2>7
<1> HIDE DEF own
<1>3. \A k \in 1..n : c[k] \in 0..shape[k] - 1 /\ c[k] \in Nat
  <2> SUFFICES ASSUME NEW k \in 1..n
               PROVE  (i \div own[k]) % shape[k] \in 0..shape[k] - 1 /\ (i \div own[k]) % shape[k] \in Nat
    OBVIOUS
  <2>1. i \in Nat
    OBVIOUS
  <2>2. PICK w \in Nat \ {0} : w = own[k]
    BY <1>2
  <2>3. PICK d \in Nat : d = i \div w
    BY <2>1, Quotient
  <2>4. PICK s \in Nat \ {0} : s = shape[k]
    BY <1>1
  <2>5. d % s \in 0..s - 1
    BY <2>4
  <2> QED
    BY <2>2, <2>3, <2>4, <2>5
<1>4. c \in [1..n -> Nat]
  BY <1>3
<1>5. step \in [(1..n) \X Nat -> Nat]
  <2> HIDE DEF c
  <2>1. \A k \in 1..n : c[k] * strides[k] \in Nat
    BY <1>4
  <2> QED
    BY <2>1, SMTT(40)
<1>6. PICK s \in [0..n -> Nat] : Steps(s, n, base, step)
  <2> HIDE DEF step
  <2> QED
    BY <1>5, StepsExist
<1>7. Is(s)
  <2>1. \A k \in 0..n : k # 0 => k \in 1..n /\ k - 1 \in 0..n
    OBVIOUS
  <2>2. \A k \in 1..n : step[<<k, s[k - 1]>>] = s[k - 1] + c[k] * strides[k]
    <3> HIDE DEF c
    <3> QED
      BY <2>1, SMTT(40)
  <2>3. \A k \in 1..n : c[k] = (i \div own[k]) % shape[k]
    OBVIOUS
  <2> HIDE DEF step, c
  <2>4. s = [k \in 0..n |-> IF k = 0 THEN base ELSE step[<<k, s[k - 1]>>]]
    BY <1>6 DEF Steps
  <2>5. \A k \in 0..n : s[k] = IF k = 0 THEN base ELSE s[k - 1] + ((i \div own[k]) % shape[k]) * strides[k]
    BY <2>1, <2>2, <2>3, <2>4
  <2> QED
    BY <2>5
<1>8. Is(chosen)
  <2> HIDE DEF Is
  <2> QED
    BY <1>7
<1>9. chosen[0] = base /\ \A k \in 1..n : chosen[k] = chosen[k - 1] + c[k] * strides[k]
  <2>3. \A k \in 1..n : c[k] = (i \div own[k]) % shape[k]
    OBVIOUS
  <2>4. \A k \in 1..n : k \in 0..n /\ k # 0
    OBVIOUS
  <2>5. 0 \in 0..n
    OBVIOUS
  <2> DEFINE next(f, k) == IF k = 0 THEN base ELSE f[k - 1] + ((i \div own[k]) % shape[k]) * strides[k]
  <2>6. PICK f : f = chosen
    OBVIOUS
  <2>7. f = [k \in 0..n |-> next(f, k)]
    BY <1>8, <2>6
  <2> HIDE DEF next
  <2>8. \A k \in 0..n : f[k] = next(f, k)
    BY <2>7
  <2> USE DEF next
  <2>1. chosen[0] = base
    BY <2>5, <2>6, <2>8
  <2>2. \A k \in 1..n : chosen[k] = chosen[k - 1] + ((i \div own[k]) % shape[k]) * strides[k]
    <3> HIDE DEF chosen
    <3> QED
      BY <2>4, <2>6, <2>8
  <2> HIDE DEF chosen, c
  <2> QED
    BY <2>1, <2>2, <2>3
<1>10. View(x, shape, base, strides).data[i] = x.data[chosen[n]]
  <2>1. at(i) = chosen[n]
    OBVIOUS
  <2> HIDE DEF at
  <2>2. View(x, shape, base, strides) = Tensor(shape, [j \in 0..Product(shape) - 1 |-> x.data[at(j)]])
    BY Zenon DEF View, own, at
  <2>3. View(x, shape, base, strides).data = [j \in 0..Product(shape) - 1 |-> x.data[at(j)]]
    BY <2>2, TensorIs
  <2> HIDE DEF chosen
  <2> QED
    BY <2>1, <2>3
<1>11. \A k \in 0..n : chosen[k] \in Nat
  <2> HIDE DEF chosen, c
  <2>1. \A k \in 1..n : c[k] * strides[k] \in Nat
    BY <1>4, SMTT(40)
  <2>2. \A k \in 1..n : chosen[k - 1] \in Nat => chosen[k] \in Nat
    <3> SUFFICES ASSUME NEW k \in 1..n, chosen[k - 1] \in Nat PROVE chosen[k] \in Nat
      OBVIOUS
    <3>1. PICK a \in Nat : a = c[k] * strides[k]
      BY <2>1
    <3>2. chosen[k] = chosen[k - 1] + a
      BY <1>9, <3>1
    <3> QED
      BY <3>2, SMTT(40)
  <2>3. chosen[0] \in Nat
    BY <1>9
  <2> QED
    BY <2>2, <2>3, StepsStay
<1>12. chosen = [k \in 0..n |-> chosen[k]]
  BY <1>8
<1> HIDE DEF chosen, c
<1>13. chosen \in [0..n -> Nat]
  BY <1>11, <1>12
<1> QED
  BY <1>3, <1>4, <1>9, <1>10, <1>13 DEF IsRead

\* A view that reads inside x is of numbers.
ReadsInside(n, shape, base, strides, size) ==
    \A c \in [1..n -> Nat], sum \in [0..n -> Nat] :
        /\ \A k \in 1..n : c[k] \in 0..shape[k] - 1
        /\ sum[0] = base /\ \A k \in 1..n : sum[k] = sum[k - 1] + c[k] * strides[k]
        => sum[n] \in 0..size - 1

LEMMA ViewStays ==
    ASSUME NEW x, NEW from, Numeric(x, from), NEW n \in Nat, NEW shape \in Seq(Nat), Len(shape) = n,
           NEW base \in Nat, NEW strides, \A k \in 1..n : shape[k] # 0 /\ strides[k] \in Nat,
           ReadsInside(n, shape, base, strides, Product(from))
    PROVE  Numeric(View(x, shape, base, strides), shape)
<1> DEFINE v == View(x, shape, base, strides)
<1>1. \A i \in 0..Product(shape) - 1 : v.data[i] \in Numbers
  <2> SUFFICES ASSUME NEW i \in 0..Product(shape) - 1 PROVE v.data[i] \in Numbers
    OBVIOUS
  <2>1. PICK c \in [1..n -> Nat], sum \in [0..n -> Nat] :
           /\ \A k \in 1..n : c[k] \in 0..shape[k] - 1
           /\ sum[0] = base /\ \A k \in 1..n : sum[k] = sum[k - 1] + c[k] * strides[k]
           /\ v.data[i] = x.data[sum[n]]
    <3>1. IsRead(v.data[i], x, n, shape, base, strides)
      BY ViewReads
    <3> HIDE DEF v
    <3> QED
      BY <3>1 DEF IsRead
  <2>2. sum[n] \in 0..Product(from) - 1
    BY <2>1 DEF ReadsInside
  <2>3. x.data \in [0..Product(from) - 1 -> Numbers]
    BY DEF Numeric
  <2> HIDE DEF v
  <2> QED
    BY <2>1, <2>2, <2>3
<1>2. v.shape = shape /\ v.data = [i \in 0..Product(shape) - 1 |-> v.data[i]]
  <2> DEFINE own == Strides(shape)
             at(i) == LET sum[k \in 0..Len(shape)] ==
                              IF k = 0 THEN base
                                       ELSE sum[k - 1] + ((i \div own[k]) % shape[k]) * strides[k]
                      IN sum[Len(shape)]
  <2>1. v = Tensor(shape, [i \in 0..Product(shape) - 1 |-> x.data[at(i)]])
    BY Zenon DEF View
  <2> HIDE DEF at, v
  <2>2. v.shape = shape /\ v.data = [i \in 0..Product(shape) - 1 |-> x.data[at(i)]]
    BY <2>1, TensorIs
  <2> QED
    BY <2>2
<1> HIDE DEF v
<1>3. v.data \in [0..Product(shape) - 1 -> Numbers]
  BY <1>1, <1>2
<1> QED
  BY <1>2, <1>3 DEF Numeric, v

\* The strides of shapes of two to five axes.
LEMMA StridesAre ==
    ASSUME NEW n \in Nat, NEW s \in Seq(Nat), Len(s) = n, NEW k \in 1..n
    PROVE  /\ k = n => Strides(s)[k] = 1
           /\ k + 1 = n => Strides(s)[k] = s[n]
           /\ k + 2 = n => Strides(s)[k] = s[k + 1] * s[n]
           /\ k + 3 = n => Strides(s)[k] = s[k + 1] * s[k + 2] * s[n]
           /\ k + 4 = n => Strides(s)[k] = s[k + 1] * s[k + 2] * s[k + 3] * s[n]
<1>1. PICK t : t = SubSeq(s, k + 1, n)
  OBVIOUS
<1>2. Strides(s)[k] = Product(t)
  BY <1>1 DEF Strides
<1>3. t \in Seq(Nat) /\ Len(t) = n - k /\ \A j \in 1..n - k : t[j] = s[k + j]
  BY <1>1
<1>4. \A j \in 1..n : s[j] \in Nat
  OBVIOUS
<1>5. k = n => Product(t) = 1
  <2> SUFFICES ASSUME k = n PROVE Product(t) = 1
    OBVIOUS
  <2>1. t = <<>>
    BY <1>3
  <2> QED
    BY <2>1, ProductOf1
<1>6. k + 1 = n => Product(t) = s[n]
  <2> SUFFICES ASSUME k + 1 = n PROVE Product(t) = s[n]
    OBVIOUS
  <2>0. n - k = 1 /\ n = k + 1
    OBVIOUS
  <2>1. Len(t) = 1 /\ t[1] = s[n]
    BY <1>3, <2>0
  <2>2. PICK a : a = s[n]
    OBVIOUS
  <2>3. a \in Nat
    BY <1>4, <2>2
  <2>4. t = <<a>>
    BY <1>3, <2>1, <2>2
  <2> QED
    <3>1. Product(t) = a
      BY <2>3, <2>4, ProductOf1
    <3> QED
      BY <2>2, <3>1
<1>7. k + 2 = n => Product(t) = s[k + 1] * s[n]
  <2> SUFFICES ASSUME k + 2 = n PROVE Product(t) = s[k + 1] * s[n]
    OBVIOUS
  <2>0. n - k = 2 /\ n = k + 2
    OBVIOUS
  <2>1. Len(t) = 2 /\ t[1] = s[k + 1] /\ t[2] = s[n]
    BY <1>3, <2>0
  <2>2. PICK a, b : a = s[k + 1] /\ b = s[n]
    OBVIOUS
  <2>3. a \in Nat /\ b \in Nat
    BY <1>4, <2>2
  <2>4. t = <<a, b>>
    BY <1>3, <2>1, <2>2
  <2> QED
    <3>1. Product(t) = a * b
      BY <2>3, <2>4, ProductOf2
    <3> QED
      BY <2>2, <3>1
<1>8. k + 3 = n => Product(t) = s[k + 1] * s[k + 2] * s[n]
  <2> SUFFICES ASSUME k + 3 = n PROVE Product(t) = s[k + 1] * s[k + 2] * s[n]
    OBVIOUS
  <2>0. n - k = 3 /\ n = k + 3
    OBVIOUS
  <2>1. Len(t) = 3 /\ t[1] = s[k + 1] /\ t[2] = s[k + 2] /\ t[3] = s[n]
    BY <1>3, <2>0
  <2>2. PICK a, b, c : a = s[k + 1] /\ b = s[k + 2] /\ c = s[n]
    OBVIOUS
  <2>3. a \in Nat /\ b \in Nat /\ c \in Nat
    BY <1>4, <2>2
  <2>4. t = <<a, b, c>>
    BY <1>3, <2>1, <2>2
  <2> QED
    <3>1. Product(t) = a * b * c
      BY <2>3, <2>4, ProductOf3
    <3> QED
      BY <2>2, <3>1
<1>9. k + 4 = n => Product(t) = s[k + 1] * s[k + 2] * s[k + 3] * s[n]
  <2> SUFFICES ASSUME k + 4 = n PROVE Product(t) = s[k + 1] * s[k + 2] * s[k + 3] * s[n]
    OBVIOUS
  <2>0. n - k = 4 /\ n = k + 4
    OBVIOUS
  <2>1. Len(t) = 4 /\ t[1] = s[k + 1] /\ t[2] = s[k + 2] /\ t[3] = s[k + 3] /\ t[4] = s[n]
    BY <1>3, <2>0
  <2>2. PICK a, b, c, d : a = s[k + 1] /\ b = s[k + 2] /\ c = s[k + 3] /\ d = s[n]
    OBVIOUS
  <2>3. a \in Nat /\ b \in Nat /\ c \in Nat /\ d \in Nat
    BY <1>4, <2>2
  <2>4. t = <<a, b, c, d>>
    BY <1>3, <2>1, <2>2
  <2> QED
    <3>1. Product(t) = a * b * c * d
      BY <2>3, <2>4, ProductOf4
    <3> QED
      BY <2>2, <3>1
<1> QED
  BY <1>2, <1>5, <1>6, <1>7, <1>8, <1>9

\* Sums of strides, and the strides of four and five axes.
LEMMA SumOf4Terms ==
    ASSUME NEW c \in [1..4 -> Nat], NEW base \in Nat, NEW strides, \A k \in 1..4 : strides[k] \in Nat,
           NEW sum \in [0..4 -> Nat], sum[0] = base, \A k \in 1..4 : sum[k] = sum[k - 1] + c[k] * strides[k]
    PROVE  sum[4] = base + c[1] * strides[1] + c[2] * strides[2] + c[3] * strides[3] + c[4] * strides[4]
<1>1. sum[1] = sum[0] + c[1] * strides[1]
  <2>1. 1 \in 1..4 /\ 1 - 1 = 0
    OBVIOUS
  <2> QED
    BY <2>1
<1>2. sum[2] = sum[1] + c[2] * strides[2]
  <2>1. 2 \in 1..4 /\ 2 - 1 = 1
    OBVIOUS
  <2> QED
    BY <2>1
<1>3. sum[3] = sum[2] + c[3] * strides[3]
  <2>1. 3 \in 1..4 /\ 3 - 1 = 2
    OBVIOUS
  <2> QED
    BY <2>1
<1>4. sum[4] = sum[3] + c[4] * strides[4]
  <2>1. 4 \in 1..4 /\ 4 - 1 = 3
    OBVIOUS
  <2> QED
    BY <2>1
<1>5. PICK t1, t2, t3, t4 : t1 = c[1] * strides[1] /\ t2 = c[2] * strides[2] /\ t3 = c[3] * strides[3] /\ t4 = c[4] * strides[4]
  OBVIOUS
<1>6. t1 \in Nat /\ t2 \in Nat /\ t3 \in Nat /\ t4 \in Nat
  <2>1. \A k \in 1..4 : c[k] \in Nat /\ strides[k] \in Nat
    OBVIOUS
  <2>2. \A k \in 1..4 : c[k] * strides[k] \in Nat
    BY <2>1
  <2> QED
    BY <1>5, <2>2
<1>7. sum[4] = base + t1 + t2 + t3 + t4
  BY <1>1, <1>2, <1>3, <1>4, <1>5, <1>6
<1> QED
  BY <1>5, <1>7

LEMMA SumOf5Terms ==
    ASSUME NEW c \in [1..5 -> Nat], NEW base \in Nat, NEW strides, \A k \in 1..5 : strides[k] \in Nat,
           NEW sum \in [0..5 -> Nat], sum[0] = base, \A k \in 1..5 : sum[k] = sum[k - 1] + c[k] * strides[k]
    PROVE  sum[5] = base + c[1] * strides[1] + c[2] * strides[2] + c[3] * strides[3] + c[4] * strides[4] + c[5] * strides[5]
<1>1. sum[1] = sum[0] + c[1] * strides[1]
  <2>1. 1 \in 1..5 /\ 1 - 1 = 0
    OBVIOUS
  <2> QED
    BY <2>1
<1>2. sum[2] = sum[1] + c[2] * strides[2]
  <2>1. 2 \in 1..5 /\ 2 - 1 = 1
    OBVIOUS
  <2> QED
    BY <2>1
<1>3. sum[3] = sum[2] + c[3] * strides[3]
  <2>1. 3 \in 1..5 /\ 3 - 1 = 2
    OBVIOUS
  <2> QED
    BY <2>1
<1>4. sum[4] = sum[3] + c[4] * strides[4]
  <2>1. 4 \in 1..5 /\ 4 - 1 = 3
    OBVIOUS
  <2> QED
    BY <2>1
<1>5. sum[5] = sum[4] + c[5] * strides[5]
  <2>1. 5 \in 1..5 /\ 5 - 1 = 4
    OBVIOUS
  <2> QED
    BY <2>1
<1>6. PICK t1, t2, t3, t4, t5 : t1 = c[1] * strides[1] /\ t2 = c[2] * strides[2] /\ t3 = c[3] * strides[3] /\ t4 = c[4] * strides[4] /\ t5 = c[5] * strides[5]
  OBVIOUS
<1>7. t1 \in Nat /\ t2 \in Nat /\ t3 \in Nat /\ t4 \in Nat /\ t5 \in Nat
  <2>1. \A k \in 1..5 : c[k] \in Nat /\ strides[k] \in Nat
    OBVIOUS
  <2>2. \A k \in 1..5 : c[k] * strides[k] \in Nat
    BY <2>1
  <2> QED
    BY <1>6, <2>2
<1>8. sum[5] = base + t1 + t2 + t3 + t4 + t5
  BY <1>1, <1>2, <1>3, <1>4, <1>5, <1>6, <1>7
<1> QED
  BY <1>6, <1>8

LEMMA StridesOf4 ==
    ASSUME NEW a \in Nat, NEW b \in Nat, NEW c \in Nat, NEW d \in Nat
    PROVE  /\ Strides(<<a, b, c, d>>)[1] = b * c * d
           /\ Strides(<<a, b, c, d>>)[2] = c * d
           /\ Strides(<<a, b, c, d>>)[3] = d
           /\ Strides(<<a, b, c, d>>)[4] = 1
<1>1. PICK s : s = <<a, b, c, d>>
  OBVIOUS
<1>2. s \in Seq(Nat) /\ Len(s) = 4 /\ DOMAIN s = 1..4 /\ s[1] = a /\ s[2] = b /\ s[3] = c /\ s[4] = d
  BY <1>1
<1>3. \A k \in 1..4 : Strides(s)[k] = Product(SubSeq(s, k + 1, 4))
  BY <1>2 DEF Strides
<1>4. Strides(s)[1] = b * c * d
  <2>1. SubSeq(s, 2, 4) = <<b, c, d>>
    <3>1. PICK t : t = SubSeq(s, 2, 4)
      OBVIOUS
    <3>2. t \in Seq(Nat) /\ Len(t) = 3
      BY <1>2, <3>1
    <3>3. t[1] = s[2] /\ t[2] = s[3] /\ t[3] = s[4]
      BY <1>2, <3>1
    <3>4. t = <<b, c, d>>
      BY <1>2, <3>2, <3>3
    <3> QED
      BY <3>1, <3>4
  <2>2. Product(<<b, c, d>>) = b * c * d
    BY ProductOf3
  <2>3. Strides(s)[1] = Product(SubSeq(s, 2, 4))
    <3>1. PICK k \in 1..4 : k = 1
      OBVIOUS
    <3>2. k + 1 = 2
      BY <3>1
    <3> QED
      BY <1>3, <3>1, <3>2
  <2> QED
    BY <2>1, <2>2, <2>3
<1>5. Strides(s)[2] = c * d
  <2>1. SubSeq(s, 3, 4) = <<c, d>>
    <3>1. PICK t : t = SubSeq(s, 3, 4)
      OBVIOUS
    <3>2. t \in Seq(Nat) /\ Len(t) = 2
      BY <1>2, <3>1
    <3>3. t[1] = s[3] /\ t[2] = s[4]
      BY <1>2, <3>1
    <3>4. t = <<c, d>>
      BY <1>2, <3>2, <3>3
    <3> QED
      BY <3>1, <3>4
  <2>2. Product(<<c, d>>) = c * d
    BY ProductOf2
  <2>3. Strides(s)[2] = Product(SubSeq(s, 3, 4))
    <3>1. PICK k \in 1..4 : k = 2
      OBVIOUS
    <3>2. k + 1 = 3
      BY <3>1
    <3> QED
      BY <1>3, <3>1, <3>2
  <2> QED
    BY <2>1, <2>2, <2>3
<1>6. Strides(s)[3] = d
  <2>1. SubSeq(s, 4, 4) = <<d>>
    <3>1. PICK t : t = SubSeq(s, 4, 4)
      OBVIOUS
    <3>2. t \in Seq(Nat) /\ Len(t) = 1
      BY <1>2, <3>1
    <3>3. t[1] = s[4]
      BY <1>2, <3>1
    <3>4. t = <<d>>
      BY <1>2, <3>2, <3>3
    <3> QED
      BY <3>1, <3>4
  <2>2. Product(<<d>>) = d
    BY ProductOf1
  <2>3. Strides(s)[3] = Product(SubSeq(s, 4, 4))
    <3>1. PICK k \in 1..4 : k = 3
      OBVIOUS
    <3>2. k + 1 = 4
      BY <3>1
    <3> QED
      BY <1>3, <3>1, <3>2
  <2> QED
    BY <2>1, <2>2, <2>3
<1>7. Strides(s)[4] = 1
  <2>1. SubSeq(s, 5, 4) = <<>>
    BY <1>2
  <2>2. Product(<<>>) = 1
    BY ProductOf1
  <2>3. Strides(s)[4] = Product(SubSeq(s, 5, 4))
    <3>1. PICK k \in 1..4 : k = 4
      OBVIOUS
    <3>2. k + 1 = 5
      BY <3>1
    <3> QED
      BY <1>3, <3>1, <3>2
  <2> QED
    BY <2>1, <2>2, <2>3
<1> QED
  BY <1>1, <1>4, <1>5, <1>6, <1>7

LEMMA StridesOf5 ==
    ASSUME NEW a \in Nat, NEW b \in Nat, NEW c \in Nat, NEW d \in Nat, NEW e \in Nat
    PROVE  /\ Strides(<<a, b, c, d, e>>)[1] = b * c * d * e
           /\ Strides(<<a, b, c, d, e>>)[2] = c * d * e
           /\ Strides(<<a, b, c, d, e>>)[3] = d * e
           /\ Strides(<<a, b, c, d, e>>)[4] = e
           /\ Strides(<<a, b, c, d, e>>)[5] = 1
<1>1. PICK s : s = <<a, b, c, d, e>>
  OBVIOUS
<1>2. s \in Seq(Nat) /\ Len(s) = 5 /\ DOMAIN s = 1..5 /\ s[1] = a /\ s[2] = b /\ s[3] = c /\ s[4] = d /\ s[5] = e
  BY <1>1
<1>3. \A k \in 1..5 : Strides(s)[k] = Product(SubSeq(s, k + 1, 5))
  BY <1>2 DEF Strides
<1>4. Strides(s)[1] = b * c * d * e
  <2>1. SubSeq(s, 2, 5) = <<b, c, d, e>>
    <3>1. PICK t : t = SubSeq(s, 2, 5)
      OBVIOUS
    <3>2. t \in Seq(Nat) /\ Len(t) = 4
      BY <1>2, <3>1
    <3>3. t[1] = s[2] /\ t[2] = s[3] /\ t[3] = s[4] /\ t[4] = s[5]
      BY <1>2, <3>1
    <3>4. t = <<b, c, d, e>>
      BY <1>2, <3>2, <3>3
    <3> QED
      BY <3>1, <3>4
  <2>2. Product(<<b, c, d, e>>) = b * c * d * e
    BY ProductOf4
  <2>3. Strides(s)[1] = Product(SubSeq(s, 2, 5))
    <3>1. PICK k \in 1..5 : k = 1
      OBVIOUS
    <3>2. k + 1 = 2
      BY <3>1
    <3> QED
      BY <1>3, <3>1, <3>2
  <2> QED
    BY <2>1, <2>2, <2>3
<1>5. Strides(s)[2] = c * d * e
  <2>1. SubSeq(s, 3, 5) = <<c, d, e>>
    <3>1. PICK t : t = SubSeq(s, 3, 5)
      OBVIOUS
    <3>2. t \in Seq(Nat) /\ Len(t) = 3
      BY <1>2, <3>1
    <3>3. t[1] = s[3] /\ t[2] = s[4] /\ t[3] = s[5]
      BY <1>2, <3>1
    <3>4. t = <<c, d, e>>
      BY <1>2, <3>2, <3>3
    <3> QED
      BY <3>1, <3>4
  <2>2. Product(<<c, d, e>>) = c * d * e
    BY ProductOf3
  <2>3. Strides(s)[2] = Product(SubSeq(s, 3, 5))
    <3>1. PICK k \in 1..5 : k = 2
      OBVIOUS
    <3>2. k + 1 = 3
      BY <3>1
    <3> QED
      BY <1>3, <3>1, <3>2
  <2> QED
    BY <2>1, <2>2, <2>3
<1>6. Strides(s)[3] = d * e
  <2>1. SubSeq(s, 4, 5) = <<d, e>>
    <3>1. PICK t : t = SubSeq(s, 4, 5)
      OBVIOUS
    <3>2. t \in Seq(Nat) /\ Len(t) = 2
      BY <1>2, <3>1
    <3>3. t[1] = s[4] /\ t[2] = s[5]
      BY <1>2, <3>1
    <3>4. t = <<d, e>>
      BY <1>2, <3>2, <3>3
    <3> QED
      BY <3>1, <3>4
  <2>2. Product(<<d, e>>) = d * e
    BY ProductOf2
  <2>3. Strides(s)[3] = Product(SubSeq(s, 4, 5))
    <3>1. PICK k \in 1..5 : k = 3
      OBVIOUS
    <3>2. k + 1 = 4
      BY <3>1
    <3> QED
      BY <1>3, <3>1, <3>2
  <2> QED
    BY <2>1, <2>2, <2>3
<1>7. Strides(s)[4] = e
  <2>1. SubSeq(s, 5, 5) = <<e>>
    <3>1. PICK t : t = SubSeq(s, 5, 5)
      OBVIOUS
    <3>2. t \in Seq(Nat) /\ Len(t) = 1
      BY <1>2, <3>1
    <3>3. t[1] = s[5]
      BY <1>2, <3>1
    <3>4. t = <<e>>
      BY <1>2, <3>2, <3>3
    <3> QED
      BY <3>1, <3>4
  <2>2. Product(<<e>>) = e
    BY ProductOf1
  <2>3. Strides(s)[4] = Product(SubSeq(s, 5, 5))
    <3>1. PICK k \in 1..5 : k = 4
      OBVIOUS
    <3>2. k + 1 = 5
      BY <3>1
    <3> QED
      BY <1>3, <3>1, <3>2
  <2> QED
    BY <2>1, <2>2, <2>3
<1>8. Strides(s)[5] = 1
  <2>1. SubSeq(s, 6, 5) = <<>>
    BY <1>2
  <2>2. Product(<<>>) = 1
    BY ProductOf1
  <2>3. Strides(s)[5] = Product(SubSeq(s, 6, 5))
    <3>1. PICK k \in 1..5 : k = 5
      OBVIOUS
    <3>2. k + 1 = 6
      BY <3>1
    <3> QED
      BY <1>3, <3>1, <3>2
  <2> QED
    BY <2>1, <2>2, <2>3
<1> QED
  BY <1>1, <1>4, <1>5, <1>6, <1>7, <1>8

LEMMA HeadsFirstPlace ==
    ASSUME NEW a \in Nat \ {0}, NEW b \in Nat \ {0}, NEW c \in Nat \ {0}, NEW d \in Nat \ {0},
           NEW c1 \in 0..a - 1, NEW c2 \in 0..c - 1, NEW c3 \in 0..b - 1, NEW c4 \in 0..d - 1,
           NEW u1, NEW u2, NEW u3, NEW u4,
           u1 = b * c * d, u2 = d, u3 = c * d, u4 = 1
    PROVE  0 + c1 * u1 + c2 * u2 + c3 * u3 + c4 * u4 \in 0..a * b * c * d - 1
<1>1. PICK t1, t2, t3, t4 : t1 = c1 * u1 /\ t2 = c2 * u2 /\ t3 = c3 * u3 /\ t4 = c4 * u4
  OBVIOUS
<1>2. t1 = c1 * (b * c * d) /\ t1 \in Nat
  <2>1. b * c * d \in Nat /\ c1 \in Nat
    OBVIOUS
  <2> QED
    BY <1>1, <2>1
<1>3. t2 = c2 * d /\ t2 \in Nat
  <2>1. d \in Nat /\ c2 \in Nat
    OBVIOUS
  <2> QED
    BY <1>1, <2>1
<1>4. t3 = c3 * (c * d) /\ t3 \in Nat
  <2>1. c * d \in Nat /\ c3 \in Nat
    OBVIOUS
  <2> QED
    BY <1>1, <2>1
<1>5. t4 = c4 /\ c4 \in Nat
  BY <1>1
<1>6. c1 * (b * c * d) + c3 * (c * d) + c2 * d + c4 \in 0..a * b * c * d - 1
  BY PlaceOf4
<1>7. PICK size : size = a * b * c * d
  OBVIOUS
<1>8. t1 + t3 + t2 + t4 \in 0..size - 1
  BY <1>2, <1>3, <1>4, <1>5, <1>6, <1>7
<1>9. 0 + t1 + t2 + t3 + t4 \in 0..size - 1
  BY <1>2, <1>3, <1>4, <1>5, <1>8
<1> QED
  BY <1>1, <1>7, <1>9

\* The heads before the positions, and back.
LEMMA HeadsFirst ==
    ASSUME NEW a \in Nat \ {0}, NEW b \in Nat \ {0}, NEW c \in Nat \ {0}, NEW d \in Nat \ {0},
           NEW x, Numeric(x, <<a, b, c, d>>)
    PROVE  Numeric(Transpose(x, <<0, 2, 1, 3>>), <<a, c, b, d>>)
<1>1. PICK s, axes, to : s = <<a, b, c, d>> /\ axes = <<0, 2, 1, 3>> /\ to = <<a, c, b, d>>
  OBVIOUS
<1>2. /\ s \in Seq(Nat) /\ Len(s) = 4 /\ DOMAIN axes = 1..4 /\ to \in Seq(Nat) /\ Len(to) = 4
      /\ s[1] = a /\ s[2] = b /\ s[3] = c /\ s[4] = d
      /\ axes[1] = 0 /\ axes[2] = 2 /\ axes[3] = 1 /\ axes[4] = 3
      /\ to[1] = a /\ to[2] = c /\ to[3] = b /\ to[4] = d
  BY <1>1
<1>3. x.shape = s /\ Numeric(x, s)
  BY <1>1 DEF Numeric
<1>4. PICK own : own = Strides(s)
  OBVIOUS
<1>5. own[1] = b * c * d /\ own[2] = c * d /\ own[3] = d /\ own[4] = 1
  BY <1>1, <1>4, StridesOf4, SMTT(40)
<1>6. PICK strides : strides = [k \in DOMAIN axes |-> own[axes[k] + 1]]
  OBVIOUS
<1>7. strides[1] = b * c * d /\ strides[2] = d /\ strides[3] = c * d /\ strides[4] = 1
  <2>1. strides[1] = own[1] /\ strides[2] = own[3] /\ strides[3] = own[2] /\ strides[4] = own[4]
    BY <1>2, <1>6
  <2> QED
    BY <1>5, <2>1
<1>8. [k \in DOMAIN axes |-> x.shape[axes[k] + 1]] = to
  <2> DEFINE made == [k \in DOMAIN axes |-> x.shape[axes[k] + 1]]
  <2>1. \A k \in 1..4 : made[k] = to[k]
    <3>1. made[1] = to[1] /\ made[2] = to[2] /\ made[3] = to[3] /\ made[4] = to[4]
      BY <1>2, <1>3
    <3> HIDE DEF made
    <3> QED
      BY <3>1
  <2>2. DOMAIN made = 1..4 /\ made = [k \in 1..4 |-> made[k]]
    BY <1>2
  <2>3. to = [k \in 1..4 |-> to[k]]
    BY <1>2
  <2> HIDE DEF made
  <2>4. made = to
    BY <2>1, <2>2, <2>3
  <2> QED
    BY <2>4 DEF made
<1>9. Transpose(x, axes) = View(x, to, 0, strides)
  BY <1>3, <1>4, <1>6, <1>8, Zenon DEF Transpose
<1>10. \A k \in 1..4 : to[k] # 0 /\ strides[k] \in Nat
  <2>1. b * c * d \in Nat /\ c * d \in Nat /\ d \in Nat /\ 1 \in Nat
    OBVIOUS
  <2>2. \A k \in 1..4 : k = 1 \/ k = 2 \/ k = 3 \/ k = 4
    OBVIOUS
  <2>3. strides[1] \in Nat /\ strides[2] \in Nat /\ strides[3] \in Nat /\ strides[4] \in Nat
    BY <1>7, <2>1
  <2>4. to[1] # 0 /\ to[2] # 0 /\ to[3] # 0 /\ to[4] # 0
    BY <1>2
  <2> QED
    BY <2>2, <2>3, <2>4
<1>11. PICK size : size = a * b * c * d
  OBVIOUS
<1>12. \A c1 \in Nat, c2 \in Nat, c3 \in Nat, c4 \in Nat : c1 \in 0..a - 1 /\ c2 \in 0..c - 1 /\ c3 \in 0..b - 1 /\ c4 \in 0..d - 1 => 0 + c1 * strides[1] + c2 * strides[2] + c3 * strides[3] + c4 * strides[4] \in 0..size - 1
  BY <1>7, <1>11, HeadsFirstPlace
<1>13. ReadsInside(4, to, 0, strides, size)
  <2>0. ASSUME NEW i \in [1..4 -> Nat], NEW sum \in [0..4 -> Nat],
               \A k \in 1..4 : i[k] \in 0..to[k] - 1,
               sum[0] = 0, \A k \in 1..4 : sum[k] = sum[k - 1] + i[k] * strides[k]
        PROVE  sum[4] \in 0..size - 1
    <3>1. sum[4] = 0 + i[1] * strides[1] + i[2] * strides[2] + i[3] * strides[3] + i[4] * strides[4]
      <4>1. \A k \in 1..4 : strides[k] \in Nat
        BY <1>10
      <4>2. 0 \in Nat
        OBVIOUS
      <4> QED
        BY <2>0, <4>1, <4>2, SumOf4Terms
    <3>2. i[1] \in Nat /\ i[1] \in 0..a - 1
      <4>1. 1 \in 1..4
        OBVIOUS
      <4>2. i[1] \in 0..to[1] - 1
        BY <2>0, <4>1
      <4>3. i[1] \in Nat
        BY <4>1
      <4>4. to[1] = a
        BY <1>2
      <4> QED
        BY <4>2, <4>3, <4>4
    <3>3. i[2] \in Nat /\ i[2] \in 0..c - 1
      <4>1. 2 \in 1..4
        OBVIOUS
      <4>2. i[2] \in 0..to[2] - 1
        BY <2>0, <4>1
      <4>3. i[2] \in Nat
        BY <4>1
      <4>4. to[2] = c
        BY <1>2
      <4> QED
        BY <4>2, <4>3, <4>4
    <3>4. i[3] \in Nat /\ i[3] \in 0..b - 1
      <4>1. 3 \in 1..4
        OBVIOUS
      <4>2. i[3] \in 0..to[3] - 1
        BY <2>0, <4>1
      <4>3. i[3] \in Nat
        BY <4>1
      <4>4. to[3] = b
        BY <1>2
      <4> QED
        BY <4>2, <4>3, <4>4
    <3>5. i[4] \in Nat /\ i[4] \in 0..d - 1
      <4>1. 4 \in 1..4
        OBVIOUS
      <4>2. i[4] \in 0..to[4] - 1
        BY <2>0, <4>1
      <4>3. i[4] \in Nat
        BY <4>1
      <4>4. to[4] = d
        BY <1>2
      <4> QED
        BY <4>2, <4>3, <4>4
    <3>6. PICK c1, c2, c3, c4 : c1 = i[1] /\ c2 = i[2] /\ c3 = i[3] /\ c4 = i[4]
      OBVIOUS
    <3>7. 0 + c1 * strides[1] + c2 * strides[2] + c3 * strides[3] + c4 * strides[4] \in 0..size - 1
      BY <1>12, <3>2, <3>3, <3>4, <3>5, <3>6
    <3> QED
      BY <3>1, <3>6, <3>7
  <2> QED
    BY <2>0 DEF ReadsInside
<1>14. Product(s) = size
  BY <1>1, <1>11, ProductOf4
<1>15. Numeric(View(x, to, 0, strides), to)
  <2>1. ReadsInside(4, to, 0, strides, Product(s))
    BY <1>13, <1>14
  <2>2. 0 \in Nat /\ 4 \in Nat
    OBVIOUS
  <2> QED
    BY <1>2, <1>3, <1>10, <2>1, <2>2, ViewStays, ZenonT(60)
<1> QED
  BY <1>1, <1>9, <1>15

LEMMA PartsFirstPlace ==
    ASSUME NEW a \in Nat \ {0}, NEW b \in Nat \ {0}, NEW c \in Nat \ {0}, NEW d \in Nat \ {0},
           NEW c1 \in 0..3 - 1, NEW c2 \in 0..a - 1, NEW c3 \in 0..c - 1, NEW c4 \in 0..b - 1, NEW c5 \in 0..d - 1,
           NEW u1, NEW u2, NEW u3, NEW u4, NEW u5,
           u1 = c * d, u2 = b * 3 * c * d, u3 = d, u4 = 3 * c * d, u5 = 1
    PROVE  0 + c1 * u1 + c2 * u2 + c3 * u3 + c4 * u4 + c5 * u5 \in 0..a * b * 3 * c * d - 1
<1>1. PICK t1, t2, t3, t4, t5 : t1 = c1 * u1 /\ t2 = c2 * u2 /\ t3 = c3 * u3 /\ t4 = c4 * u4 /\ t5 = c5 * u5
  OBVIOUS
<1>2. t1 = c1 * (c * d) /\ t1 \in Nat
  <2>1. c * d \in Nat /\ c1 \in Nat
    OBVIOUS
  <2> QED
    BY <1>1, <2>1
<1>3. t2 = c2 * (b * 3 * c * d) /\ t2 \in Nat
  <2>1. b * 3 * c * d \in Nat /\ c2 \in Nat
    OBVIOUS
  <2> QED
    BY <1>1, <2>1
<1>4. t3 = c3 * d /\ t3 \in Nat
  <2>1. d \in Nat /\ c3 \in Nat
    OBVIOUS
  <2> QED
    BY <1>1, <2>1
<1>5. t4 = c4 * (3 * c * d) /\ t4 \in Nat
  <2>1. 3 * c * d \in Nat /\ c4 \in Nat
    OBVIOUS
  <2> QED
    BY <1>1, <2>1
<1>6. t5 = c5 /\ c5 \in Nat
  BY <1>1
<1>7. c2 * (b * 3 * c * d) + c4 * (3 * c * d) + c1 * (c * d) + c3 * d + c5 \in 0..a * b * 3 * c * d - 1
  BY PlaceOf5
<1>8. PICK size : size = a * b * 3 * c * d
  OBVIOUS
<1>9. t2 + t4 + t1 + t3 + t5 \in 0..size - 1
  BY <1>2, <1>3, <1>4, <1>5, <1>6, <1>7, <1>8
<1>10. 0 + t1 + t2 + t3 + t4 + t5 \in 0..size - 1
  BY <1>2, <1>3, <1>4, <1>5, <1>6, <1>9
<1> QED
  BY <1>1, <1>8, <1>10

\* Query, key and value first, then rows, heads and positions.
LEMMA PartsFirst ==
    ASSUME NEW a \in Nat \ {0}, NEW b \in Nat \ {0}, NEW c \in Nat \ {0}, NEW d \in Nat \ {0},
           NEW x, Numeric(x, <<a, b, 3, c, d>>)
    PROVE  Numeric(Transpose(x, <<2, 0, 3, 1, 4>>), <<3, a, c, b, d>>)
<1>1. PICK s, axes, to : s = <<a, b, 3, c, d>> /\ axes = <<2, 0, 3, 1, 4>> /\ to = <<3, a, c, b, d>>
  OBVIOUS
<1>2. /\ s \in Seq(Nat) /\ Len(s) = 5 /\ DOMAIN axes = 1..5 /\ to \in Seq(Nat) /\ Len(to) = 5
      /\ s[1] = a /\ s[2] = b /\ s[3] = 3 /\ s[4] = c /\ s[5] = d
      /\ axes[1] = 2 /\ axes[2] = 0 /\ axes[3] = 3 /\ axes[4] = 1 /\ axes[5] = 4
      /\ to[1] = 3 /\ to[2] = a /\ to[3] = c /\ to[4] = b /\ to[5] = d
  BY <1>1
<1>3. x.shape = s /\ Numeric(x, s)
  BY <1>1 DEF Numeric
<1>4. PICK own : own = Strides(s)
  OBVIOUS
<1>5. own[1] = b * 3 * c * d /\ own[2] = 3 * c * d /\ own[3] = c * d /\ own[4] = d /\ own[5] = 1
  <2>1. PICK e \in Nat : e = 3
    OBVIOUS
  <2>2. own = Strides(<<a, b, e, c, d>>)
    BY <1>1, <1>4, <2>1
  <2>3. Strides(<<a, b, e, c, d>>)[1] = b * e * c * d /\ Strides(<<a, b, e, c, d>>)[2] = e * c * d /\ Strides(<<a, b, e, c, d>>)[3] = c * d /\ Strides(<<a, b, e, c, d>>)[4] = d /\ Strides(<<a, b, e, c, d>>)[5] = 1
    BY StridesOf5, SMTT(40)
  <2>4. own[1] = b * e * c * d /\ own[2] = e * c * d /\ own[3] = c * d /\ own[4] = d /\ own[5] = 1
    BY <2>2, <2>3
  <2> QED
    BY <2>1, <2>4
<1>6. PICK strides : strides = [k \in DOMAIN axes |-> own[axes[k] + 1]]
  OBVIOUS
<1>7. strides[1] = c * d /\ strides[2] = b * 3 * c * d /\ strides[3] = d /\ strides[4] = 3 * c * d /\ strides[5] = 1
  <2>1. strides[1] = own[3] /\ strides[2] = own[1] /\ strides[3] = own[4] /\ strides[4] = own[2] /\ strides[5] = own[5]
    BY <1>2, <1>6
  <2> QED
    BY <1>5, <2>1
<1>8. [k \in DOMAIN axes |-> x.shape[axes[k] + 1]] = to
  <2> DEFINE made == [k \in DOMAIN axes |-> x.shape[axes[k] + 1]]
  <2>1. \A k \in 1..5 : made[k] = to[k]
    <3>1. made[1] = to[1] /\ made[2] = to[2] /\ made[3] = to[3] /\ made[4] = to[4] /\ made[5] = to[5]
      BY <1>2, <1>3
    <3> HIDE DEF made
    <3> QED
      BY <3>1
  <2>2. DOMAIN made = 1..5 /\ made = [k \in 1..5 |-> made[k]]
    BY <1>2
  <2>3. to = [k \in 1..5 |-> to[k]]
    BY <1>2
  <2> HIDE DEF made
  <2>4. made = to
    BY <2>1, <2>2, <2>3
  <2> QED
    BY <2>4 DEF made
<1>9. Transpose(x, axes) = View(x, to, 0, strides)
  BY <1>3, <1>4, <1>6, <1>8, Zenon DEF Transpose
<1>10. \A k \in 1..5 : to[k] # 0 /\ strides[k] \in Nat
  <2>1. b * 3 * c * d \in Nat /\ 3 * c * d \in Nat /\ c * d \in Nat /\ d \in Nat /\ 1 \in Nat
    OBVIOUS
  <2>2. \A k \in 1..5 : k = 1 \/ k = 2 \/ k = 3 \/ k = 4 \/ k = 5
    OBVIOUS
  <2>3. strides[1] \in Nat /\ strides[2] \in Nat /\ strides[3] \in Nat /\ strides[4] \in Nat /\ strides[5] \in Nat
    BY <1>7, <2>1
  <2>4. to[1] # 0 /\ to[2] # 0 /\ to[3] # 0 /\ to[4] # 0 /\ to[5] # 0
    BY <1>2
  <2> QED
    BY <2>2, <2>3, <2>4
<1>11. PICK size : size = a * b * 3 * c * d
  OBVIOUS
<1>12. \A c1 \in Nat, c2 \in Nat, c3 \in Nat, c4 \in Nat, c5 \in Nat : c1 \in 0..3 - 1 /\ c2 \in 0..a - 1 /\ c3 \in 0..c - 1 /\ c4 \in 0..b - 1 /\ c5 \in 0..d - 1 => 0 + c1 * strides[1] + c2 * strides[2] + c3 * strides[3] + c4 * strides[4] + c5 * strides[5] \in 0..size - 1
  BY <1>7, <1>11, PartsFirstPlace
<1>13. ReadsInside(5, to, 0, strides, size)
  <2>0. ASSUME NEW i \in [1..5 -> Nat], NEW sum \in [0..5 -> Nat],
               \A k \in 1..5 : i[k] \in 0..to[k] - 1,
               sum[0] = 0, \A k \in 1..5 : sum[k] = sum[k - 1] + i[k] * strides[k]
        PROVE  sum[5] \in 0..size - 1
    <3>1. sum[5] = 0 + i[1] * strides[1] + i[2] * strides[2] + i[3] * strides[3] + i[4] * strides[4] + i[5] * strides[5]
      <4>1. \A k \in 1..5 : strides[k] \in Nat
        BY <1>10
      <4>2. 0 \in Nat
        OBVIOUS
      <4> QED
        BY <2>0, <4>1, <4>2, SumOf5Terms
    <3>2. i[1] \in Nat /\ i[1] \in 0..3 - 1
      <4>1. 1 \in 1..5
        OBVIOUS
      <4>2. i[1] \in 0..to[1] - 1
        BY <2>0, <4>1
      <4>3. i[1] \in Nat
        BY <4>1
      <4>4. to[1] = 3
        BY <1>2
      <4> QED
        BY <4>2, <4>3, <4>4
    <3>3. i[2] \in Nat /\ i[2] \in 0..a - 1
      <4>1. 2 \in 1..5
        OBVIOUS
      <4>2. i[2] \in 0..to[2] - 1
        BY <2>0, <4>1
      <4>3. i[2] \in Nat
        BY <4>1
      <4>4. to[2] = a
        BY <1>2
      <4> QED
        BY <4>2, <4>3, <4>4
    <3>4. i[3] \in Nat /\ i[3] \in 0..c - 1
      <4>1. 3 \in 1..5
        OBVIOUS
      <4>2. i[3] \in 0..to[3] - 1
        BY <2>0, <4>1
      <4>3. i[3] \in Nat
        BY <4>1
      <4>4. to[3] = c
        BY <1>2
      <4> QED
        BY <4>2, <4>3, <4>4
    <3>5. i[4] \in Nat /\ i[4] \in 0..b - 1
      <4>1. 4 \in 1..5
        OBVIOUS
      <4>2. i[4] \in 0..to[4] - 1
        BY <2>0, <4>1
      <4>3. i[4] \in Nat
        BY <4>1
      <4>4. to[4] = b
        BY <1>2
      <4> QED
        BY <4>2, <4>3, <4>4
    <3>6. i[5] \in Nat /\ i[5] \in 0..d - 1
      <4>1. 5 \in 1..5
        OBVIOUS
      <4>2. i[5] \in 0..to[5] - 1
        BY <2>0, <4>1
      <4>3. i[5] \in Nat
        BY <4>1
      <4>4. to[5] = d
        BY <1>2
      <4> QED
        BY <4>2, <4>3, <4>4
    <3>7. PICK c1, c2, c3, c4, c5 : c1 = i[1] /\ c2 = i[2] /\ c3 = i[3] /\ c4 = i[4] /\ c5 = i[5]
      OBVIOUS
    <3>8. 0 + c1 * strides[1] + c2 * strides[2] + c3 * strides[3] + c4 * strides[4] + c5 * strides[5] \in 0..size - 1
      BY <1>12, <3>2, <3>3, <3>4, <3>5, <3>6, <3>7
    <3> QED
      BY <3>1, <3>7, <3>8
  <2> QED
    BY <2>0 DEF ReadsInside
<1>14. Product(s) = size
  BY <1>1, <1>11, ProductOf5, SMTT(40)
<1>15. Numeric(View(x, to, 0, strides), to)
  <2>1. ReadsInside(5, to, 0, strides, Product(s))
    BY <1>13, <1>14
  <2>2. 0 \in Nat /\ 5 \in Nat
    OBVIOUS
  <2> QED
    BY <1>2, <1>3, <1>10, <2>1, <2>2, ViewStays, ZenonT(60)
<1> QED
  BY <1>1, <1>9, <1>15

LEMMA ElementsAre == ASSUME NEW S, NEW s \in Seq(S), NEW n \in Nat, Len(s) = n PROVE \A k \in 1..n : s[k] \in S
OBVIOUS

\* What holds at 0 and is kept by every step holds up to n.
LEMMA Upwards ==
    ASSUME NEW n \in Nat, NEW T, 0 \in T, \A k \in 1..n : k - 1 \in T => k \in T
    PROVE  \A k \in 0..n : k \in T
<1> DEFINE out == (0..n) \ T
<1> SUFFICES ASSUME out # {} PROVE FALSE
  OBVIOUS
<1>1. PICK k \in out : \A j \in out : k <= j
  <2>1. out \in SUBSET Nat
    OBVIOUS
  <2> HIDE DEF out
  <2> QED
    BY <2>1, LeastNat
<1>2. k \in 1..n /\ k - 1 \in 0..n /\ ~(k <= k - 1)
  BY <1>1
<1>3. k - 1 \in T
  BY <1>1, <1>2
<1> QED
  BY <1>1, <1>2, <1>3

\* One axis more, in front.
LEMMA ProductGivenFront ==
    ASSUME NEW s \in Seq(Nat), NEW t \in Seq(Nat), NEW n \in Nat, Len(s) = n, Len(t) = n + 1,
           \A k \in 1..n : s[k] = t[k + 1]
    PROVE  Product(t) = t[1] * Product(s)
<1>1. PICK p \in [0..n -> Nat] : p[0] = 1 /\ (\A k \in 1..n : p[k] = p[k - 1] * s[k]) /\ Product(s) = p[n]
  BY ProductIs
<1>2. PICK q \in [0..n + 1 -> Nat] : q[0] = 1 /\ (\A k \in 1..n + 1 : q[k] = q[k - 1] * t[k]) /\ Product(t) = q[n + 1]
  BY ProductIs
<1>0. \A k \in 1..n : s[k] \in Nat
  BY ElementsAre
<1>3. PICK f \in Nat : f = t[1]
  <2>1. 1 \in 1..Len(t)
    OBVIOUS
  <2> QED
    BY <2>1
<1> DEFINE T == {k \in 0..n : q[k + 1] = f * p[k]}
<1>4. 0 \in T
  <2>1. 1 \in 1..n + 1
    OBVIOUS
  <2>2. q[1] = q[1 - 1] * t[1]
    BY <1>2, <2>1
  <2>3. q[1] = f
    BY <1>2, <1>3, <2>2
  <2>4. f * p[0] = f
    BY <1>1, <1>3
  <2>5. q[0 + 1] = f * p[0]
    BY <2>3, <2>4
  <2>6. 0 \in 0..n
    OBVIOUS
  <2> QED
    BY <2>5, <2>6
<1>5. ASSUME NEW k \in 1..n, k - 1 \in T PROVE k \in T
  <2>0. q[(k - 1) + 1] = f * p[k - 1]
    BY <1>5
  <2>1. k + 1 \in 1..n + 1 /\ (k + 1) - 1 = k /\ (k - 1) + 1 = k /\ k - 1 \in 0..n
    OBVIOUS
  <2>2. q[k + 1] = q[(k + 1) - 1] * t[k + 1] /\ p[k] = p[k - 1] * s[k] /\ s[k] = t[k + 1]
    BY <1>1, <1>2, <2>1
  <2>3. q[k] = f * p[k - 1]
    BY <2>0, <2>1
  <2>4. PICK a, b : a = p[k - 1] /\ b = s[k]
    OBVIOUS
  <2>5. a \in Nat /\ b \in Nat
    <3> HIDE DEF T
    <3>1. s[k] \in Nat
      BY <1>0
    <3>2. p[k - 1] \in Nat
      BY <2>1
    <3> QED
      BY <2>4, <3>1, <3>2
  <2>6. q[k + 1] = (f * a) * b /\ p[k] = a * b
    BY <2>1, <2>2, <2>3, <2>4
  <2>7. (f * a) * b = f * (a * b)
    BY <2>5
  <2>8. q[k + 1] = f * p[k]
    BY <2>6, <2>7
  <2> QED
    BY <2>8
<1>6. n \in T
  <2> HIDE DEF T
  <2>1. \A k \in 0..n : k \in T
    BY <1>4, <1>5, Upwards
  <2> QED
    BY <2>1
<1>7. q[n + 1] = f * p[n]
  BY <1>6
<1> QED
  BY <1>1, <1>2, <1>3, <1>7

\* Each axis strides over all of the next.
LEMMA StridesNest ==
    ASSUME NEW s \in Seq(Nat), NEW n \in Nat \ {0}, Len(s) = n
    PROVE  /\ \A k \in 1..n : Strides(s)[k] \in Nat
           /\ Strides(s)[n] = 1
           /\ Product(s) = s[1] * Strides(s)[1]
           /\ \A k \in 1..n - 1 : Strides(s)[k] = s[k + 1] * Strides(s)[k + 1]
<1> DEFINE rest(k) == SubSeq(s, k, n)
<1>1. \A k \in 1..n : Strides(s)[k] = Product(rest(k + 1))
  BY DEF Strides
<1>2. ASSUME NEW k \in 1..n + 1
      PROVE  rest(k) \in Seq(Nat) /\ Len(rest(k)) = n - k + 1 /\ \A j \in 1..n - k + 1 : rest(k)[j] = s[k + j - 1]
  OBVIOUS
<1> HIDE DEF rest
<1>3. \A t \in Seq(Nat) : Product(t) \in Nat
  <2> SUFFICES ASSUME NEW t \in Seq(Nat) PROVE Product(t) \in Nat
    OBVIOUS
  <2>1. PICK p \in [0..Len(t) -> Nat] : Product(t) = p[Len(t)]
    BY ProductIs
  <2>2. Len(t) \in 0..Len(t)
    OBVIOUS
  <2> QED
    BY <2>1, <2>2
<1>4. ASSUME NEW k \in 1..n
      PROVE  Product(rest(k)) = s[k] * Product(rest(k + 1))
  <2>1. k \in 1..n + 1 /\ k + 1 \in 1..n + 1
    OBVIOUS
  <2>2. PICK m \in Nat : m = n - k
    OBVIOUS
  <2>3. Len(rest(k)) = m + 1 /\ Len(rest(k + 1)) = m /\ rest(k) \in Seq(Nat) /\ rest(k + 1) \in Seq(Nat)
    <3>1. k + 1 \in 1..n + 1 /\ n - k + 1 = m + 1 /\ n - (k + 1) + 1 = m
      BY <2>1, <2>2
    <3>2. rest(k) \in Seq(Nat) /\ Len(rest(k)) = n - k + 1
      BY <1>2, <2>1
    <3>3. rest(k + 1) \in Seq(Nat) /\ Len(rest(k + 1)) = n - (k + 1) + 1
      BY <1>2, <2>1
    <3> QED
      BY <3>1, <3>2, <3>3
  <2>4. \A j \in 1..m : rest(k + 1)[j] = rest(k)[j + 1]
    <3> SUFFICES ASSUME NEW j \in 1..m PROVE rest(k + 1)[j] = rest(k)[j + 1]
      OBVIOUS
    <3>1. rest(k + 1)[j] = s[(k + 1) + j - 1]
      BY <1>2, <2>1, <2>2
    <3>2. rest(k)[j + 1] = s[k + (j + 1) - 1]
      BY <1>2, <2>1, <2>2
    <3> QED
      BY <3>1, <3>2
  <2>5. rest(k)[1] = s[k]
    <3>1. 1 \in 1..n - k + 1 /\ k + 1 - 1 = k
      OBVIOUS
    <3> QED
      BY <1>2, <2>1, <3>1, ZenonT(60)
  <2> QED
    BY <2>3, <2>4, <2>5, ProductGivenFront
<1>5. rest(1) = s
  BY DEF rest
<1>6. \A k \in 1..n : Strides(s)[k] \in Nat
  <2> SUFFICES ASSUME NEW k \in 1..n PROVE Strides(s)[k] \in Nat
    OBVIOUS
  <2>1. k + 1 \in 1..n + 1
    OBVIOUS
  <2> QED
    BY <1>1, <1>2, <1>3, <2>1
<1>7. Strides(s)[n] = 1
  <2>1. n + 1 \in 1..n + 1 /\ n \in 1..n
    OBVIOUS
  <2>2. rest(n + 1) = <<>>
    BY <1>2, <2>1
  <2>3. Product(<<>>) = 1
    BY ProductOf1
  <2> QED
    BY <1>1, <2>1, <2>2, <2>3
<1>8. Product(s) = s[1] * Strides(s)[1]
  <2>1. 1 \in 1..n
    OBVIOUS
  <2> QED
    BY <1>1, <1>4, <1>5, <2>1
<1>9. \A k \in 1..n - 1 : Strides(s)[k] = s[k + 1] * Strides(s)[k + 1]
  <2> SUFFICES ASSUME NEW k \in 1..n - 1 PROVE Strides(s)[k] = s[k + 1] * Strides(s)[k + 1]
    OBVIOUS
  <2>1. k \in 1..n /\ k + 1 \in 1..n
    OBVIOUS
  <2> QED
    BY <1>1, <1>4, <2>1
<1> QED
  BY <1>6, <1>7, <1>8, <1>9

\* A place on every axis is a place in the tensor.
LEMMA PlaceIsInside ==
    ASSUME NEW s \in Seq(Nat), NEW n \in Nat \ {0}, Len(s) = n,
           NEW c \in [1..n -> Nat], NEW sum \in [0..n -> Nat], \A k \in 1..n : c[k] \in 0..s[k] - 1,
           sum[0] = 0, \A k \in 1..n : sum[k] = sum[k - 1] + c[k] * Strides(s)[k]
    PROVE  sum[n] \in 0..Product(s) - 1
<1>1. PICK own : own = Strides(s)
  OBVIOUS
<1>2. PICK size : size = Product(s)
  OBVIOUS
<1>3. /\ \A k \in 1..n : own[k] \in Nat
      /\ own[n] = 1 /\ size = s[1] * own[1]
      /\ \A k \in 1..n - 1 : own[k] = s[k + 1] * own[k + 1]
  BY <1>1, <1>2, StridesNest
<1>4. \A k \in 1..n : sum[k] = sum[k - 1] + c[k] * own[k]
  BY <1>1
<1>5. \A k \in 1..n : s[k] \in Nat
  BY SMTT(40)
<1>6. ASSUME NEW k \in 1..n PROVE c[k] * own[k] + own[k] <= s[k] * own[k]
  <2>1. PICK a \in Nat, b \in Nat, w \in Nat : a = c[k] /\ b = s[k] /\ w = own[k]
    BY <1>3, <1>5
  <2>2. a + 1 <= b
    BY <2>1
  <2>3. (a + 1) * w <= b * w
    <3>1. a + 1 \in Nat
      OBVIOUS
    <3> QED
      BY <2>2, <3>1, ProductGrows
  <2>4. (a + 1) * w = a * w + w
    OBVIOUS
  <2> QED
    BY <2>1, <2>3, <2>4
<1>7. \A k \in 1..n : c[k] * own[k] \in Nat /\ s[k] * own[k] \in Nat
  <2> SUFFICES ASSUME NEW k \in 1..n PROVE c[k] * own[k] \in Nat /\ s[k] * own[k] \in Nat
    OBVIOUS
  <2>1. PICK a \in Nat, b \in Nat, w \in Nat : a = c[k] /\ b = s[k] /\ w = own[k]
    BY <1>3, <1>5
  <2>2. a * w \in Nat /\ b * w \in Nat
    OBVIOUS
  <2> QED
    BY <2>1, <2>2
<1> DEFINE T == {k \in 0..n : k = 0 \/ sum[k] + own[k] <= size}
<1>8. ASSUME NEW k \in 1..n, k - 1 \in T PROVE k \in T
  <2> SUFFICES sum[k] + own[k] <= size
    OBVIOUS
  <2>0. k - 1 = 0 \/ sum[k - 1] + own[k - 1] <= size
    BY <1>8
  <2>1. PICK x \in Nat, y \in Nat, w \in Nat : x = c[k] * own[k] /\ y = s[k] * own[k] /\ w = own[k]
    BY <1>3, <1>7
  <2>2. x + w <= y /\ sum[k] = sum[k - 1] + x /\ sum[k - 1] \in Nat
    <3>1. k - 1 \in 0..n
      OBVIOUS
    <3> QED
      BY <1>4, <1>6, <2>1, <3>1
  <2>3. CASE k = 1
    <3>1. sum[k - 1] = 0 /\ y = size
      BY <1>3, <2>1, <2>3
    <3> QED
      BY <2>1, <2>2, <3>1, SMTT(40)
  <2>4. CASE k # 1
    <3>1. k - 1 \in 1..n - 1 /\ (k - 1) + 1 = k /\ k - 1 # 0
      BY <2>4
    <3>2. own[k - 1] = y
      BY <1>3, <2>1, <3>1
    <3>3. sum[k - 1] + y <= size
      BY <2>0, <3>1, <3>2
    <3>4. size \in Nat
      <4>1. s[1] \in Nat /\ own[1] \in Nat
        BY <1>3, <1>5
      <4>2. s[1] * own[1] \in Nat
        BY <4>1, SMTT(40)
      <4> QED
        BY <1>3, <4>2
    <3>5. PICK u \in Nat : u = sum[k - 1]
      BY <2>2
    <3> HIDE DEF T
    <3>6. sum[k] = u + x /\ sum[k] + own[k] = u + x + w
      BY <2>1, <2>2, <3>5
    <3>7. u + y <= size
      BY <3>3, <3>5
    <3>8. u + x + w <= size
      BY <2>2, <3>4, <3>7
    <3> QED
      BY <3>6, <3>8
  <2> QED
    BY <2>3, <2>4
<1>9. n \in T
  <2>1. 0 \in T
    OBVIOUS
  <2> HIDE DEF T
  <2>2. \A k \in 0..n : k \in T
    BY <1>8, <2>1, Upwards
  <2> QED
    BY <2>2
<1>10. sum[n] + 1 <= size /\ sum[n] \in Nat
  <2>1. n # 0 /\ n \in 0..n
    OBVIOUS
  <2>2. sum[n] + own[n] <= size
    BY <1>9, <2>1
  <2> QED
    BY <1>3, <2>1, <2>2
<1>11. size \in Nat
  <2>1. s[1] \in Nat /\ own[1] \in Nat
    BY <1>3, <1>5
  <2> QED
    BY <1>3, <2>1, SMTT(40)
<1> QED
  BY <1>2, <1>10, <1>11

\* Some entries of an axis.
LEMMA NarrowStays ==
    ASSUME NEW n \in Nat \ {0}, NEW s \in Seq(Nat), Len(s) = n, \A k \in 1..n : s[k] # 0,
           NEW x, Numeric(x, s), NEW a \in Int, NEW axis \in 1..n, axis = Axis(x, a),
           NEW start \in Nat, NEW m \in Nat \ {0}, start + m <= s[axis]
    PROVE  Numeric(Narrow(x, a, start, m), [s EXCEPT ![axis] = m])
<1>1. PICK own : own = Strides(s)
  OBVIOUS
<1>2. \A k \in 1..n : own[k] \in Nat
  BY <1>1, StridesNest
<1>3. PICK base \in Nat : base = start * own[axis]
  BY <1>2
<1>4. PICK to : to = [s EXCEPT ![axis] = m]
  OBVIOUS
<1>5. to \in Seq(Nat) /\ Len(to) = n /\ \A k \in 1..n : to[k] = IF k = axis THEN m ELSE s[k]
  BY <1>4
<1>10. \A k \in 1..n : s[k] \in Nat /\ to[k] \in Nat
  BY <1>5, SMTT(40)
<1>11. \A u, v, w, l \in Nat : u <= v - 1 /\ l + v <= w => u + l \in 0..w - 1
  OBVIOUS
<1>6. Narrow(x, a, start, m) = View(x, to, base, own)
  <2>1. x.shape = s
    BY DEF Numeric
  <2> QED
    BY <1>1, <1>3, <1>4, <2>1, Zenon DEF Narrow
<1>7. ReadsInside(n, to, base, own, Product(s))
  <2>0. ASSUME NEW c \in [1..n -> Nat], NEW sum \in [0..n -> Nat], \A k \in 1..n : c[k] \in 0..to[k] - 1,
               sum[0] = base, \A k \in 1..n : sum[k] = sum[k - 1] + c[k] * own[k]
        PROVE  sum[n] \in 0..Product(s) - 1
    <3> DEFINE d == [k \in 1..n |-> IF k = axis THEN c[k] + start ELSE c[k]]
               from == [k \in 0..n |-> IF k < axis THEN sum[k] - base ELSE sum[k]]
    <3>1. d \in [1..n -> Nat] /\ \A k \in 1..n : d[k] \in 0..s[k] - 1
      <4>2. ASSUME NEW k \in 1..n PROVE d[k] \in 0..s[k] - 1
        <5>0. PICK v \in Nat, w \in Nat, top \in Nat : v = c[k] /\ w = s[k] /\ top = to[k] /\ v <= top - 1
          <6>1. c[k] \in Nat /\ c[k] \in 0..to[k] - 1
            BY <2>0
          <6>2. s[k] \in Nat /\ to[k] \in Nat
            BY <1>10
          <6> QED
            BY <6>1, <6>2, SMTT(40)
        <5>2. CASE k = axis
          <6>1. d[k] = v + start /\ top = m /\ start + m <= w
            BY <1>5, <5>0, <5>2
          <6>2. v + start \in 0..w - 1
            BY <1>11, <5>0, <6>1
          <6> QED
            BY <5>0, <6>1, <6>2
        <5>3. CASE k # axis
          <6>1. d[k] = v /\ top = w
            BY <1>5, <5>0, <5>3
          <6>2. v \in 0..w - 1
            BY <5>0, <6>1
          <6> QED
            BY <5>0, <6>1, <6>2
        <5> QED
          BY <5>2, <5>3
      <4> QED
        BY <4>2
    <3>2. \A k \in 1..n : c[k] * own[k] \in Nat
      BY <1>2, SMTT(40)
    <3>3. \A k \in 0..n : sum[k] \in {v \in Nat : base <= v}
      <4> DEFINE S == {v \in Nat : base <= v}
      <4>1. sum[0] \in S
        BY <2>0
      <4>2. \A k \in 1..n : sum[k - 1] \in S => sum[k] \in S
        <5> SUFFICES ASSUME NEW k \in 1..n, sum[k - 1] \in S PROVE sum[k] \in S
          OBVIOUS
        <5>1. PICK e \in Nat : e = c[k] * own[k]
          BY <3>2
        <5>2. sum[k] = sum[k - 1] + e
          BY <2>0, <5>1
        <5>3. PICK v \in Nat : v = sum[k - 1] /\ base <= v
          OBVIOUS
        <5>4. v + e \in Nat /\ base <= v + e
          BY <5>3, SMTT(40)
        <5> QED
          BY <5>2, <5>3, <5>4
      <4> HIDE DEF S
      <4>3. \A k \in 0..n : sum[k] \in S
        BY <4>1, <4>2, StepsStay
      <4> QED
        BY <4>3 DEF S
    <3>4. from \in [0..n -> Nat]
      BY <3>3, SMTT(40)
    <3>5. from[0] = 0 /\ from[n] = sum[n]
      BY <2>0, SMTT(40)
    <3>8. \A k \in 0..n : from[k] = IF k < axis THEN sum[k] - base ELSE sum[k]
      OBVIOUS
    <3>9. \A k \in 1..n : d[k] = IF k = axis THEN c[k] + start ELSE c[k]
      OBVIOUS
    <3>6. ASSUME NEW k \in 1..n PROVE from[k] = from[k - 1] + d[k] * own[k]
      <4>1. PICK e \in Nat : e = c[k] * own[k]
        BY <3>2
      <4>2. sum[k] = sum[k - 1] + e
        BY <2>0, <4>1
      <4>3. k - 1 \in 0..n /\ k \in 0..n
        OBVIOUS
      <4>4. sum[k] \in Nat /\ sum[k - 1] \in Nat
        BY <4>3
      <4>5. CASE k < axis
        <5>1. d[k] = c[k] /\ k - 1 < axis
          <6> HIDE DEF d, from
          <6> QED
            BY <3>9, <4>3, <4>5, SMTT(40)
        <5>2. from[k] = sum[k] - base /\ from[k - 1] = sum[k - 1] - base
          <6> HIDE DEF d, from
          <6> QED
            BY <3>8, <4>3, <4>5, <5>1
        <5>3. d[k] * own[k] = e
          BY <4>1, <5>1
        <5> HIDE DEF d, from
        <5> QED
          BY <4>2, <4>4, <5>2, <5>3, SMTT(40)
      <4>6. CASE k > axis
        <5>1. d[k] = c[k] /\ ~(k - 1 < axis) /\ ~(k < axis)
          BY <4>3, <4>6, SMTT(40)
        <5>2. from[k] = sum[k] /\ from[k - 1] = sum[k - 1]
          BY <4>3, <5>1
        <5>3. d[k] * own[k] = e
          BY <4>1, <5>1
        <5> HIDE DEF d, from
        <5> QED
          BY <4>2, <4>4, <5>2, <5>3
      <4>7. CASE k = axis
        <5>1. d[k] = c[k] + start /\ from[k] = sum[k] /\ from[k - 1] = sum[k - 1] - base
          BY <4>3, <4>7, SMTT(40)
        <5>2. d[k] * own[k] = e + base
          <6>1. PICK u \in Nat, w \in Nat : u = c[k] /\ w = own[k]
            BY <1>2
          <6>2. (u + start) * w = u * w + start * w
            OBVIOUS
          <6> QED
            BY <1>3, <4>1, <4>7, <5>1, <6>1, <6>2
        <5> QED
          BY <4>2, <4>4, <5>1, <5>2, SMTT(40)
      <4> QED
        BY <4>5, <4>6, <4>7
    <3> HIDE DEF d, from
    <3>7. from[n] \in 0..Product(s) - 1
      BY <1>1, <3>1, <3>4, <3>5, <3>6, PlaceIsInside, ZenonT(60)
    <3> QED
      BY <3>5, <3>7
  <2> QED
    BY <2>0 DEF ReadsInside
<1>8. \A k \in 1..n : to[k] # 0 /\ own[k] \in Nat
  BY <1>2, <1>5
<1>9. Numeric(View(x, to, base, own), to)
  BY <1>5, <1>7, <1>8, ViewStays
<1> QED
  BY <1>4, <1>6, <1>9

\* The first axis of a matrix, the last of three, the first of five.
LEMMA RowsTaken ==
    ASSUME NEW n \in Nat \ {0}, NEW k \in Nat \ {0}, NEW x, Numeric(x, <<n, k>>),
           NEW start \in Nat, NEW m \in Nat \ {0}, start + m <= n
    PROVE  Numeric(Narrow(x, 0, start, m), <<m, k>>)
<1>1. PICK s : s = <<n, k>>
  OBVIOUS
<1>2. s \in Seq(Nat) /\ Len(s) = 2 /\ s[1] = n /\ s[2] = k /\ \A j \in 1..2 : s[j] # 0
  BY <1>1
<1>3. Axis(x, 0) = 1 /\ Numeric(x, s) /\ 2 \in Nat \ {0} /\ 0 \in Int /\ 1 \in 1..2
  BY <1>1 DEF Axis
<1>4. Numeric(Narrow(x, 0, start, m), [s EXCEPT ![1] = m])
  BY <1>2, <1>3, NarrowStays
<1>5. [s EXCEPT ![1] = m] = <<m, k>>
  BY <1>1
<1> QED
  BY <1>4, <1>5

LEMMA ColumnsTaken ==
    ASSUME NEW b \in Nat \ {0}, NEW r \in Nat \ {0}, NEW n \in Nat \ {0}, NEW x, Numeric(x, <<b, r, n>>),
           NEW start \in Nat, NEW m \in Nat \ {0}, start + m <= n
    PROVE  Numeric(Narrow(x, -1, start, m), <<b, r, m>>)
<1>1. PICK s : s = <<b, r, n>>
  OBVIOUS
<1>2. s \in Seq(Nat) /\ Len(s) = 3 /\ s[3] = n /\ \A j \in 1..3 : s[j] # 0
  BY <1>1
<1>3. Axis(x, -1) = 3 /\ Numeric(x, s) /\ 3 \in Nat \ {0} /\ -1 \in Int /\ 3 \in 1..3
  BY <1>1, <1>2 DEF Axis, Numeric
<1>4. Numeric(Narrow(x, -1, start, m), [s EXCEPT ![3] = m])
  BY <1>2, <1>3, NarrowStays
<1>5. [s EXCEPT ![3] = m] = <<b, r, m>>
  BY <1>1
<1> QED
  BY <1>4, <1>5

LEMMA PartTaken ==
    ASSUME NEW a \in Nat \ {0}, NEW b \in Nat \ {0}, NEW c \in Nat \ {0}, NEW d \in Nat \ {0},
           NEW x, Numeric(x, <<3, a, b, c, d>>), NEW p \in 0..2
    PROVE  Numeric(Narrow(x, 0, p, 1), <<1, a, b, c, d>>)
<1>1. PICK s : s = <<3, a, b, c, d>>
  OBVIOUS
<1>2. s \in Seq(Nat) /\ Len(s) = 5 /\ s[1] = 3 /\ \A j \in 1..5 : s[j] # 0
  BY <1>1
<1>3. Axis(x, 0) = 1 /\ Numeric(x, s) /\ 5 \in Nat \ {0} /\ 0 \in Int /\ 1 \in 1..5
  BY <1>1 DEF Axis
<1>4. p \in Nat /\ 1 \in Nat \ {0} /\ p + 1 <= s[1]
  BY <1>2
<1>5. Numeric(Narrow(x, 0, p, 1), [s EXCEPT ![1] = 1])
  BY <1>2, <1>3, <1>4, NarrowStays
<1>6. [s EXCEPT ![1] = 1] = <<1, a, b, c, d>>
  BY <1>1
<1> QED
  BY <1>5, <1>6

\* What only changes the shape.
LEMMA ReshapeStays ==
    ASSUME NEW x, NEW s, Numeric(x, s), NEW t \in Seq(Nat), Product(t) = Product(s)
    PROVE  Numeric(Reshape(x, t), t)
<1>1. Reshape(x, t).shape = t /\ Reshape(x, t).data = x.data
  BY TensorIs DEF Reshape
<1> QED
  BY <1>1 DEF Numeric

-----------------------------------------------------------------------------
(* Element by element.                                                     *)

LEMMA SameShape ==
    ASSUME NEW s \in Seq(Nat), NEW x, x.shape = s, NEW y, y.shape = s
    PROVE  Wider(x.shape, y.shape) = s /\ Broadcast(x, s) = x /\ Broadcast(y, s) = y
<1>1. Broadcast(x, s) = x /\ Broadcast(y, s) = y
  BY DEF Broadcast
<1>2. Wider(s, s) = s
  <2>1. PICK n \in Nat : n = Len(s)
    OBVIOUS
  <2>2. Wider(s, s) = [k \in 1..n |-> s[k]]
    BY <2>1 DEF Wider
  <2> QED
    BY <2>1, <2>2
<1> QED
  BY <1>1, <1>2

LEMMA AddStays ==
    ASSUME NEW s \in Seq(Nat), NEW x, Numeric(x, s), NEW y, Numeric(y, s)
    PROVE  Numeric(Add(x, y), s)
<1>1. Wider(x.shape, y.shape) = s /\ Broadcast(x, s) = x /\ Broadcast(y, s) = y
  BY SameShape DEF Numeric
<1>2. Add(x, y) = Tensor(s, [i \in 0..Product(s) - 1 |-> Plus(x.data[i], y.data[i])])
  BY <1>1 DEF Add, Map2
<1>3. Add(x, y).shape = s /\ Add(x, y).data = [i \in 0..Product(s) - 1 |-> Plus(x.data[i], y.data[i])]
  BY <1>2, TensorIs
<1>4. \A i \in 0..Product(s) - 1 : Plus(x.data[i], y.data[i]) \in Numbers
  BY PlusStays DEF Numeric
<1> QED
  BY <1>3, <1>4 DEF Numeric

LEMMA MulStays ==
    ASSUME NEW s \in Seq(Nat), NEW x, Numeric(x, s), NEW y, Numeric(y, s)
    PROVE  Numeric(Mul(x, y), s)
<1>1. Wider(x.shape, y.shape) = s /\ Broadcast(x, s) = x /\ Broadcast(y, s) = y
  BY SameShape DEF Numeric
<1>2. Mul(x, y) = Tensor(s, [i \in 0..Product(s) - 1 |-> Times(x.data[i], y.data[i])])
  BY <1>1 DEF Mul, Map2
<1>3. Mul(x, y).shape = s /\ Mul(x, y).data = [i \in 0..Product(s) - 1 |-> Times(x.data[i], y.data[i])]
  BY <1>2, TensorIs
<1>4. \A i \in 0..Product(s) - 1 : Times(x.data[i], y.data[i]) \in Numbers
  BY TimesStays DEF Numeric
<1> QED
  BY <1>3, <1>4 DEF Numeric

LEMMA ScaledStays ==
    ASSUME NEW s \in Seq(Nat), NEW x, Numeric(x, s), NEW c \in Numbers
    PROVE  Numeric(Scaled(x, c), s)
<1>1. x.shape = s /\ x.data \in [0..Product(s) - 1 -> Numbers]
  BY DEF Numeric
<1>2. Scaled(x, c) = Tensor(s, [i \in 0..Product(s) - 1 |-> Times(x.data[i], c)])
  BY <1>1 DEF Scaled, Map1
<1>3. Scaled(x, c).shape = s /\ Scaled(x, c).data = [i \in 0..Product(s) - 1 |-> Times(x.data[i], c)]
  BY <1>2, TensorIs
<1>4. \A i \in 0..Product(s) - 1 : Times(x.data[i], c) \in Numbers
  BY <1>1, TimesStays
<1> QED
  BY <1>3, <1>4 DEF Numeric

LEMMA ActStays == \A a \in Numbers : Act(config, a) \in Numbers
BY FunctionsStay DEF Act

LEMMA ActivatedStays ==
    ASSUME NEW s \in Seq(Nat), NEW x, Numeric(x, s)
    PROVE  Numeric(Map1(LAMBDA a : Act(config, a), x), s)
<1> DEFINE y == Map1(LAMBDA a : Act(config, a), x)
<1>1. x.shape = s /\ x.data \in [0..Product(s) - 1 -> Numbers]
  BY DEF Numeric
<1>2. y = Tensor(s, [i \in 0..Product(s) - 1 |-> Act(config, x.data[i])])
  BY <1>1 DEF Map1
<1>3. y.shape = s /\ y.data = [i \in 0..Product(s) - 1 |-> Act(config, x.data[i])]
  <2> HIDE DEF y
  <2> QED
    BY <1>2, TensorIs
<1>4. \A i \in 0..Product(s) - 1 : Act(config, x.data[i]) \in Numbers
  BY <1>1, ActStays
<1> HIDE DEF y
<1>5. Numeric(y, s)
  BY <1>3, <1>4 DEF Numeric
<1> QED
  BY <1>5 DEF y

-----------------------------------------------------------------------------
(* Products and rows.                                                      *)

\* Places of a batch of rows.
LEMMA RowPlace ==
    ASSUME NEW m \in Nat, NEW n \in Nat, NEW i \in 0..m * n - 1
    PROVE  /\ m > 0 /\ n > 0 /\ i \div n \in 0..m - 1 /\ i % n \in 0..n - 1 /\ i \div (m * n) = 0 /\ i % (m * n) = i
<1>1. n * m = m * n
  OBVIOUS
<1>2. n > 0 /\ m > 0 /\ \E k \in 0..m - 1, r \in 0..n - 1 : k = i \div n /\ r = i % n /\ i = n * k + r
  BY <1>1, QuotientIsLess
<1>3. PICK size \in Nat : size = m * n
  OBVIOUS
<1>4. size \in Nat \ {0} /\ i \in 0..size - 1
  BY <1>3
<1>5. i = size * 0 + i
  BY <1>3
<1>6. i \div size = 0 /\ i % size = i
  BY <1>4, <1>5, DivisionIs
<1> QED
  BY <1>2, <1>3, <1>6

\* Rows of x by the rows of a weight.
LEMMA MatMulStays ==
    ASSUME NEW m \in Nat, NEW n \in Nat, NEW k \in Nat, NEW x, Numeric(x, <<m, k>>), NEW y, Numeric(y, <<n, k>>)
    PROVE  Numeric(MatMulT(x, y), <<m, n>>)
<1> DEFINE row(z, r) == [j \in 0..k - 1 |-> z.data[r * k + j]]
           at(i) == Dot(row(x, (i \div (m * n)) * m + ((i % (m * n)) \div n)), row(y, (i \div (m * n)) * n + (i % n)), k)
<1>1. x.shape = <<m, k>> /\ y.shape = <<n, k>>
  BY DEF Numeric
<1>2. Dim(x, -2) = m /\ Dim(y, -2) = n /\ Dim(x, -1) = k
  BY <1>1 DEF Dim, Axis
<1>3. [x.shape EXCEPT ![Len(x.shape)] = n] = <<m, n>>
  BY <1>1
<1>4. Product(<<m, n>>) = m * n /\ Product(<<m, k>>) = m * k /\ Product(<<n, k>>) = n * k
  BY ProductOf2
<1>5. MatMulT(x, y) = Tensor(<<m, n>>, [i \in 0..m * n - 1 |-> at(i)])
  <2> HIDE DEF at
  <2>1. MatMulT(x, y) = Tensor(<<m, n>>, [i \in 0..Product(<<m, n>>) - 1 |-> at(i)])
    BY <1>2, <1>3, ZenonT(60) DEF MatMulT, at
  <2> QED
    BY <1>4, <2>1
<1>6. ASSUME NEW i \in 0..m * n - 1 PROVE at(i) \in Numbers
  <2>1. i \div n \in 0..m - 1 /\ i % n \in 0..n - 1 /\ i \div (m * n) = 0 /\ i % (m * n) = i
    BY RowPlace
  <2>2. PICK r \in 0..m - 1, c \in 0..n - 1 : r = i \div n /\ c = i % n
    BY <2>1
  <2>3. at(i) = Dot(row(x, r), row(y, c), k)
    <3>1. 0 * m + r = r /\ 0 * n + c = c
      BY <2>2
    <3> HIDE DEF row
    <3> QED
      BY <2>1, <2>2, <3>1
  <2>4. \A j \in 0..k - 1 : row(x, r)[j] \in Numbers /\ row(y, c)[j] \in Numbers
    <3> SUFFICES ASSUME NEW j \in 0..k - 1 PROVE x.data[r * k + j] \in Numbers /\ y.data[c * k + j] \in Numbers
      OBVIOUS
    <3>1. r * k + j \in 0..m * k - 1 /\ c * k + j \in 0..n * k - 1
      BY PlaceOf2
    <3>2. x.data \in [0..m * k - 1 -> Numbers] /\ y.data \in [0..n * k - 1 -> Numbers]
      BY <1>4 DEF Numeric
    <3> QED
      BY <3>1, <3>2
  <2> HIDE DEF row, at
  <2>5. Dot(row(x, r), row(y, c), k) \in Numbers
    BY <2>4, DotStays
  <2> QED
    BY <2>3, <2>5
<1> HIDE DEF at
<1>7. <<m, n>> \in Seq(Nat)
  OBVIOUS
<1>8. MatMulT(x, y).shape = <<m, n>> /\ MatMulT(x, y).data = [i \in 0..m * n - 1 |-> at(i)]
  <2>1. PICK t, data : t = <<m, n>> /\ data = [i \in 0..m * n - 1 |-> at(i)]
    OBVIOUS
  <2>2. MatMulT(x, y) = Tensor(t, data) /\ t \in Seq(Nat)
    BY <1>5, <1>7, <2>1
  <2>3. MatMulT(x, y).shape = t /\ MatMulT(x, y).data = data
    BY <2>2, TensorIs
  <2> QED
    BY <2>1, <2>3
<1> QED
  BY <1>4, <1>6, <1>8, ZenonT(60) DEF Numeric

LEMMA LinearStays ==
    ASSUME NEW b \in Nat \ {0}, NEW s \in Nat \ {0}, NEW k \in Nat \ {0}, NEW n \in Nat \ {0},
           NEW x, Numeric(x, <<b, s, k>>), NEW weight, Numeric(weight, <<n, k>>)
    PROVE  Numeric(Linear(x, weight), <<b, s, n>>)
<1>1. x.shape = <<b, s, k>> /\ weight.shape = <<n, k>>
  BY DEF Numeric
<1>2. Dim(x, -1) = k /\ Dim(weight, 0) = n /\ [x.shape EXCEPT ![Len(x.shape)] = n] = <<b, s, n>>
  BY <1>1 DEF Dim, Axis
<1>3. PICK rows \in Nat : rows = b * s
  OBVIOUS
<1>4. Elements(x) = k * rows
  <2>1. Product(<<b, s, k>>) = b * s * k
    BY ProductOf3
  <2>2. b * s * k = k * rows
    BY <1>3
  <2> QED
    BY <1>1, <2>1, <2>2 DEF Elements
<1>5. Elements(x) \div Dim(x, -1) = rows
  <2>1. PICK e : e = k * rows
    OBVIOUS
  <2>2. e = k * rows + 0 /\ 0 \in 0..k - 1
    BY <2>1
  <2>3. e \div k = rows
    BY <2>2, DivisionIs
  <2> QED
    BY <1>2, <1>4, <2>1, <2>3
<1>6. Numeric(Reshape(x, <<rows, k>>), <<rows, k>>)
  <2>1. Product(<<rows, k>>) = rows * k /\ Product(<<b, s, k>>) = b * s * k
    BY ProductOf2, ProductOf3
  <2>2. rows * k = b * s * k
    BY <1>3
  <2>3. <<rows, k>> \in Seq(Nat)
    OBVIOUS
  <2> QED
    BY <2>1, <2>2, <2>3, ReshapeStays
<1> DEFINE flat == MatMulT(Reshape(x, <<rows, k>>), weight)
<1>7. Numeric(flat, <<rows, n>>)
  BY <1>6, MatMulStays
<1>8. Linear(x, weight) = Reshape(flat, <<b, s, n>>)
  BY <1>2, <1>5, Zenon DEF Linear
<1> HIDE DEF flat
<1>9. Product(<<rows, n>>) = Product(<<b, s, n>>)
  <2>1. Product(<<rows, n>>) = rows * n /\ Product(<<b, s, n>>) = b * s * n
    BY ProductOf2, ProductOf3
  <2>2. rows * n = b * s * n
    BY <1>3
  <2> QED
    BY <2>1, <2>2
<1>10. <<b, s, n>> \in Seq(Nat)
  OBVIOUS
<1> QED
  BY <1>7, <1>8, <1>9, <1>10, ReshapeStays

\* A norm along the last axis.
LEMMA LayerNormStays ==
    ASSUME NEW b \in Nat \ {0}, NEW s \in Nat \ {0}, NEW h \in Nat \ {0}, NEW x, Numeric(x, <<b, s, h>>),
           NEW gamma, Numeric(gamma, <<h>>), NEW eps \in Numbers
    PROVE  Numeric(LayerNorm(x, gamma, eps), <<b, s, h>>)
<1> DEFINE taken(r) == [j \in 0..h - 1 |-> x.data[r * h + j]]
           normed(r) == NormRow(taken(r), h, gamma.data, eps)
<1>1. PICK rows \in Nat : rows = b * s
  OBVIOUS
<1>2. PICK shape : shape = <<b, s, h>>
  OBVIOUS
<1>0. shape \in Seq(Nat)
  BY <1>2
<1>3. Product(shape) = rows * h /\ Product(<<h>>) = h
  <2>1. Product(<<b, s, h>>) = b * s * h /\ Product(<<h>>) = h
    BY ProductOf1, ProductOf3
  <2> QED
    BY <1>1, <1>2, <2>1
<1>4. x.shape = shape /\ x.data \in [0..rows * h - 1 -> Numbers] /\ gamma.data \in [0..h - 1 -> Numbers]
  BY <1>2, <1>3 DEF Numeric
<1>5. Dim(x, -1) = h /\ Elements(x) = rows * h
  BY <1>2, <1>3, <1>4 DEF Dim, Axis, Elements
<1>6. (rows * h) \div h = rows
  <2>1. PICK e : e = rows * h
    OBVIOUS
  <2>2. e = h * rows + 0 /\ 0 \in 0..h - 1
    BY <2>1
  <2>3. e \div h = rows
    BY <2>2, DivisionIs
  <2> QED
    BY <2>1, <2>3
<1> DEFINE each == [r \in 0..rows - 1 |-> normed(r)]
<1>7. LayerNorm(x, gamma, eps) = Tensor(shape, [i \in 0..rows * h - 1 |-> each[i \div h][i % h]])
  <2> DEFINE op(row, n) == NormRow(row, n, gamma.data, eps)
             known == Known([r \in 0..Elements(x) \div h - 1 |->
                                Known(op(Known([j \in 0..h - 1 |-> x.data[r * h + j]]), h))])
  <2>1. LayerNorm(x, gamma, eps) = Tensor(x.shape, [i \in 0..Elements(x) - 1 |-> known[i \div h][i % h]])
    BY <1>5 DEF LayerNorm, Rows
  <2>2. known = each
    <3>1. \A r : Known(op(Known(taken(r)), h)) = normed(r)
      <4> HIDE DEF taken
      <4> QED
        BY KnownIs
    <3>2. known = Known([r \in 0..rows - 1 |-> Known(op(Known(taken(r)), h))])
      BY <1>5, <1>6
    <3> HIDE DEF taken, normed, op, known
    <3>3. [r \in 0..rows - 1 |-> Known(op(Known(taken(r)), h))] = each
      BY <3>1
    <3> HIDE DEF each
    <3> QED
      BY <3>2, <3>3, KnownIs
  <2> HIDE DEF known, each
  <2> QED
    BY <1>4, <1>5, <2>1, <2>2
<1>8. ASSUME NEW i \in 0..rows * h - 1 PROVE each[i \div h][i % h] \in Numbers
  <2>1. PICK r \in 0..rows - 1, j \in 0..h - 1 : r = i \div h /\ j = i % h
    BY RowPlace
  <2>2. \A c \in 0..h - 1 : taken(r)[c] \in Numbers /\ gamma.data[c] \in Numbers
    <3> SUFFICES ASSUME NEW c \in 0..h - 1 PROVE x.data[r * h + c] \in Numbers /\ gamma.data[c] \in Numbers
      OBVIOUS
    <3>1. r * h + c \in 0..rows * h - 1
      BY PlaceOf2
    <3> QED
      BY <1>4, <3>1
  <2> HIDE DEF taken
  <2>3. normed(r)[j] \in Numbers
    BY <2>2, NormRowStays
  <2> HIDE DEF normed
  <2> QED
    BY <2>1, <2>3
<1> HIDE DEF each
<1>9. PICK data : data = [i \in 0..rows * h - 1 |-> each[i \div h][i % h]]
  OBVIOUS
<1>10. LayerNorm(x, gamma, eps).shape = shape /\ LayerNorm(x, gamma, eps).data = data
  BY <1>0, <1>7, <1>9, TensorIs
<1>11. Numeric(LayerNorm(x, gamma, eps), shape)
  <2>1. data \in [0..rows * h - 1 -> Numbers]
    BY <1>8, <1>9
  <2> QED
    BY <1>3, <1>10, <2>1 DEF Numeric
<1> QED
  BY <1>2, <1>11

LEMMA ConcatIs ==
    ASSUME NEW p \in Seq(Nat), NEW q \in Seq(Nat)
    PROVE  /\ p \o q \in Seq(Nat) /\ Len(p \o q) = Len(p) + Len(q)
           /\ \A k \in 1..Len(p) + Len(q) : (p \o q)[k] = IF k <= Len(p) THEN p[k] ELSE q[k - Len(p)]
OBVIOUS

LEMMA ThirdAxis ==
    ASSUME NEW p \in Seq(Nat), NEW q \in Seq(Nat), Len(p) = 2, Len(q) = 1
    PROVE  /\ p \o q \in Seq(Nat) /\ Len(p \o q) = 3
           /\ (p \o q)[1] = p[1] /\ (p \o q)[2] = p[2] /\ (p \o q)[3] = q[1]
<1>1. PICK u : u = p \o q
  OBVIOUS
<1>2. PICK m, n : m = Len(p) /\ n = Len(q)
  OBVIOUS
<1>3. u \in Seq(Nat) /\ Len(u) = m + n /\ \A k \in 1..m + n : u[k] = IF k <= m THEN p[k] ELSE q[k - m]
  BY <1>1, <1>2, ConcatIs
<1>4. m = 2 /\ n = 1
  BY <1>2
<1>5. \A k \in 1..3 : u[k] = IF k <= 2 THEN p[k] ELSE q[k - 2]
  BY <1>3, <1>4
<1>6. u[3] = q[3 - 2]
  BY <1>5
<1>7. u[1] = p[1] /\ u[2] = p[2]
  BY <1>5
<1> QED
  BY <1>1, <1>3, <1>4, <1>6, <1>7

\* A row of the table for every id.
LEMMA GatherStays ==
    ASSUME NEW v \in Nat, NEW w \in Nat, NEW table, Numeric(table, <<v, w>>),
           NEW b \in Nat, NEW s \in Nat, NEW ids, ids.shape = <<b, s>>,
           \A i \in 0..b * s - 1 : ids.data[i] \in 0..v - 1
    PROVE  Numeric(GatherRows(table, ids), <<b, s, w>>)
<1>1. PICK rows \in Nat : rows = b * s
  OBVIOUS
<1>2. PICK shape : shape = <<b, s, w>>
  OBVIOUS
<1>0. shape \in Seq(Nat)
  BY <1>2
<1>3. Elements(ids) = rows /\ Product(shape) = rows * w /\ Product(<<v, w>>) = v * w
  <2>1. Product(<<b, s>>) = b * s /\ Product(<<b, s, w>>) = b * s * w /\ Product(<<v, w>>) = v * w
    BY ProductOf2, ProductOf3
  <2> QED
    BY <1>1, <1>2, <2>1 DEF Elements
<1>4. table.shape = <<v, w>> /\ table.data \in [0..v * w - 1 -> Numbers] /\ Dim(table, 1) = w
  <2>1. table.shape = <<v, w>> /\ table.data \in [0..v * w - 1 -> Numbers]
    BY <1>3 DEF Numeric
  <2>2. Dim(table, 1) = w
    BY <2>1 DEF Dim, Axis
  <2> QED
    BY <2>1, <2>2
<1>5. PICK data : data = [i \in 0..rows * w - 1 |-> table.data[ids.data[i \div w] * w + (i % w)]]
  OBVIOUS
<1>6. GatherRows(table, ids) = Tensor(shape, data)
  <2>1. ids.shape \o <<w>> = shape
    <3>1. PICK p, q, t : p = <<b, s>> /\ q = <<w>> /\ t = <<b, s, w>>
      OBVIOUS
    <3>2. p \in Seq(Nat) /\ q \in Seq(Nat) /\ Len(p) = 2 /\ Len(q) = 1 /\ p[1] = b /\ p[2] = s /\ q[1] = w
      BY <3>1
    <3>3. PICK u : u = p \o q
      OBVIOUS
    <3>4. u \in Seq(Nat) /\ Len(u) = 3 /\ u[1] = b /\ u[2] = s /\ u[3] = w
      BY <3>2, <3>3, ThirdAxis
    <3>5. u = t
      BY <3>1, <3>4
    <3> QED
      BY <1>2, <3>1, <3>3, <3>5
  <2> QED
    BY <1>3, <1>4, <1>5, <2>1, Zenon DEF GatherRows
<1>7. ASSUME NEW i \in 0..rows * w - 1 PROVE data[i] \in Numbers
  <2>1. PICK r \in 0..rows - 1, c \in 0..w - 1 : r = i \div w /\ c = i % w
    BY RowPlace
  <2>2. PICK id \in 0..v - 1 : id = ids.data[r]
    BY <1>1
  <2>3. id * w + c \in 0..v * w - 1
    BY PlaceOf2
  <2>4. data[i] = table.data[id * w + c]
    BY <1>5, <2>1, <2>2
  <2> QED
    BY <1>4, <2>3, <2>4
<1>8. GatherRows(table, ids).shape = shape /\ GatherRows(table, ids).data = data
  BY <1>0, <1>6, TensorIs
<1>9. Numeric(GatherRows(table, ids), shape)
  BY <1>3, <1>5, <1>7, <1>8 DEF Numeric
<1> QED
  BY <1>2, <1>9

\* A half of a head's vector is turned against the other: it stays in the vector.
LEMMA RopeStays ==
    ASSUME NEW a \in Nat \ {0}, NEW b \in Nat \ {0}, NEW c \in Nat \ {0}, NEW half \in Nat \ {0},
           NEW x, Numeric(x, <<a, b, c, 2 * half>>), NEW theta \in Nat, NEW axis \in {1, 2}
    PROVE  Numeric(Rope(x, theta, axis), <<a, b, c, 2 * half>>)
<1>1. PICK d \in Nat \ {0} : d = 2 * half
  OBVIOUS
<1>2. PICK shape : shape = <<a, b, c, d>>
  OBVIOUS
<1>0. shape \in Seq(Nat)
  BY <1>2
<1>3. PICK rows \in Nat : rows = a * b * c
  OBVIOUS
<1>4. Product(shape) = rows * d
  <2>1. Product(<<a, b, c, d>>) = a * b * c * d
    BY ProductOf4
  <2> QED
    BY <1>2, <1>3, <2>1
<1>5. x.shape = shape /\ x.data \in [0..rows * d - 1 -> Numbers] /\ DOMAIN x.data = 0..rows * d - 1
  BY <1>1, <1>2, <1>4 DEF Numeric
<1>6. Dim(x, -1) = d /\ d \div 2 = half
  <2>1. Dim(x, -1) = d
    BY <1>2, <1>5 DEF Dim, Axis
  <2>2. (2 * half) \div 2 = half
    OBVIOUS
  <2> QED
    BY <1>1, <2>1, <2>2
<1>7. PICK u \in Nat \ {0}, size \in Nat \ {0} : u = Strides(shape)[Axis(x, axis)] /\ size = Dim(x, axis)
  <2>1. Axis(x, axis) \in {2, 3} /\ Dim(x, axis) \in {b, c}
    BY <1>2, <1>5 DEF Dim, Axis
  <2>2. Strides(shape)[2] = c * d /\ Strides(shape)[3] = d
    BY <1>2, StridesOf4
  <2>3. c * d \in Nat \ {0}
    OBVIOUS
  <2> QED
    BY <2>1, <2>2, <2>3
<1> DEFINE pos(i) == (i \div u) % size
           angle(i) == (i % d) % half
           cos(i) == CosOf(theta, angle(i), pos(i))
           sin(i) == SinOf(theta, angle(i), pos(i))
           turned(i) == IF i % d < half THEN Plus(Times(x.data[i], cos(i)), Neg(Times(x.data[i + half], sin(i))))
                                        ELSE Plus(Times(x.data[i], cos(i)), Times(x.data[i - half], sin(i)))
<1>8. Rope(x, theta, axis) = Tensor(shape, [i \in 0..rows * d - 1 |-> turned(i)])
  <2> DEFINE given(i) == LET own == Strides(x.shape)
                             e == Dim(x, -1)
                             f == e \div 2
                             at(j) == (j \div own[Axis(x, axis)]) % Dim(x, axis)
                             turn(j) == (j % e) % f
                             co(j) == CosOf(theta, turn(j), at(j))
                             si(j) == SinOf(theta, turn(j), at(j))
                         IN IF i % e < f THEN Plus(Times(x.data[i], co(i)), Neg(Times(x.data[i + f], si(i))))
                                         ELSE Plus(Times(x.data[i], co(i)), Times(x.data[i - f], si(i)))
  <2>1. Rope(x, theta, axis) = Tensor(x.shape, [i \in DOMAIN x.data |-> given(i)])
    BY Zenon DEF Rope
  <2>2. ASSUME NEW i PROVE given(i) = turned(i)
    BY <1>5, <1>6, <1>7, Zenon
  <2> HIDE DEF given, turned
  <2> QED
    BY <1>5, <2>1, <2>2
<1>9. ASSUME NEW i \in 0..rows * d - 1 PROVE turned(i) \in Numbers
  <2>1. PICK q \in 0..rows - 1, r \in 0..d - 1 : q = i \div d /\ r = i % d
    BY RowPlace
  <2>2. i = q * d + r /\ i \in Nat
    <3>0. i \in Nat
      OBVIOUS
    <3>1. PICK k \in Nat, e \in 0..d - 1 : e = i % d /\ i = d * k + e
      BY <3>0, Remainder
    <3>2. i \div d = k
      BY <3>1, DivisionIs
    <3>3. k * d = d * k
      OBVIOUS
    <3>4. q = k /\ r = e
      BY <2>1, <3>1, <3>2
    <3>5. q * d = d * k
      BY <3>3, <3>4
    <3>6. PICK v : v = d * k
      OBVIOUS
    <3>7. i = v + r
      BY <3>1, <3>4, <3>6
    <3> QED
      BY <3>0, <3>5, <3>6, <3>7
  <2>3. x.data[i] \in Numbers
    BY <1>5
  <2>4. cos(i) \in Numbers /\ sin(i) \in Numbers
    <3>1. pos(i) \in Nat
      <4>1. PICK k \in Nat : k = i \div u
        BY <2>2, Quotient
      <4>2. k % size \in Nat
        OBVIOUS
      <4> QED
        BY <4>1, <4>2
    <3>2. angle(i) \in Nat
      <4>1. r % half \in Nat
        OBVIOUS
      <4> QED
        BY <2>1, <4>1
    <3> HIDE DEF pos, angle
    <3> QED
      BY <3>1, <3>2, AnglesAreNumbers
  <2> HIDE DEF cos, sin
  <2>5. CASE r < half
    <3>1. q * d + (r + half) \in 0..rows * d - 1
      <4>1. r + half \in 0..d - 1
        BY <1>1, <2>5
      <4> QED
        BY <4>1, PlaceOf2
    <3>2. PICK v : v = q * d
      OBVIOUS
    <3>3. v \in Nat /\ i = v + r /\ v + (r + half) \in 0..rows * d - 1
      BY <2>2, <3>1, <3>2
    <3>4. i + half \in 0..rows * d - 1
      BY <3>3
    <3>5. x.data[i + half] \in Numbers
      BY <1>5, <3>4
    <3>6. Plus(Times(x.data[i], cos(i)), Neg(Times(x.data[i + half], sin(i)))) \in Numbers
      BY <2>3, <2>4, <3>5, TimesStays, NegStays, PlusStays
    <3> QED
      BY <2>1, <2>5, <3>6
  <2>6. CASE ~(r < half)
    <3>1. q * d + (r - half) \in 0..rows * d - 1
      <4>1. r - half \in 0..d - 1
        BY <2>6
      <4> QED
        BY <4>1, PlaceOf2
    <3>2. PICK v : v = q * d
      OBVIOUS
    <3>3. v \in Nat /\ i = v + r /\ v + (r - half) \in 0..rows * d - 1
      BY <2>2, <3>1, <3>2
    <3>4. i - half \in 0..rows * d - 1
      BY <3>3
    <3>5. x.data[i - half] \in Numbers
      BY <1>5, <3>4
    <3>6. Plus(Times(x.data[i], cos(i)), Times(x.data[i - half], sin(i))) \in Numbers
      BY <2>3, <2>4, <3>5, TimesStays, PlusStays
    <3> QED
      BY <2>1, <2>6, <3>6
  <2> QED
    BY <2>5, <2>6
<1> HIDE DEF turned
<1>10. PICK data : data = [i \in 0..rows * d - 1 |-> turned(i)]
  OBVIOUS
<1>11. Rope(x, theta, axis).shape = shape /\ Rope(x, theta, axis).data = data
  BY <1>0, <1>8, <1>10, TensorIs
<1>12. Numeric(Rope(x, theta, axis), shape)
  BY <1>4, <1>9, <1>10, <1>11 DEF Numeric
<1> QED
  BY <1>1, <1>2, <1>12

-----------------------------------------------------------------------------
(* The bf16 product: nothing is read or written past its buffers.          *)

LEMMA TilesArePositive == MR \in Nat \ {0} /\ NB \in Nat \ {0} /\ NLANE \in Nat \ {0}
BY TileAssumption

LEMMA HalvesAre == ASSUME NEW a \in Nat PROVE a \div 2 \in Nat /\ a % 2 \in 0..1 /\ 2 * (a \div 2) + (a % 2) = a
OBVIOUS

LEMMA PaddedIs ==
    ASSUME NEW a \in Nat, NEW b \in Nat \ {0}
    PROVE  \E t \in Nat : PaddedTo(a, b) = b * t /\ a <= b * t
<1>1. PICK s \in Nat : s = a + b - 1
  OBVIOUS
<1>2. PICK t \in Nat, r \in 0..b - 1 : r = s % b /\ s = b * t + r
  BY Remainder
<1>3. s \div b = t
  BY <1>2, DivisionIs
<1>4. PaddedTo(a, b) = t * b
  BY <1>1, <1>3 DEF PaddedTo, DivCeil
<1>5. PICK v \in Nat : v = b * t
  OBVIOUS
<1>6. a <= v
  BY <1>1, <1>2, <1>5
<1>7. t * b = b * t
  OBVIOUS
<1> QED
  BY <1>4, <1>5, <1>6, <1>7

\* However it is split into registers, each element is rounded where it is.
LEMMA PackRowIs ==
    ASSUME NEW cols \in Nat, NEW s, NEW j \in 0..cols - 1
    PROVE  PackRow(s, cols)[j] = Bf16(s[j])
<1> DEFINE body == cols - (cols % Pairs)
           a(c) == [i \in 0..NLANE - 1 |-> s[c + i]]
           b(c) == [i \in 0..NLANE - 1 |-> s[c + NLANE + i]]
           cvtne2ps(hi, lo, i) == IF i < NLANE THEN Bf16(lo[i]) ELSE Bf16(hi[i - NLANE])
           start(i) == i - (i % Pairs)
           packed(i) == IF i < body THEN cvtne2ps(b(start(i)), a(start(i)), i % Pairs) ELSE Bf16(s[i])
<1>1. PackRow(s, cols)[j] = packed(j)
  <2>1. PICK data : data = [i \in 0..cols - 1 |-> packed(i)]
    OBVIOUS
  <2>2. PackRow(s, cols) = Known([i \in 0..cols - 1 |-> packed(i)])
    BY Zenon DEF PackRow
  <2> HIDE DEF packed
  <2>3. PackRow(s, cols) = data
    BY <2>1, <2>2, KnownIs
  <2> QED
    BY <2>1, <2>3
<1>2. PICK r \in 0..Pairs - 1, c \in Nat : r = j % Pairs /\ c = start(j) /\ j = c + r
  <2>1. Pairs \in Nat \ {0}
    BY TilesArePositive DEF Pairs
  <2>2. j \in Nat
    OBVIOUS
  <2>3. PICK k \in Nat, e \in 0..Pairs - 1 : e = j % Pairs /\ j = Pairs * k + e
    BY <2>1, <2>2, Remainder
  <2>4. PICK v \in Nat : v = Pairs * k
    BY <2>1
  <2>5. j - e = v /\ j = v + e
    BY <2>3, <2>4
  <2> QED
    BY <2>3, <2>5
<1>3. cvtne2ps(b(c), a(c), r) = Bf16(s[j])
  <2>0. r \in Nat /\ r < NLANE + NLANE /\ NLANE \in Nat
    BY TilesArePositive DEF Pairs
  <2>1. CASE r < NLANE
    <3>1. r \in 0..NLANE - 1
      BY <2>0, <2>1
    <3>2. a(c)[r] = s[c + r]
      BY <3>1
    <3> QED
      BY <1>2, <2>1, <3>2
  <2>2. CASE ~(r < NLANE)
    <3>1. r - NLANE \in 0..NLANE - 1
      BY <2>0, <2>2
    <3>2. b(c)[r - NLANE] = s[c + NLANE + (r - NLANE)]
      BY <3>1
    <3>3. c + NLANE + (r - NLANE) = j
      BY <1>2, <2>0
    <3> QED
      BY <2>2, <3>2, <3>3
  <2> QED
    BY <2>1, <2>2
<1> HIDE DEF cvtne2ps, a, b
<1> QED
  BY <1>1, <1>2, <1>3

LEMMA PackXStays ==
    ASSUME NEW rows \in Nat, NEW cols \in Nat, NEW src, \A i \in 0..rows * cols - 1 : src[i] \in Numbers,
           NEW mpad \in Nat, mpad = PaddedTo(rows, MR), NEW kpad \in Nat, kpad = PaddedTo(cols, Pairs)
    PROVE  \A i \in 0..mpad * kpad - 1 : PackX(src, rows, cols)[i] \in Numbers
<1> DEFINE taken(r) == [c \in 0..cols - 1 |-> src[r * cols + c]]
           packed == [r \in 0..rows - 1 |-> PackRow(taken(r), cols)]
           at(r, c) == IF r < rows /\ c < cols THEN packed[r][c] ELSE 0
<1>1. PackX(src, rows, cols) = [i \in 0..mpad * kpad - 1 |-> at(i \div kpad, i % kpad)]
  <2> DEFINE known == Known(packed)
             from(r, c) == IF r < rows /\ c < cols THEN known[r][c] ELSE 0
  <2>1. PackX(src, rows, cols) = Known([i \in 0..mpad * kpad - 1 |-> from(i \div kpad, i % kpad)])
    BY Zenon DEF PackX
  <2>2. known = packed
    BY KnownIs
  <2> HIDE DEF known, packed
  <2>3. PackX(src, rows, cols) = [i \in 0..mpad * kpad - 1 |-> from(i \div kpad, i % kpad)]
    <3> HIDE DEF from
    <3> QED
      BY <2>1, KnownIs
  <2> QED
    BY <2>2, <2>3
<1>2. ASSUME NEW r \in 0..rows - 1, NEW c \in 0..cols - 1 PROVE packed[r][c] \in Numbers
  <2>1. PackRow(taken(r), cols)[c] = Bf16(taken(r)[c])
    <3> HIDE DEF taken
    <3> QED
      BY PackRowIs
  <2>2. r * cols + c \in 0..rows * cols - 1
    BY PlaceOf2
  <2>3. taken(r)[c] \in Numbers
    BY <2>2
  <2> HIDE DEF taken
  <2> QED
    BY <2>1, <2>3, FunctionsStay
<1> HIDE DEF packed
<1>3. ASSUME NEW i \in 0..mpad * kpad - 1 PROVE at(i \div kpad, i % kpad) \in Numbers
  <2>1. PICK r \in Nat, c \in Nat : r = i \div kpad /\ c = i % kpad
    <3>1. i \div kpad \in 0..mpad - 1 /\ i % kpad \in 0..kpad - 1
      BY RowPlace
    <3> QED
      BY <3>1
  <2>2. 0 \in Numbers
    BY NumbersAre
  <2>3. at(r, c) \in Numbers
    BY <1>2, <2>2
  <2> HIDE DEF at
  <2> QED
    BY <2>1, <2>3
<1> HIDE DEF at
<1> QED
  BY <1>1, <1>3

LEMMA PackWVnniStays ==
    ASSUME NEW n \in Nat, NEW k \in Nat, NEW w, \A i \in 0..n * k - 1 : w[i] \in Numbers,
           NEW npad \in Nat, npad = PaddedTo(n, NTILE), NEW kpad \in Nat, kpad = PaddedTo(k, Pairs)
    PROVE  \A i \in 0..npad * kpad - 1 : PackWVnni(w, n, k)[i] \in Numbers
<1> DEFINE kpairs == kpad \div 2
           block(i) == i \div (kpairs * Pairs)
           kp(i) == (i % (kpairs * Pairs)) \div Pairs
           nrow(i) == block(i) * NLANE + ((i % Pairs) \div 2)
           kidx(i) == 2 * kp(i) + (i % 2)
           stored(i) == IF nrow(i) < n /\ kidx(i) < k THEN Bf16(w[nrow(i) * k + kidx(i)]) ELSE 0
<1>1. PackWVnni(w, n, k) = [i \in 0..npad * kpad - 1 |-> stored(i)]
  <2>1. PackWVnni(w, n, k) = Known([i \in 0..npad * kpad - 1 |-> stored(i)])
    BY Zenon DEF PackWVnni
  <2> HIDE DEF stored
  <2> QED
    BY <2>1, KnownIs
<1>2. ASSUME NEW i \in 0..npad * kpad - 1 PROVE stored(i) \in Numbers
  <2>0. i \in Nat /\ Pairs \in Nat \ {0} /\ NLANE \in Nat \ {0} /\ Pairs = 2 * NLANE
    BY TilesArePositive DEF Pairs
  <2>1. kpad > 0
    BY RowPlace
  <2>2. PICK t \in Nat \ {0} : kpad = Pairs * t
    <3>1. PICK t \in Nat : kpad = Pairs * t
      BY <2>0, PaddedIs, ZenonT(60)
    <3>2. t # 0
      BY <2>0, <2>1, <3>1
    <3> QED
      BY <3>1, <3>2
  <2>3. PICK size \in Nat \ {0} : size = kpairs * Pairs
    <3>1. kpad = 2 * (NLANE * t)
      BY <2>0, <2>2
    <3>2. PICK v \in Nat \ {0} : v = NLANE * t
      BY <2>0
    <3>3. kpairs = v
      BY <3>1, <3>2
    <3>4. v * Pairs \in Nat \ {0}
      BY <2>0
    <3> QED
      BY <3>3, <3>4
  <2>4. nrow(i) \in Nat
    <3>1. PICK d \in Nat : d = i \div size
      BY <2>0, Quotient
    <3>2. PICK r \in Nat : r = i % Pairs
      BY <2>0
    <3>3. r \div 2 \in Nat
      BY HalvesAre
    <3>4. d * NLANE + (r \div 2) \in Nat
      <4>1. d * NLANE \in Nat
        BY <2>0
      <4> QED
        BY <3>3, <4>1
    <3> QED
      BY <2>3, <3>1, <3>2, <3>4
  <2>5. kidx(i) \in Nat
    <3>1. PICK e \in Nat : e = i % size
      BY <2>0
    <3>2. PICK d \in Nat : d = e \div Pairs
      BY <2>0, Quotient
    <3>3. i % 2 \in Nat
      BY <2>0
    <3>4. 2 * d + (i % 2) \in Nat
      BY <3>3
    <3> QED
      BY <2>3, <3>1, <3>2, <3>4
  <2>6. PICK a \in Nat, b \in Nat : a = nrow(i) /\ b = kidx(i)
    <3> HIDE DEF nrow, kidx
    <3> QED
      BY <2>4, <2>5
  <2>7. CASE a < n /\ b < k
    <3>1. a * k + b \in 0..n * k - 1
      <4>1. a \in 0..n - 1 /\ b \in 0..k - 1
        BY <2>7
      <4> QED
        BY <4>1, PlaceOf2
    <3>2. stored(i) = Bf16(w[a * k + b])
      <4> HIDE DEF nrow, kidx
      <4> QED
        BY <2>6, <2>7
    <3> HIDE DEF stored
    <3> QED
      BY <3>1, <3>2, FunctionsStay
  <2>8. CASE ~(a < n /\ b < k)
    <3>1. stored(i) = 0
      <4> HIDE DEF nrow, kidx
      <4> QED
        BY <2>6, <2>8
    <3> HIDE DEF stored
    <3> QED
      BY <3>1, NumbersAre
  <2> QED
    BY <2>7, <2>8
<1> HIDE DEF stored
<1> QED
  BY <1>1, <1>2

LEMMA MultipleIs ==
    ASSUME NEW k \in Nat, NEW w \in Nat \ {0}, NEW a, a = w * k
    PROVE  a \in Nat /\ a \div w = k
<1>1. a = w * k + 0 /\ 0 \in 0..w - 1
  OBVIOUS
<1> QED
  BY <1>1, DivisionIs

LEMMA FactorIs ==
    ASSUME NEW a \in Nat, NEW w \in Nat \ {0}, a % w = 0
    PROVE  \E k \in Nat : a = w * k
<1>1. PICK k \in Nat, r \in 0..w - 1 : r = a % w /\ a = w * k + r
  BY Remainder
<1>2. PICK v \in Nat : v = w * k
  OBVIOUS
<1>3. a = v
  BY <1>1, <1>2
<1> QED
  BY <1>2, <1>3

\* The vectors of a tile are of one panel: panels, and the matrix, are of whole tiles.
LEMMA TileIsInside ==
    ASSUME NEW npad \in Nat, NEW whole \in Nat, npad = NTILE * whole, NEW total \in Nat, total = npad \div NLANE,
           NEW mpad \in Nat, NEW t \in Tiles(mpad, npad)
    PROVE  /\ total = NB * whole
           /\ t.nb0 \in Nat /\ t.g \in Nat /\ t.nb0 + t.g + NB <= total
           /\ t.mt \in 0..(mpad \div MR) - 1
<1>1. NB \in Nat \ {0} /\ NLANE \in Nat \ {0} /\ NcBlocks \in Nat \ {0} /\ NcBlocks % NB = 0
  BY TilesArePositive, PanelAssumption
<1>2. total = NB * whole
  <2>1. PICK v \in Nat : v = NB * whole
    BY <1>1
  <2>2. npad = NLANE * v
    <3>1. npad = (NLANE * NB) * whole
      BY DEF NTILE
    <3>2. (NLANE * NB) * whole = NLANE * (NB * whole)
      BY <1>1
    <3> QED
      BY <2>1, <3>1, <3>2
  <2>3. npad \div NLANE = v
    BY <1>1, <2>2, MultipleIs, Zenon
  <2> QED
    BY <2>1, <2>3
<1>3. /\ t.nb0 \in 0..total - 1 /\ t.mt \in 0..(mpad \div MR) - 1 /\ t.g \in 0..total - 1
      /\ t.nb0 % NcBlocks = 0 /\ t.g % NB = 0
      /\ t.g < IF NcBlocks < total - t.nb0 THEN NcBlocks ELSE total - t.nb0
  BY DEF Tiles
<1>4. PICK x \in Nat, y \in Nat : x = t.nb0 /\ y = t.g /\ x + y < total
  <2>1. t.nb0 \in Nat /\ t.g \in Nat /\ t.g < total - t.nb0
    BY <1>1, <1>3
  <2> QED
    BY <2>1
<1>5. PICK z \in Nat : NcBlocks = NB * z
  <2>1. PICK z \in Nat, r \in 0..NB - 1 : r = NcBlocks % NB /\ NcBlocks = NB * z + r
    BY <1>1, Remainder
  <2>2. NB * z \in Nat
    BY <1>1
  <2> QED
    BY <1>1, <2>1, <2>2
<1>6. PICK p \in Nat : x = NcBlocks * p
  <2>1. x % NcBlocks = 0
    BY <1>3, <1>4
  <2> QED
    BY <1>1, <2>1, FactorIs, Zenon
<1>7. PICK q \in Nat : y = NB * q
  <2>1. y % NB = 0
    BY <1>3, <1>4
  <2> QED
    BY <1>1, <2>1, FactorIs, Zenon
<1>8. PICK u \in Nat : u = z * p + q
  OBVIOUS
<1>9. x + y = NB * u
  <2>1. x = (NB * z) * p
    BY <1>5, <1>6
  <2>2. (NB * z) * p + NB * q = NB * (z * p + q)
    BY <1>1
  <2> QED
    BY <1>7, <1>8, <2>1, <2>2
<1>10. u < whole
  <2> SUFFICES ASSUME whole <= u PROVE FALSE
    OBVIOUS
  <2>1. NB * whole <= NB * u
    BY <1>1, ProductGrows
  <2> QED
    BY <1>2, <1>4, <1>9, <2>1
<1>11. NB * u + NB <= NB * whole
  BY <1>1, <1>10, NextMultiple
<1>12. x + y + NB <= total
  BY <1>2, <1>9, <1>11
<1> QED
  BY <1>2, <1>3, <1>4, <1>12

\* What a tile reads of the packed rows, and of the packed weight.
LEMMA RowReadInside ==
    ASSUME NEW kpad \in Nat, NEW mrow \in Nat, NEW mpad \in Nat, mpad = MR * mrow, NEW mt \in 0..(mpad \div MR) - 1,
           NEW ti \in 0..MR - 1, NEW p \in 1..kpad
    PROVE  mt * MR * kpad + ti * kpad + 2 * ((p - 1) \div 2) + ((p - 1) % 2) \in 0..mpad * kpad - 1
<1>1. MR \in Nat \ {0}
  BY TilesArePositive
<1>2. mpad \div MR = mrow
  <2>1. mpad = MR * mrow + 0 /\ 0 \in 0..MR - 1
    BY <1>1
  <2> QED
    BY <1>1, <2>1, DivisionIs
<1>3. mt * MR + ti \in 0..mrow * MR - 1
  BY <1>1, <1>2, PlaceOf2
<1>4. PICK r : r = mt * MR + ti
  OBVIOUS
<1>5. r \in 0..mpad - 1
  <2>1. mrow * MR = mpad
    BY <1>1
  <2> QED
    BY <1>3, <1>4, <2>1
<1>6. PICK j \in 0..kpad - 1 : j = p - 1
  OBVIOUS
<1>7. 2 * (j \div 2) + (j % 2) = j
  BY HalvesAre
<1>8. r * kpad + j \in 0..mpad * kpad - 1
  BY <1>5, PlaceOf2
<1>9. r * kpad = mt * MR * kpad + ti * kpad
  BY <1>1, <1>4
<1>10. mt * MR * kpad + ti * kpad \in Nat
  <2>1. mt * MR * kpad \in Nat /\ ti * kpad \in Nat
    BY <1>1
  <2> QED
    BY <2>1
<1>11. PICK a \in Nat, b \in Nat, c \in Nat : a = mt * MR * kpad + ti * kpad /\ b = j \div 2 /\ c = j % 2
  BY <1>10, HalvesAre
<1>12. a + 2 * b + c = a + j
  BY <1>7, <1>11
<1> QED
  BY <1>6, <1>8, <1>9, <1>11, <1>12

LEMMA WeightReadInside ==
    ASSUME NEW npad \in Nat, NEW total \in Nat, npad = NLANE * total, NEW kpad \in Nat, NEW half \in Nat, kpad = Pairs * half,
           NEW from \in Nat, NEW nv \in 0..NB - 1, from + NB <= total, NEW p \in 1..kpad, NEW lane \in 0..NLANE - 1
    PROVE  from * ((kpad \div 2) * Pairs) + nv * (kpad \div 2) * Pairs + ((p - 1) \div 2) * Pairs + lane * 2 + ((p - 1) % 2)
               \in 0..npad * kpad - 1
<1>1. NLANE \in Nat \ {0} /\ Pairs \in Nat \ {0} /\ Pairs = 2 * NLANE
  BY TilesArePositive DEF Pairs
<1>2. PICK kpairs \in Nat : kpairs = NLANE * half
  BY <1>1
<1>3. kpad = 2 * kpairs
  BY <1>1, <1>2
<1>4. kpad \div 2 = kpairs
  BY <1>3
<1>5. PICK j \in 0..kpad - 1 : j = p - 1
  OBVIOUS
<1>6. PICK kp \in 0..kpairs - 1, kk \in 0..1 : kp = j \div 2 /\ kk = j % 2
  <2>1. j \div 2 \in Nat /\ j % 2 \in 0..1 /\ 2 * (j \div 2) + (j % 2) = j
    BY HalvesAre
  <2> QED
    BY <1>3, <2>1
<1>7. lane * 2 + kk \in 0..Pairs - 1
  BY <1>1
<1>8. PICK b, e : b = from + nv /\ e = lane * 2 + kk
  OBVIOUS
<1>9. b \in 0..total - 1 /\ e \in 0..Pairs - 1
  <2>1. nv \in Nat /\ nv < NB /\ NB \in Nat
    BY TilesArePositive
  <2> QED
    BY <1>7, <1>8, <2>1
<1>10. b * (kpairs * Pairs) + kp * Pairs + e \in 0..total * kpairs * Pairs - 1
  BY <1>1, <1>9, PlaceOf3
<1>11. total * kpairs * Pairs = npad * kpad
  <2>1. npad * kpad = (NLANE * total) * (2 * kpairs)
    BY <1>3
  <2>2. total * kpairs * Pairs = total * kpairs * (2 * NLANE)
    BY <1>1
  <2>3. (NLANE * total) * (2 * kpairs) = total * kpairs * (2 * NLANE)
    BY <1>1
  <2> QED
    BY <2>1, <2>2, <2>3
<1>12. b * (kpairs * Pairs) = from * (kpairs * Pairs) + nv * kpairs * Pairs
  <2>1. PICK v \in Nat : v = kpairs * Pairs
    BY <1>1
  <2>2. nv * kpairs * Pairs = nv * v
    BY <1>1, <2>1
  <2>3. (from + nv) * v = from * v + nv * v
    OBVIOUS
  <2> QED
    BY <1>8, <2>1, <2>2, <2>3
<1>13. PICK x, y, z : x = from * (kpairs * Pairs) /\ y = nv * kpairs * Pairs /\ z = kp * Pairs
  OBVIOUS
<1>14. x \in Nat /\ y \in Nat /\ z \in Nat
  BY <1>1, <1>13
<1>15. x + y + z + lane * 2 + kk = x + y + z + e
  BY <1>8, <1>14
<1>16. x + y + z + e \in 0..npad * kpad - 1
  BY <1>10, <1>11, <1>12, <1>13
<1>17. x + y + z + lane * 2 + kk \in 0..npad * kpad - 1
  BY <1>15, <1>16
<1> QED
  BY <1>4, <1>5, <1>6, <1>13, <1>17

LEMMA MicroStays ==
    ASSUME NEW kpad \in Nat, NEW x, NEW x0, NEW w, NEW w0,
           NEW ti \in 0..MR - 1, NEW nv \in 0..NB - 1, NEW lane \in 0..NLANE - 1,
           \A p \in 1..kpad :
              /\ x[x0 + ti * kpad + 2 * ((p - 1) \div 2) + ((p - 1) % 2)] \in Numbers
              /\ w[w0 + nv * (kpad \div 2) * Pairs + ((p - 1) \div 2) * Pairs + lane * 2 + ((p - 1) % 2)] \in Numbers
    PROVE  Micro(x, x0, w, w0, kpad)[<<ti, nv, lane>>] \in Numbers
<1> DEFINE kpairs == kpad \div 2
           a(i, kp, kk) == x[x0 + i * kpad + 2 * kp + kk]
           b(v, kp, l, kk) == w[w0 + v * kpairs * Pairs + kp * Pairs + l * 2 + kk]
           terms(i, v, l) == [p \in 1..kpad |-> Times(a(i, (p - 1) \div 2, (p - 1) % 2),
                                                      b(v, (p - 1) \div 2, l, (p - 1) % 2))]
           acc(i, v, l) == SumOf(terms(i, v, l), kpad)
           lanes == (0..MR - 1) \X (0..NB - 1) \X (0..NLANE - 1)
<1>1. Micro(x, x0, w, w0, kpad) = [t \in lanes |-> acc(t[1], t[2], t[3])]
  <2>1. Micro(x, x0, w, w0, kpad) = Known([t \in lanes |-> acc(t[1], t[2], t[3])])
    BY Zenon DEF Micro
  <2> HIDE DEF acc
  <2> QED
    BY <2>1, KnownIs
<1>2. Micro(x, x0, w, w0, kpad)[<<ti, nv, lane>>] = acc(ti, nv, lane)
  <2> HIDE DEF acc
  <2> QED
    BY <1>1
<1>3. \A p \in 1..kpad : terms(ti, nv, lane)[p] \in Numbers
  <2> SUFFICES ASSUME NEW p \in 1..kpad
               PROVE  Times(a(ti, (p - 1) \div 2, (p - 1) % 2), b(nv, (p - 1) \div 2, lane, (p - 1) % 2)) \in Numbers
    OBVIOUS
  <2>1. a(ti, (p - 1) \div 2, (p - 1) % 2) \in Numbers /\ b(nv, (p - 1) \div 2, lane, (p - 1) % 2) \in Numbers
    BY Zenon
  <2> HIDE DEF a, b
  <2> QED
    BY <2>1, TimesStays
<1> HIDE DEF terms
<1>4. acc(ti, nv, lane) \in Numbers
  BY <1>3, SumStays
<1> QED
  BY <1>2, <1>4

\* Each element of y is a zero or what a lane of a tile stored there.
LEMMA GemmStays ==
    ASSUME NEW mrow \in Nat, NEW mpad \in Nat, mpad = MR * mrow,
           NEW whole \in Nat, NEW npad \in Nat, npad = NTILE * whole,
           NEW half \in Nat, NEW kpad \in Nat, kpad = Pairs * half,
           NEW x, \A i \in 0..mpad * kpad - 1 : x[i] \in Numbers,
           NEW w, \A i \in 0..npad * kpad - 1 : w[i] \in Numbers
    PROVE  \A i \in 0..mpad * npad - 1 : GemmSt(x, w, mpad, npad, kpad)[i] \in Numbers
<1> DEFINE tiles == Tiles(mpad, npad)
           lanes == (0..MR - 1) \X (0..NB - 1) \X (0..NLANE - 1)
           made(t) == Micro(x, TileX(t, kpad), w, TileW(t, kpad), kpad)
           out == [t \in tiles |-> made(t)]
           by(i) == {s \in tiles \X lanes : Stored(s[1], npad, s[2][1], s[2][2], s[2][3]) = i}
           stored(i) == IF by(i) = {} THEN 0 ELSE LET s == CHOOSE s \in by(i) : TRUE IN out[s[1]][s[2]]
<1>1. GemmSt(x, w, mpad, npad, kpad) = [i \in 0..mpad * npad - 1 |-> stored(i)]
  <2> DEFINE known == Known(out)
             from(i) == IF by(i) = {} THEN 0 ELSE LET s == CHOOSE s \in by(i) : TRUE IN known[s[1]][s[2]]
  <2>1. GemmSt(x, w, mpad, npad, kpad) = Known([i \in 0..mpad * npad - 1 |-> from(i)])
    BY Zenon DEF GemmSt
  <2>2. known = out
    BY KnownIs
  <2> HIDE DEF known, out, by
  <2>3. \A i : from(i) = stored(i)
    BY <2>2
  <2> HIDE DEF from, stored
  <2> QED
    BY <2>1, <2>3, KnownIs
<1>2. ASSUME NEW t \in tiles, NEW ti \in 0..MR - 1, NEW nv \in 0..NB - 1, NEW lane \in 0..NLANE - 1
      PROVE  made(t)[<<ti, nv, lane>>] \in Numbers
  <2>1. PICK total \in Nat : total = NB * whole /\ npad = NLANE * total
    <3>1. NB * whole \in Nat /\ npad = NLANE * (NB * whole)
      <4>1. (NLANE * NB) * whole = NLANE * (NB * whole) /\ NB * whole \in Nat
        BY TilesArePositive
      <4> QED
        BY <4>1 DEF NTILE
    <3> QED
      BY <3>1
  <2>2. total = npad \div NLANE
    BY <2>1, TilesArePositive, MultipleIs, Zenon
  <2>3. PICK nb0 \in Nat, g \in Nat, mt \in 0..(mpad \div MR) - 1 :
           nb0 = t.nb0 /\ g = t.g /\ mt = t.mt /\ nb0 + g + NB <= total
    <3>1. t.nb0 \in Nat /\ t.g \in Nat /\ t.nb0 + t.g + NB <= total /\ t.mt \in 0..(mpad \div MR) - 1
      BY <2>2, TileIsInside, ZenonT(60)
    <3> HIDE DEF tiles
    <3> QED
      BY <3>1, Zenon
  <2>4. PICK from \in Nat : from = nb0 + g
    OBVIOUS
  <2>5. TileX(t, kpad) = mt * MR * kpad /\ TileW(t, kpad) = from * ((kpad \div 2) * Pairs)
    BY <2>3, <2>4 DEF TileX, TileW
  <2> HIDE DEF tiles
  <2>6. from + NB <= total
    BY <2>3, <2>4
  <2>7. ASSUME NEW p \in 1..kpad
        PROVE  /\ x[mt * MR * kpad + ti * kpad + 2 * ((p - 1) \div 2) + ((p - 1) % 2)] \in Numbers
               /\ w[from * ((kpad \div 2) * Pairs) + nv * (kpad \div 2) * Pairs + ((p - 1) \div 2) * Pairs + lane * 2 + ((p - 1) % 2)] \in Numbers
    <3>1. mt * MR * kpad + ti * kpad + 2 * ((p - 1) \div 2) + ((p - 1) % 2) \in 0..mpad * kpad - 1
      BY RowReadInside, Zenon
    <3>2. from * ((kpad \div 2) * Pairs) + nv * (kpad \div 2) * Pairs + ((p - 1) \div 2) * Pairs + lane * 2 + ((p - 1) % 2)
              \in 0..npad * kpad - 1
      BY <2>1, <2>6, WeightReadInside, Zenon
    <3> QED
      BY <3>1, <3>2, Zenon
  <2>8. Micro(x, mt * MR * kpad, w, from * ((kpad \div 2) * Pairs), kpad)[<<ti, nv, lane>>] \in Numbers
    BY <2>7, MicroStays, ZenonT(60)
  <2> QED
    BY <2>5, <2>8
<1>3. ASSUME NEW i \in 0..mpad * npad - 1 PROVE stored(i) \in Numbers
  <2>1. CASE by(i) = {}
    BY <2>1, NumbersAre
  <2>2. CASE by(i) # {}
    <3>1. PICK p : p = CHOOSE s \in by(i) : TRUE
      OBVIOUS
    <3>2. p \in by(i)
      <4> HIDE DEF by
      <4> QED
        BY <2>2, <3>1
    <3>3. p[1] \in tiles /\ p[2] \in lanes
      BY <3>2
    <3>4. PICK t \in tiles, ti \in 0..MR - 1, nv \in 0..NB - 1, lane \in 0..NLANE - 1 : t = p[1] /\ p[2] = <<ti, nv, lane>>
      <4> HIDE DEF tiles
      <4> QED
        BY <3>3
    <3>5. stored(i) = out[p[1]][p[2]]
      <4> HIDE DEF by, out
      <4> QED
        BY <2>2, <3>1
    <3>6. out[t] = made(t)
      <4> HIDE DEF made, tiles
      <4> QED
        OBVIOUS
    <3>7. made(t)[<<ti, nv, lane>>] \in Numbers
      BY <1>2
    <3> HIDE DEF stored, out, made, tiles
    <3> QED
      BY <3>4, <3>5, <3>6, <3>7
  <2> QED
    BY <2>1, <2>2, ZenonT(60)
<1> HIDE DEF stored
<1> QED
  BY <1>1, <1>3

\* Bf16Linear::forward drops the padding it added.
LEMMA Bf16LinearStays ==
    ASSUME NEW m \in Nat, NEW n \in Nat, NEW k \in Nat,
           NEW x, \A i \in 0..m * k - 1 : x[i] \in Numbers,
           NEW w, \A i \in 0..n * k - 1 : w[i] \in Numbers
    PROVE  Bf16Linear(x, m, w, n, k) \in [0..m * n - 1 -> Numbers]
<1>1. MR \in Nat \ {0} /\ NTILE \in Nat \ {0} /\ Pairs \in Nat \ {0}
  BY TilesArePositive DEF NTILE, Pairs
<1>2. PICK mrow \in Nat : PaddedTo(m, MR) = MR * mrow /\ m <= MR * mrow
  BY <1>1, PaddedIs
<1>3. PICK whole \in Nat : PaddedTo(n, NTILE) = NTILE * whole /\ n <= NTILE * whole
  BY <1>1, PaddedIs
<1>4. PICK half \in Nat : PaddedTo(k, Pairs) = Pairs * half
  BY <1>1, PaddedIs
<1>5. PICK mpad \in Nat, npad \in Nat, kpad \in Nat : mpad = MR * mrow /\ npad = NTILE * whole /\ kpad = Pairs * half
  <2>1. MR * mrow \in Nat /\ NTILE * whole \in Nat /\ Pairs * half \in Nat
    BY <1>1
  <2> QED
    BY <2>1
<1>6. mpad = PaddedTo(m, MR) /\ npad = PaddedTo(n, NTILE) /\ kpad = PaddedTo(k, Pairs) /\ m <= mpad /\ n <= npad
  BY <1>2, <1>3, <1>4, <1>5
<1>7. PICK xb : xb = PackX(x, m, k)
  OBVIOUS
<1>8. PICK wv : wv = PackWVnni(w, n, k)
  OBVIOUS
<1>9. \A i \in 0..mpad * kpad - 1 : xb[i] \in Numbers
  BY <1>6, <1>7, PackXStays
<1>10. \A i \in 0..npad * kpad - 1 : wv[i] \in Numbers
  BY <1>6, <1>8, PackWVnniStays
<1>11. PICK y : y = GemmSt(xb, wv, mpad, npad, kpad)
  OBVIOUS
<1>12. \A i \in 0..mpad * npad - 1 : y[i] \in Numbers
  BY <1>5, <1>9, <1>10, <1>11, GemmStays
<1>13. PICK data : data = [i \in 0..m * n - 1 |-> y[(i \div n) * npad + (i % n)]]
  OBVIOUS
<1>14. Bf16Linear(x, m, w, n, k) = data
  <2>1. Bf16Linear(x, m, w, n, k) = Known([i \in 0..m * n - 1 |-> y[(i \div n) * npad + (i % n)]])
    BY <1>6, <1>7, <1>8, <1>11, Zenon DEF Bf16Linear
  <2> QED
    BY <1>13, <2>1, KnownIs
<1>15. ASSUME NEW i \in 0..m * n - 1 PROVE y[(i \div n) * npad + (i % n)] \in Numbers
  <2>1. PICK r \in 0..m - 1, c \in 0..n - 1 : r = i \div n /\ c = i % n
    BY RowPlace
  <2>2. r \in 0..mpad - 1 /\ c \in 0..npad - 1
    BY <1>6
  <2>3. r * npad + c \in 0..mpad * npad - 1
    BY <2>2, PlaceOf2
  <2> QED
    BY <1>12, <2>1, <2>3
<1> QED
  BY <1>13, <1>14, <1>15

LEMMA GegluStays ==
    ASSUME NEW rows \in Nat, NEW inter \in Nat, NEW wide, \A i \in 0..rows * (2 * inter) - 1 : wide[i] \in Numbers
    PROVE  Geglu(wide, rows, inter) \in [0..rows * inter - 1 -> Numbers]
<1> DEFINE base(i) == (i \div inter) * 2 * inter
           col(i) == i % inter
           gated(i) == Times(Gelu(wide[base(i) + col(i)]), wide[base(i) + inter + col(i)])
<1>1. Geglu(wide, rows, inter) = [i \in 0..rows * inter - 1 |-> gated(i)]
  <2>1. Geglu(wide, rows, inter) = Known([i \in 0..rows * inter - 1 |-> gated(i)])
    BY Zenon DEF Geglu
  <2> HIDE DEF gated
  <2> QED
    BY <2>1, KnownIs
<1>2. ASSUME NEW i \in 0..rows * inter - 1 PROVE gated(i) \in Numbers
  <2>1. PICK r \in 0..rows - 1, c \in 0..inter - 1 : r = i \div inter /\ c = i % inter
    BY RowPlace
  <2>2. PICK w \in Nat : w = 2 * inter
    OBVIOUS
  <2>3. base(i) = r * w
    <3>1. (r * 2) * inter = r * (2 * inter)
      OBVIOUS
    <3> QED
      BY <2>1, <2>2, <3>1
  <2>4. r * w + c \in 0..rows * w - 1 /\ r * w + (inter + c) \in 0..rows * w - 1
    <3>1. c \in 0..w - 1 /\ inter + c \in 0..w - 1
      BY <2>2
    <3> QED
      BY <3>1, PlaceOf2
  <2>5. PICK b \in Nat : b = r * w
    OBVIOUS
  <2>6. base(i) + col(i) = b + c /\ base(i) + inter + col(i) = b + (inter + c)
    <3>1. base(i) = b /\ col(i) = c
      BY <2>1, <2>3, <2>5
    <3> HIDE DEF base, col
    <3> QED
      BY <3>1
  <2>7. wide[b + c] \in Numbers /\ wide[b + (inter + c)] \in Numbers
    BY <2>2, <2>4, <2>5
  <2> HIDE DEF base, col
  <2> QED
    BY <2>6, <2>7, FunctionsStay, TimesStays
<1> HIDE DEF gated
<1> QED
  BY <1>1, <1>2

-----------------------------------------------------------------------------
(* The projections of an encoder.                                          *)

\* How many rows a batch has.
LEMMA RowsAre ==
    ASSUME NEW b \in Nat \ {0}, NEW s \in Nat \ {0}, NEW k \in Nat \ {0}, NEW x, Numeric(x, <<b, s, k>>)
    PROVE  Elements(x) \div k = b * s /\ x.data \in [0..(b * s) * k - 1 -> Numbers]
<1>1. Product(<<b, s, k>>) = b * s * k
  BY ProductOf3
<1>2. PICK rows \in Nat : rows = b * s
  OBVIOUS
<1>3. PICK e : e = Elements(x)
  OBVIOUS
<1>4. e = k * rows + 0 /\ 0 \in 0..k - 1
  BY <1>1, <1>2, <1>3 DEF Elements, Numeric
<1>5. e \div k = rows
  BY <1>4, DivisionIs
<1> QED
  BY <1>1, <1>2, <1>3, <1>5 DEF Numeric

LEMMA ProjectionStays ==
    ASSUME NEW b \in Nat \ {0}, NEW s \in Nat \ {0}, NEW k \in Nat \ {0}, NEW n \in Nat \ {0},
           NEW x, Numeric(x, <<b, s, k>>), NEW weight, Numeric(weight, <<n, k>>)
    PROVE  Numeric(Projection(x, weight), <<b, s, n>>)
<1>1. CASE Path # "bf16"
  <2>1. Projection(x, weight) = Linear(x, weight)
    BY <1>1, Zenon DEF Projection
  <2> QED
    BY <2>1, LinearStays
<1>2. CASE Path = "bf16"
  <2>1. x.shape = <<b, s, k>> /\ weight.shape = <<n, k>>
    BY DEF Numeric
  <2>2. Dim(x, -1) = k /\ Dim(weight, 0) = n /\ [x.shape EXCEPT ![Len(x.shape)] = n] = <<b, s, n>>
    BY <2>1 DEF Dim, Axis
  <2>3. PICK m \in Nat : m = b * s
    OBVIOUS
  <2>4. Elements(x) \div k = m /\ x.data \in [0..m * k - 1 -> Numbers]
    BY <2>3, RowsAre
  <2>5. \A i \in 0..n * k - 1 : weight.data[i] \in Numbers
    BY ProductOf2 DEF Numeric
  <2>6. PICK data : data = Bf16Linear(x.data, m, weight.data, n, k)
    OBVIOUS
  <2>7. data \in [0..m * n - 1 -> Numbers]
    BY <2>4, <2>5, <2>6, Bf16LinearStays
  <2>8. Projection(x, weight) = Tensor(<<b, s, n>>, data)
    BY <1>2, <2>2, <2>4, <2>6, Zenon DEF Projection
  <2>9. PICK t : t = <<b, s, n>>
    OBVIOUS
  <2>10. t \in Seq(Nat) /\ Product(t) = m * n
    BY <2>3, <2>9, ProductOf3
  <2>11. t \in Seq(Nat)
    BY <2>10
  <2>12. Projection(x, weight) = Tensor(t, data)
    BY <2>8, <2>9, Zenon
  <2>13. Projection(x, weight).shape = t /\ Projection(x, weight).data = data
    BY <2>11, <2>12, TensorIs, ZenonT(60)
  <2> QED
    BY <2>7, <2>9, <2>10, <2>11, <2>13 DEF Numeric
<1> QED
  BY <1>1, <1>2

-----------------------------------------------------------------------------
(* A query is never left without a key: its own is in its block, in its    *)
(* window, and a token or padding, which the floor leaves finite.          *)

Windows == Nat \union {NoWindow}
Backends == {"cpu-f32", "cuda", "metal", "cpu-bf16"}
Paths == {"f32", "bf16", "dense"}

LEMMA PathIs == ASSUME backend \in Backends PROVE Path \in Paths
<1>1. CASE backend \in {"cpu-f32", "cuda"}
  BY <1>1 DEF Path, Paths
<1>2. CASE backend = "cpu-bf16"
  BY <1>2 DEF Path, Paths
<1>3. CASE backend = "metal"
  BY <1>3 DEF Path, Paths
<1> QED
  BY <1>1, <1>2, <1>3 DEF Backends

\* What holds a query starts at or before it, and is of the queries asked for.
LEMMA BlockHolding ==
    ASSUME NEW seq \in Nat \ {0}, NEW width \in Nat \ {0}, NEW window \in Windows, NEW q \in 0..seq - 1
    PROVE  \E q0 \in 0..q, queries \in Nat :
              /\ q < q0 + queries /\ q0 + queries <= seq
              /\ BlockOf(Blocks(seq, width, window), q) =
                    IF window = NoWindow THEN Tile(seq, q0, queries) ELSE Band(seq, q0, queries, window)
<1> DEFINE step == Clamp(seq, width)
           queries(q0) == AtMost(step, seq - q0)
           block(q0) == IF window = NoWindow THEN Tile(seq, q0, queries(q0))
                                             ELSE Band(seq, q0, queries(q0), window)
           blocks == Blocks(seq, width, window)
<1>1. step \in Nat \ {0}
  BY DEF Clamp, AtMost, AtLeast
<1>2. blocks = {block(q0) : q0 \in Starts(seq, step)}
  BY DEF Blocks
<1>3. ASSUME NEW q0 \in Starts(seq, step)
      PROVE  /\ block(q0).q0 = q0 /\ block(q0).queries = queries(q0) /\ q0 \in Nat
             /\ queries(q0) \in Nat /\ q0 + queries(q0) <= seq
             /\ Holds(block(q0), q) <=> q0 <= q /\ q < q0 + step
  BY <1>1 DEF Starts, AtMost, Tile, Band, Holds
<1> HIDE DEF step, block, blocks
<1>4. PICK k \in Nat, r \in 0..step - 1 : r = q % step /\ q = step * k + r
  BY <1>1, q \in Nat, Remainder
<1>5. PICK s \in Nat : s = step * k
  BY <1>1
<1>6. s \in Starts(seq, step) /\ s <= q /\ q < s + step
  <2>1. s % step = 0
    BY <1>1, <1>5, RemainderOfMultiple
  <2>2. s <= q /\ q < s + step
    BY <1>1, <1>4, <1>5
  <2> QED
    BY <2>1, <2>2 DEF Starts
<1>7. block(s) \in blocks /\ Holds(block(s), q)
  BY <1>2, <1>3, <1>6
<1>8. BlockOf(blocks, q) \in blocks /\ Holds(BlockOf(blocks, q), q)
  BY <1>7 DEF BlockOf
<1>9. PICK q0 \in Starts(seq, step) : BlockOf(blocks, q) = block(q0)
  BY <1>2, <1>8
<1>10. q0 \in 0..q /\ q < q0 + queries(q0) /\ q0 + queries(q0) <= seq /\ queries(q0) \in Nat
  <2>1. q0 \in Nat /\ q0 <= q /\ q < q0 + step /\ queries(q0) \in Nat /\ q0 + queries(q0) <= seq
    BY <1>3, <1>8, <1>9
  <2>2. queries(q0) = step \/ queries(q0) = seq - q0
    BY DEF AtMost
  <2> HIDE DEF queries
  <2> QED
    BY <1>1, <2>1, <2>2
<1> QED
  BY <1>9, <1>10 DEF block, blocks

\* The keys of a tile, and of a band.
LEMMA TileKeys ==
    ASSUME NEW seq \in Nat, NEW q0, NEW queries, NEW q \in 0..seq - 1, NEW b, b = Tile(seq, q0, queries)
    PROVE  b.q0 = q0 /\ b.k0 \in 0..q /\ b.keys \in Nat /\ q < b.k0 + b.keys /\ b.k0 + b.keys <= seq
BY DEF Tile

LEMMA BandKeys ==
    ASSUME NEW seq \in Nat, NEW q \in 0..seq - 1, NEW q0 \in 0..q, NEW queries \in Nat, q < q0 + queries,
           q0 + queries <= seq, NEW w \in Nat, NEW b, b = Band(seq, q0, queries, w)
    PROVE  b.q0 = q0 /\ b.k0 \in 0..q /\ b.keys \in Nat /\ q < b.k0 + b.keys /\ b.k0 + b.keys <= seq
BY DEF Band, AtMost, AtLeast

\* The block a query is in, and its own key there.
HasItsKey(b, seq, q) ==
    b.q0 \in 0..q /\ b.k0 \in 0..q /\ b.keys \in Nat /\ q < b.k0 + b.keys /\ b.k0 + b.keys <= seq

LEMMA OwnBlock ==
    ASSUME NEW seq \in Nat \ {0}, NEW window \in Windows, NEW budget \in Nat, NEW path \in Paths, NEW q \in 0..seq - 1
    PROVE  HasItsKey(BlockOf(Plan(path, seq, window, budget), q), seq, q)
<1> DEFINE plan == Plan(path, seq, window, budget)
           b == BlockOf(plan, q)
<1>1. ASSUME NEW width \in Nat \ {0}, NEW v \in Windows, plan = Blocks(seq, width, v)
      PROVE  HasItsKey(b, seq, q)
  <2>1. PICK q0 \in 0..q, queries \in Nat :
              /\ q < q0 + queries /\ q0 + queries <= seq
              /\ b = IF v = NoWindow THEN Tile(seq, q0, queries) ELSE Band(seq, q0, queries, v)
    <3>1. b = BlockOf(Blocks(seq, width, v), q)
      BY <1>1
    <3> HIDE DEF plan, b
    <3> QED
      BY <3>1, BlockHolding
  <2> HIDE DEF b
  <2>2. CASE v = NoWindow
    <3>1. b = Tile(seq, q0, queries)
      BY <2>1, <2>2
    <3> QED
      BY <3>1, TileKeys DEF HasItsKey
  <2>3. CASE v # NoWindow
    <3>1. b = Band(seq, q0, queries, v) /\ v \in Nat
      BY <2>1, <2>3 DEF Windows
    <3> QED
      BY <2>1, <3>1, BandKeys, SMTT(40) DEF HasItsKey
  <2> QED
    BY <2>2, <2>3
<1>2. ASSUME plan = {Tile(seq, 0, seq)} PROVE HasItsKey(b, seq, q)
  <2>1. Holds(Tile(seq, 0, seq), q)
    BY DEF Holds, Tile
  <2>2. BlockOf(plan, q) \in plan
    <3>1. PICK t : t = Tile(seq, 0, seq)
      OBVIOUS
    <3>2. t \in plan /\ Holds(t, q)
      BY <1>2, <2>1, <3>1
    <3> HIDE DEF plan
    <3> QED
      BY <3>2, Zenon DEF BlockOf
  <2>3. b = Tile(seq, 0, seq)
    BY <1>2, <2>2
  <2> HIDE DEF b
  <2>4. b.q0 = 0
    BY <2>3 DEF Tile
  <2> QED
    BY <2>3, <2>4, TileKeys DEF HasItsKey
<1>3. NoWindow \in Windows
  BY DEF Windows
<1>4. CASE path = "dense"
  <2>1. plan = {Tile(seq, 0, seq)}
    BY <1>4 DEF Plan
  <2> QED
    BY <1>2, <2>1
<1>5. CASE path # "dense" /\ Banded(seq, window)
  <2>1. plan = Blocks(seq, BandBlock, window)
    BY <1>5 DEF Plan
  <2> QED
    BY <1>1, <2>1, BandBlockIsPositive
<1>6. CASE path = "f32" /\ ~Banded(seq, window)
  <2>1. plan = Blocks(seq, QueryTile(seq, budget), NoWindow)
    BY <1>6 DEF Plan
  <2>2. QueryTile(seq, budget) \in Nat \ {0}
    <3>1. AtLeast(seq, 1) \in Nat \ {0}
      BY DEF AtLeast
    <3>2. PICK v \in Nat \ {0} : v = AtLeast(seq, 1)
      BY <3>1
    <3>3. PICK k \in Nat : k = budget \div v
      BY Quotient
    <3>4. AtLeast(k, 1) \in Nat \ {0}
      BY DEF AtLeast
    <3> QED
      BY <3>2, <3>3, <3>4 DEF QueryTile
  <2> QED
    BY <1>1, <1>3, <2>1, <2>2
<1>7. CASE path = "bf16" /\ ~Banded(seq, window)
  <2>1. plan = {Tile(seq, 0, seq)}
    BY <1>7 DEF Plan
  <2> QED
    BY <1>2, <2>1
<1> HIDE DEF plan, b
<1> QED
  BY <1>4, <1>5, <1>6, <1>7 DEF Paths

\* Whichever mask a path reads, it opens a query's own key to it.
LEMMA OwnKeyIsOpen ==
    ASSUME NEW seq \in Nat, NEW window \in Windows, NEW path \in Paths, NEW q \in 0..seq - 1, NEW b, HasItsKey(b, seq, q)
    PROVE  Open(path, b, seq, window, q - b.q0, q - b.k0)
<1>1. PICK q0 \in 0..q, k0 \in 0..q : q0 = b.q0 /\ k0 = b.k0
  BY DEF HasItsKey
<1>2. CASE window = NoWindow
  BY <1>2 DEF Open
<1>3. CASE window # NoWindow
  <2>1. window \in Nat
    BY <1>3 DEF Windows
  <2>2. MaskOpen(q - q0, q - k0, q0 - k0, window)
    BY <2>1 DEF MaskOpen
  <2>3. TableOpen(b, q - q0, q - k0, window)
    <3>1. MaskOpen(q - q0, window - (q0 - k0) + (q - k0), window, window)
      BY <2>1 DEF MaskOpen
    <3> QED
      BY <1>1, <3>1 DEF TableOpen
  <2>4. (k0 + (q - k0)) - (q0 + (q - q0)) \in -window..window
    BY <2>1
  <2> QED
    BY <1>1, <2>2, <2>3, <2>4, Zenon DEF Open, Paths
<1> QED
  BY <1>2, <1>3

LEMMA PaddingIs == ASSUME NEW r, NEW k PROVE Padding(r, k) \in {0, Floor}
<1>1. Times(0, Floor) = 0 /\ Times(1, Floor) = Floor
  BY DEF Times, IsNumber, NaN, NegInf, Floor
<1> QED
  BY <1>1 DEF Padding

LEMMA BiasIs ==
    ASSUME NEW block, NEW window, NEW r, NEW i, NEW j
    PROVE  /\ Bias(block, window, r, i, j) \in {0, Floor, NegInf}
           /\ Open(Path, block, SeqLen, window, i, j) => Bias(block, window, r, i, j) # NegInf
<1>1. /\ Plus(0, 0) = 0 /\ Plus(0, Floor) = Floor
      /\ Plus(NegInf, 0) = NegInf /\ Plus(NegInf, Floor) = NegInf
  BY NumbersAre DEF Plus, IsNumber, NaN, NegInf, Floor
<1>2. PICK p \in {0, Floor} : p = Padding(r, block.k0 + j)
  BY PaddingIs
<1>3. NegInf # 0 /\ NegInf # Floor
  BY DEF NegInf, Floor
<1>4. CASE Open(Path, block, SeqLen, window, i, j)
  <2>1. Bias(block, window, r, i, j) = Plus(0, p)
    BY <1>2, <1>4, Zenon DEF Bias
  <2> QED
    BY <1>1, <1>3, <2>1
<1>5. CASE ~Open(Path, block, SeqLen, window, i, j)
  <2>1. Bias(block, window, r, i, j) = Plus(NegInf, p)
    BY <1>2, <1>5, Zenon DEF Bias
  <2> QED
    BY <1>1, <1>3, <1>5, <2>1
<1> QED
  BY <1>4, <1>5

LEMMA ScoreMaskIs ==
    ASSUME NEW block, NEW window, NEW r, NEW i, NEW j
    PROVE  /\ ScoreMask(block, window, r, i, j) \in {0, Floor, NegInf}
           /\ Open(Path, block, SeqLen, window, i, j) => ScoreMask(block, window, r, i, j) # NegInf
<1>1. PICK bias : bias = Bias(block, window, r, i, j)
  OBVIOUS
<1>2. ScoreMask(block, window, r, i, j) = IF Path = "dense" /\ bias = NegInf THEN Floor ELSE bias
  BY <1>1, Zenon DEF ScoreMask
<1>3. bias \in {0, Floor, NegInf} /\ (Open(Path, block, SeqLen, window, i, j) => bias # NegInf)
  BY <1>1, BiasIs
<1>4. NegInf # Floor
  BY DEF NegInf, Floor
<1> QED
  BY <1>2, <1>3, <1>4

-----------------------------------------------------------------------------
(* Attention.                                                              *)

LEMMA MaskedScore ==
    ASSUME NEW a \in Numbers, NEW m \in {0, Floor, NegInf}
    PROVE  Plus(a, m) \in Masked /\ (m # NegInf => Plus(a, m) # NegInf)
<1>1. CASE m = 0
  <2>1. 0 \in Numbers
    BY NumbersAre
  <2>2. Plus(a, 0) \in Numbers
    BY <2>1, PlusStays
  <2> QED
    BY <1>1, <2>2, MaskedAre DEF Masked
<1>2. CASE m = Floor
  <2>1. Plus(a, Floor) = Floor
    BY NumbersAre DEF Plus, IsNumber, NaN, NegInf, Floor
  <2> QED
    BY <1>2, <2>1, MaskedAre DEF Masked
<1>3. CASE m = NegInf
  <2>1. Plus(a, NegInf) = NegInf
    BY NumbersAre DEF Plus, IsNumber, NaN, NegInf, Floor
  <2> QED
    BY <1>3, <2>1 DEF Masked
<1> QED
  BY <1>1, <1>2, <1>3

LEMMA ProbsStay ==
    ASSUME NEW keys \in Nat, NEW score, DOMAIN score = 0..keys - 1, NEW mask,
           \A j \in 0..keys - 1 : score[j] \in Numbers /\ mask[j] \in {0, Floor, NegInf},
           NEW own \in 0..keys - 1, mask[own] # NegInf
    PROVE  \A j \in 0..keys - 1 : Probs(score, mask, keys)[j] \in Numbers
<1>1. \A j \in 0..keys - 1 : Plus(score[j], mask[j]) \in Masked /\ (mask[j] # NegInf => Plus(score[j], mask[j]) # NegInf)
  BY MaskedScore
<1>2. CASE Path = "bf16"
  <2>1. Probs(score, mask, keys) = RowAvx512(score, mask)
    BY <1>2, KnownIs, Zenon DEF Probs
  <2>2. keys \in Nat \ {0}
    OBVIOUS
  <2>3. \A j \in 0..keys - 1 : RowAvx512(score, mask)[j] \in Numbers
    BY <1>1, <2>2, RowAvx512Stays
  <2> QED
    BY <2>1, <2>3
<1>3. CASE Path # "bf16"
  <2>1. PICK masked : masked = [j \in 0..keys - 1 |-> Plus(score[j], mask[j])]
    OBVIOUS
  <2>2. Probs(score, mask, keys) = SoftmaxRow(masked, keys)
    BY <1>3, <2>1, KnownIs, Zenon DEF Probs
  <2>3. \A j \in 0..keys - 1 : masked[j] \in Masked
    BY <1>1, <2>1
  <2>4. masked[own] # NegInf
    BY <1>1, <2>1
  <2>5. \A j \in 0..keys - 1 : SoftmaxRow(masked, keys)[j] \in Numbers
    BY <2>3, <2>4, SoftmaxStays
  <2> QED
    BY <2>2, <2>5
<1> QED
  BY <1>2, <1>3

\* The batch's heads are all rows of seq vectors of d.
IsHeads(z, all, seq, d) == z.data \in [0..(all * seq) * d - 1 -> Numbers]

LEMMA VectorPlace ==
    ASSUME NEW all \in Nat, NEW seq \in Nat, NEW d \in Nat, NEW z, IsHeads(z, all, seq, d),
           NEW bh \in 0..all - 1, NEW s \in 0..seq - 1, NEW c \in 0..d - 1
    PROVE  z.data[(bh * seq + s) * d + c] \in Numbers
<1>1. PICK x \in 0..all * seq - 1 : x = bh * seq + s
  BY PlaceOf2
<1>2. PICK n \in Nat : n = all * seq
  OBVIOUS
<1>3. x * d + c \in 0..n * d - 1
  BY <1>1, <1>2, PlaceOf2
<1> QED
  BY <1>1, <1>2, <1>3 DEF IsHeads

LEMMA ScoresStay ==
    ASSUME NEW all \in Nat, SeqLen \in Nat, NEW d \in Nat, NEW q, Dim(q, -1) = d, NEW k,
           IsHeads(q, all, SeqLen, d), IsHeads(k, all, SeqLen, d),
           NEW bh \in 0..all - 1, NEW s \in 0..SeqLen - 1, NEW block, HasItsKey(block, SeqLen, s)
    PROVE  /\ DOMAIN Scores(q, k, block, bh, s) = 0..block.keys - 1
           /\ \A j \in 0..block.keys - 1 : Scores(q, k, block, bh, s)[j] \in Numbers
<1> DEFINE dot(j) == Dot(At(q, bh * SeqLen + s, d), At(k, bh * SeqLen + block.k0 + j, d), d)
<1>1. Scores(q, k, block, bh, s) = [j \in 0..block.keys - 1 |-> dot(j)]
  <2>1. Scores(q, k, block, bh, s) = Known([j \in 0..block.keys - 1 |-> dot(j)])
    BY Zenon DEF Scores
  <2> HIDE DEF dot
  <2> QED
    BY <2>1, KnownIs
<1>2. PICK seq \in Nat, k0 \in 0..s, keys \in Nat : seq = SeqLen /\ k0 = block.k0 /\ keys = block.keys /\ k0 + keys <= seq
  BY DEF HasItsKey
<1>3. ASSUME NEW j \in 0..keys - 1 PROVE dot(j) \in Numbers
  <2>1. PICK t \in 0..seq - 1 : t = k0 + j
    BY <1>2
  <2>2. bh * SeqLen + block.k0 + j = bh * seq + t
    <3>1. PICK v \in Nat : v = bh * seq
      BY <1>2
    <3>2. v + k0 + j = v + (k0 + j)
      BY <1>2
    <3> QED
      BY <1>2, <2>1, <3>1, <3>2
  <2>3. PICK f, g : f = At(q, bh * seq + s, d) /\ g = At(k, bh * seq + t, d)
    OBVIOUS
  <2>4. \A e \in 0..d - 1 : f[e] \in Numbers /\ g[e] \in Numbers
    <3> SUFFICES ASSUME NEW e \in 0..d - 1 PROVE f[e] \in Numbers /\ g[e] \in Numbers
      OBVIOUS
    <3>1. f[e] = q.data[(bh * seq + s) * d + e] /\ g[e] = k.data[(bh * seq + t) * d + e]
      BY <2>3, Zenon DEF At
    <3>2. q.data[(bh * seq + s) * d + e] \in Numbers /\ k.data[(bh * seq + t) * d + e] \in Numbers
      BY <1>2, VectorPlace
    <3> QED
      BY <3>1, <3>2
  <2>5. dot(j) = Dot(f, g, d)
    BY <1>2, <2>2, <2>3, Zenon
  <2> HIDE DEF dot
  <2> QED
    BY <2>4, <2>5, DotStays
<1> HIDE DEF dot
<1> QED
  BY <1>1, <1>2, <1>3

\* What attends to a block of keys, its own among them.
LEMMA AttendBlockStays ==
    ASSUME NEW all \in Nat, SeqLen \in Nat, NEW d \in Nat, NEW q, Dim(q, -1) = d, NEW k, NEW v,
           IsHeads(q, all, SeqLen, d), IsHeads(k, all, SeqLen, d), IsHeads(v, all, SeqLen, d),
           NEW bh \in 0..all - 1, NEW s \in 0..SeqLen - 1, NEW block, HasItsKey(block, SeqLen, s),
           NEW window \in Windows, Path \in Paths
    PROVE  AttendBlock(q, k, v, window, block, bh, s) \in [0..d - 1 -> Numbers]
<1>1. PICK seq \in Nat, k0 \in 0..s, keys \in Nat :
         seq = SeqLen /\ k0 = block.k0 /\ keys = block.keys /\ k0 + keys <= seq /\ s < k0 + keys
  BY DEF HasItsKey
<1>2. PICK score : score = Scores(q, k, block, bh, s)
  OBVIOUS
<1>3. DOMAIN score = 0..keys - 1 /\ \A j \in 0..keys - 1 : score[j] \in Numbers
  BY <1>1, <1>2, ScoresStay, SMTT(40)
<1> DEFINE shut(j) == ScoreMask(block, window, bh \div config.heads, s - block.q0, j)
<1>4. PICK mask : mask = MaskRow(block, window, bh, s)
  OBVIOUS
<1>5. mask = [j \in 0..keys - 1 |-> shut(j)]
  <2>1. MaskRow(block, window, bh, s) = Known([j \in 0..block.keys - 1 |-> shut(j)])
    BY Zenon DEF MaskRow
  <2> HIDE DEF shut
  <2> QED
    BY <1>1, <1>4, <2>1, KnownIs
<1>6. \A j : shut(j) \in {0, Floor, NegInf} /\ (Open(Path, block, SeqLen, window, s - block.q0, j) => shut(j) # NegInf)
  BY ScoreMaskIs
<1>7. PICK own \in 0..keys - 1 : own = s - k0
  BY <1>1
<1>8. shut(own) # NegInf
  <2>1. Open(Path, block, SeqLen, window, s - block.q0, s - block.k0)
    BY OwnKeyIsOpen
  <2> HIDE DEF shut
  <2> QED
    BY <1>1, <1>6, <1>7, <2>1
<1> HIDE DEF shut
<1>9. PICK probs : probs = Probs(score, mask, keys)
  OBVIOUS
<1>10. \A j \in 0..keys - 1 : probs[j] \in Numbers
  <2>1. \A j \in 0..keys - 1 : mask[j] \in {0, Floor, NegInf}
    BY <1>5, <1>6
  <2>2. mask[own] # NegInf
    BY <1>5, <1>8
  <2> QED
    BY <1>3, <1>9, <2>1, <2>2, ProbsStay
<1> DEFINE value(c) == [j \in 0..keys - 1 |-> v.data[(bh * seq + k0 + j) * d + c]]
           made(c) == Dot(probs, value(c), keys)
<1>11. AttendBlock(q, k, v, window, block, bh, s) = [c \in 0..d - 1 |-> made(c)]
  <2> DEFINE given(c) == LET e == Dim(q, -1)
                             p == Probs(Scores(q, k, block, bh, s), MaskRow(block, window, bh, s), block.keys)
                             val(f) == [j \in 0..block.keys - 1 |-> v.data[(bh * SeqLen + block.k0 + j) * e + f]]
                         IN Dot(p, val(c), block.keys)
  <2>1. AttendBlock(q, k, v, window, block, bh, s) = Known([c \in 0..d - 1 |-> given(c)])
    BY Zenon DEF AttendBlock
  <2>2. ASSUME NEW c PROVE given(c) = made(c)
    BY <1>1, <1>2, <1>4, <1>9, Zenon
  <2> HIDE DEF given, made
  <2> QED
    BY <2>1, <2>2, KnownIs
<1>12. ASSUME NEW c \in 0..d - 1 PROVE made(c) \in Numbers
  <2>1. \A j \in 0..keys - 1 : value(c)[j] \in Numbers
    <3> SUFFICES ASSUME NEW j \in 0..keys - 1 PROVE v.data[(bh * seq + k0 + j) * d + c] \in Numbers
      OBVIOUS
    <3>1. PICK t \in 0..seq - 1 : t = k0 + j
      BY <1>1
    <3>2. bh * seq + k0 + j = bh * seq + t
      <4>1. PICK u \in Nat : u = bh * seq
        OBVIOUS
      <4>2. u + k0 + j = u + (k0 + j)
        OBVIOUS
      <4> QED
        BY <3>1, <4>1, <4>2
    <3>3. v.data[(bh * seq + t) * d + c] \in Numbers
      BY <1>1, VectorPlace
    <3> QED
      BY <3>2, <3>3
  <2> HIDE DEF value
  <2> QED
    BY <1>10, <2>1, DotStays
<1> HIDE DEF made
<1> QED
  BY <1>11, <1>12

LEMMA AttendBlockedStays ==
    ASSUME NEW b \in Nat \ {0}, NEW heads \in Nat \ {0}, NEW seq \in Nat \ {0}, NEW d \in Nat \ {0}, SeqLen = seq,
           NEW q, Numeric(q, <<b, heads, seq, d>>), NEW k, Numeric(k, <<b, heads, seq, d>>),
           NEW v, Numeric(v, <<b, heads, seq, d>>), NEW window \in Windows, backend \in Backends
    PROVE  Numeric(AttendBlocked(q, k, v, window), <<b, heads, seq, d>>)
<1>1. PICK shape : shape = <<b, heads, seq, d>>
  OBVIOUS
<1>2. shape \in Seq(Nat) /\ Numeric(q, shape) /\ Numeric(k, shape) /\ Numeric(v, shape)
  BY <1>1
<1>3. PICK all \in Nat : all = b * heads
  OBVIOUS
<1>4. PICK n \in Nat : n = all * seq
  OBVIOUS
<1>5. Product(shape) = n * d
  <2>1. Product(<<b, heads, seq, d>>) = b * heads * seq * d
    BY ProductOf4
  <2> QED
    BY <1>1, <1>3, <1>4, <2>1
<1>6. IsHeads(q, all, SeqLen, d) /\ IsHeads(k, all, SeqLen, d) /\ IsHeads(v, all, SeqLen, d)
  BY <1>2, <1>4, <1>5 DEF IsHeads, Numeric
<1>7. Dim(q, -1) = d
  BY <1>1 DEF Dim, Axis, Numeric
<1>8. Elements(q) \div d = n
  <2>1. PICK e : e = Elements(q)
    OBVIOUS
  <2>2. e = d * n + 0 /\ 0 \in 0..d - 1
    BY <1>2, <1>5, <2>1 DEF Elements, Numeric
  <2>3. e \div d = n
    BY <2>2, DivisionIs
  <2> QED
    BY <2>1, <2>3
<1>9. Budget \in Nat /\ Path \in Paths
  BY BudgetsAreNumbers, PathIs DEF Budget
<1> DEFINE plan == Plan(Path, SeqLen, window, Budget)
           context(bh, s) == AttendBlock(q, k, v, window, BlockOf(plan, s), bh, s)
           row(x) == context(x \div seq, x % seq)
<1>10. ASSUME NEW x \in 0..n - 1 PROVE row(x) \in [0..d - 1 -> Numbers]
  <2>1. PICK bh \in 0..all - 1, s \in 0..seq - 1 : bh = x \div seq /\ s = x % seq
    BY <1>4, RowPlace
  <2>2. PICK block : block = BlockOf(plan, s)
    OBVIOUS
  <2>3. HasItsKey(block, SeqLen, s)
    BY <1>9, <2>2, OwnBlock
  <2> HIDE DEF plan
  <2>4. row(x) = AttendBlock(q, k, v, window, block, bh, s)
    BY <2>1, <2>2
  <2>5. AttendBlock(q, k, v, window, block, bh, s) \in [0..d - 1 -> Numbers]
    <3>1. SeqLen \in Nat /\ bh \in 0..all - 1 /\ s \in 0..SeqLen - 1 /\ d \in Nat /\ Path \in Paths
      BY <1>9
    <3> QED
      BY <1>6, <1>7, <2>3, <3>1, AttendBlockStays
  <2> QED
    BY <2>4, <2>5
<1> HIDE DEF row
<1>11. PICK rows : rows = [x \in 0..n - 1 |-> row(x)]
  OBVIOUS
<1>12. PICK data : data = [i \in 0..n * d - 1 |-> rows[i \div d][i % d]]
  OBVIOUS
<1>13. AttendBlocked(q, k, v, window) = Tensor(shape, data)
  <2> DEFINE made(x) == context(x \div SeqLen, x % SeqLen)
             all_ == Known([x \in 0..Elements(q) \div Dim(q, -1) - 1 |-> made(x)])
  <2>1. AttendBlocked(q, k, v, window)
           = Tensor(q.shape, [i \in DOMAIN q.data |-> all_[i \div Dim(q, -1)][i % Dim(q, -1)]])
    BY Zenon DEF AttendBlocked
  <2>2. \A x : made(x) = row(x)
    BY DEF row
  <2> HIDE DEF context, made
  <2>3. all_ = rows
    BY <1>7, <1>8, <1>11, <2>2, KnownIs
  <2> HIDE DEF all_
  <2>4. DOMAIN q.data = 0..n * d - 1 /\ q.shape = shape
    BY <1>2, <1>5 DEF Numeric
  <2> QED
    BY <1>7, <1>12, <2>1, <2>3, <2>4
<1>14. ASSUME NEW i \in 0..n * d - 1 PROVE rows[i \div d][i % d] \in Numbers
  <2>1. PICK x \in 0..n - 1, c \in 0..d - 1 : x = i \div d /\ c = i % d
    BY RowPlace
  <2>2. rows[x] \in [0..d - 1 -> Numbers]
    BY <1>10, <1>11
  <2> QED
    BY <2>1, <2>2
<1>15. AttendBlocked(q, k, v, window).shape = shape /\ AttendBlocked(q, k, v, window).data = data
  BY <1>2, <1>13, TensorIs
<1>16. data \in [0..n * d - 1 -> Numbers]
  BY <1>12, <1>14
<1>17. Numeric(AttendBlocked(q, k, v, window), shape)
  <2>1. PICK y : y = AttendBlocked(q, k, v, window)
    OBVIOUS
  <2> QED
    BY <1>5, <1>15, <1>16, <2>1 DEF Numeric
<1> QED
  BY <1>1, <1>17

\* The sizes of a config: heads of two halves make up a hidden vector.
IsSized(b, seq, heads, half, h) ==
    /\ b \in Nat \ {0} /\ seq \in Nat \ {0} /\ heads \in Nat \ {0} /\ half \in Nat \ {0} /\ h \in Nat \ {0}
    /\ h = heads * (2 * half) /\ SeqLen = seq /\ config.heads = heads /\ config.hidden = h

LEMMA HeadDimIs ==
    ASSUME NEW b, NEW seq, NEW heads, NEW half, NEW h, IsSized(b, seq, heads, half, h)
    PROVE  HeadDim(config) = 2 * half
<1>1. heads \in Nat \ {0} /\ half \in Nat /\ h = heads * (2 * half) /\ config.heads = heads /\ config.hidden = h
  BY DEF IsSized
<1>2. PICK d \in Nat : d = 2 * half
  BY <1>1
<1>3. h = heads * d + 0 /\ 0 \in 0..heads - 1
  BY <1>1, <1>2
<1>4. h \div heads = d
  BY <1>1, <1>3, DivisionIs
<1> QED
  BY <1>1, <1>2, <1>4 DEF HeadDim

\* What one token's vector is cut into.
AreCuts(b, seq, heads, d, h) ==
    /\ Product(<<b, seq, heads, d>>) = Product(<<b, seq, h>>)
    /\ Product(<<b, seq, 3, heads, d>>) = Product(<<b, seq, 3 * h>>)
    /\ Product(<<1, b, heads, seq, d>>) = Product(<<b, heads, seq, d>>)
    /\ <<b, seq, heads, d>> \in Seq(Nat) /\ <<b, seq, 3, heads, d>> \in Seq(Nat) /\ <<b, heads, seq, d>> \in Seq(Nat)

LEMMA CutInHeads ==
    ASSUME NEW b \in Nat, NEW seq \in Nat, NEW heads \in Nat, NEW d \in Nat, NEW h \in Nat, h = heads * d
    PROVE  AreCuts(b, seq, heads, d, h)
<1>1. /\ Product(<<b, seq, heads, d>>) = b * seq * heads * d /\ Product(<<b, seq, h>>) = b * seq * h
      /\ Product(<<b, heads, seq, d>>) = b * heads * seq * d
  BY ProductOf3, ProductOf4
<1>2. Product(<<b, seq, 3, heads, d>>) = b * seq * 3 * heads * d /\ Product(<<1, b, heads, seq, d>>) = 1 * b * heads * seq * d
  BY ProductOf5, 1 \in Nat, 3 \in Nat, SMTT(40)
<1>3. Product(<<b, seq, 3 * h>>) = b * seq * (3 * h)
  BY ProductOf3, 3 * h \in Nat
<1>4. b * seq * heads * d = b * seq * h
  OBVIOUS
<1>5. b * seq * 3 * heads * d = b * seq * (3 * h)
  <2>1. b * seq * 3 * heads * d = b * seq * (3 * (heads * d))
    OBVIOUS
  <2> QED
    BY <2>1
<1>6. 1 * b * heads * seq * d = b * heads * seq * d
  <2>1. 1 * b = b
    OBVIOUS
  <2> QED
    BY <2>1
<1>7. <<b, seq, heads, d>> \in Seq(Nat) /\ <<b, seq, 3, heads, d>> \in Seq(Nat) /\ <<b, heads, seq, d>> \in Seq(Nat)
  OBVIOUS
<1>8. /\ Product(<<b, seq, heads, d>>) = Product(<<b, seq, h>>)
      /\ Product(<<b, seq, 3, heads, d>>) = Product(<<b, seq, 3 * h>>)
      /\ Product(<<1, b, heads, seq, d>>) = Product(<<b, heads, seq, d>>)
  BY <1>1, <1>2, <1>3, <1>4, <1>5, <1>6
<1> QED
  BY <1>7, <1>8, Zenon DEF AreCuts

\* Metal's: three products, each cut into heads.
LEMMA SplitStays ==
    ASSUME NEW b, NEW seq, NEW heads, NEW half, NEW h, IsSized(b, seq, heads, half, h),
           NEW input, Numeric(input, <<b, seq, h>>), NEW wqkv, Numeric(wqkv, <<3 * h, h>>), NEW p \in 0..2
    PROVE  Numeric(Reshape(Linear(input, Narrow(wqkv, 0, p * h, h)), <<b, seq, heads, 2 * half>>), <<b, seq, heads, 2 * half>>)
<1>1. b \in Nat \ {0} /\ seq \in Nat \ {0} /\ heads \in Nat \ {0} /\ half \in Nat \ {0} /\ h \in Nat \ {0}
  BY DEF IsSized
<1>2. PICK d \in Nat \ {0} : d = 2 * half /\ h = heads * d
  BY <1>1 DEF IsSized
<1>0. AreCuts(b, seq, heads, d, h)
  <2>1. b \in Nat /\ seq \in Nat /\ heads \in Nat /\ d \in Nat /\ h \in Nat
    BY <1>1
  <2> QED
    BY <1>2, <2>1, CutInHeads
<1>3. PICK n \in Nat \ {0}, start \in Nat : n = 3 * h /\ start = p * h /\ start + h <= n
  <2>1. p = 0 \/ p = 1 \/ p = 2
    OBVIOUS
  <2>2. 0 * h = 0 /\ 1 * h = h
    BY <1>1
  <2> QED
    BY <1>1, <2>1, <2>2
<1>4. Numeric(Narrow(wqkv, 0, start, h), <<h, h>>)
  BY <1>1, <1>3, RowsTaken
<1>5. PICK product : product = Linear(input, Narrow(wqkv, 0, start, h))
  OBVIOUS
<1>6. Numeric(product, <<b, seq, h>>)
  BY <1>1, <1>4, <1>5, LinearStays
<1>7. Product(<<b, seq, heads, d>>) = Product(<<b, seq, h>>)
  BY <1>0, Zenon DEF AreCuts
<1>8. <<b, seq, heads, d>> \in Seq(Nat)
  BY <1>0, Zenon DEF AreCuts
<1>9. Numeric(Reshape(product, <<b, seq, heads, d>>), <<b, seq, heads, d>>)
  BY <1>6, <1>7, <1>8, ReshapeStays
<1> QED
  BY <1>2, <1>3, <1>5, <1>9

\* The others': one product, cut into three parts of heads.
LEMMA CutStays ==
    ASSUME NEW b, NEW seq, NEW heads, NEW half, NEW h, IsSized(b, seq, heads, half, h),
           NEW product, Numeric(product, <<b, seq, 3 * h>>), NEW p \in 0..2
    PROVE  Numeric(Reshape(Narrow(Transpose(Reshape(product, <<b, seq, 3, heads, 2 * half>>), <<2, 0, 3, 1, 4>>), 0, p, 1),
                           <<b, heads, seq, 2 * half>>), <<b, heads, seq, 2 * half>>)
<1>1. b \in Nat \ {0} /\ seq \in Nat \ {0} /\ heads \in Nat \ {0} /\ half \in Nat \ {0} /\ h \in Nat \ {0}
  BY DEF IsSized
<1>2. PICK d \in Nat \ {0} : d = 2 * half /\ h = heads * d
  BY <1>1 DEF IsSized
<1>0. AreCuts(b, seq, heads, d, h)
  <2>1. b \in Nat /\ seq \in Nat /\ heads \in Nat /\ d \in Nat /\ h \in Nat
    BY <1>1
  <2> QED
    BY <1>2, <2>1, CutInHeads
<1>3. PICK wide : wide = Reshape(product, <<b, seq, 3, heads, d>>)
  OBVIOUS
<1>4. Numeric(wide, <<b, seq, 3, heads, d>>)
  <2>1. Product(<<b, seq, 3, heads, d>>) = Product(<<b, seq, 3 * h>>)
    BY <1>0, Zenon DEF AreCuts
  <2>2. <<b, seq, 3, heads, d>> \in Seq(Nat)
    BY <1>0, Zenon DEF AreCuts
  <2> QED
    BY <1>3, <2>1, <2>2, ReshapeStays
<1>5. PICK parts : parts = Transpose(wide, <<2, 0, 3, 1, 4>>)
  OBVIOUS
<1>6. Numeric(parts, <<3, b, heads, seq, d>>)
  BY <1>1, <1>4, <1>5, PartsFirst
<1>7. PICK part : part = Narrow(parts, 0, p, 1)
  OBVIOUS
<1>8. Numeric(part, <<1, b, heads, seq, d>>)
  BY <1>1, <1>6, <1>7, PartTaken
<1>9. Numeric(Reshape(part, <<b, heads, seq, d>>), <<b, heads, seq, d>>)
  <2>1. Product(<<1, b, heads, seq, d>>) = Product(<<b, heads, seq, d>>)
    BY <1>0, Zenon DEF AreCuts
  <2>2. <<b, heads, seq, d>> \in Seq(Nat)
    BY <1>0, Zenon DEF AreCuts
  <2> QED
    BY <1>8, <2>1, <2>2, ReshapeStays
<1> QED
  BY <1>2, <1>3, <1>5, <1>7, <1>9

\* What a forward rests on: a config that candle can run, and every weight it
\* needs, read and of its shape.
IsLoaded ==
    /\ backend \in Backends /\ IsConfig(config) /\ checkpoint \in Checkpoints
    /\ \A t \in Required : Has(t[1], t[2])

LEMMA WindowIs == ASSUME IsLoaded, NEW l PROVE WindowOf(l) \in Windows /\ RopeTheta(l) \in Nat
<1>1. config.local_attention \in Nat /\ config.local_theta \in Nat /\ config.global_theta \in Nat
  BY DEF IsLoaded, IsConfig
<1>2. config.local_attention \div 2 \in Nat
  BY <1>1, HalvesAre
<1> QED
  BY <1>1, <1>2 DEF WindowOf, RopeTheta, Windows

LEMMA ReadsNumbers ==
    ASSUME IsLoaded, NEW name, NEW shape, Has(name, shape)
    PROVE  Numeric(Weight(name), shape)
<1>1. checkpoint \in Checkpoints /\ StoredName(name) \in DOMAIN checkpoint /\ checkpoint[StoredName(name)].shape = shape
  BY DEF IsLoaded, Has
<1>2. checkpoint[StoredName(name)].data \in [0..Product(checkpoint[StoredName(name)].shape) - 1 -> Numbers]
  BY <1>1, CheckpointsAreNumbers
<1> QED
  BY <1>1, <1>2 DEF Numeric, Weight

\* The weights of a layer, in the shapes they were loaded in.
LEMMA LayerWeights ==
    ASSUME IsLoaded, NEW l \in 0..config.layers - 1, NEW h, h = config.hidden
    PROVE  /\ Numeric(Weight(LayerName(l, "attn.Wqkv")), <<3 * h, h>>) /\ Numeric(Weight(LayerName(l, "attn.Wo")), <<h, h>>)
           /\ Numeric(Weight(LayerName(l, "mlp.Wi")), <<2 * config.inter, h>>)
           /\ Numeric(Weight(LayerName(l, "mlp.Wo")), <<h, config.inter>>)
           /\ Numeric(Weight(LayerName(l, "mlp_norm")), <<h>>)
<1>1. ASSUME NEW name, NEW shape, <<name, shape>> \in LayerTensors(l) PROVE Numeric(Weight(name), shape)
  <2>1. <<name, shape>> \in Required
    BY <1>1, Zenon DEF Required
  <2>2. PICK t \in Required : t = <<name, shape>>
    BY <2>1
  <2>3. Has(t[1], t[2])
    BY DEF IsLoaded
  <2>4. t[1] = name /\ t[2] = shape
    BY <2>2
  <2>5. Has(name, shape)
    BY <2>3, <2>4, Zenon
  <2> QED
    BY <2>5, ReadsNumbers
<1>2. /\ <<LayerName(l, "attn.Wqkv"), <<3 * h, h>>>> \in LayerTensors(l) /\ <<LayerName(l, "attn.Wo"), <<h, h>>>> \in LayerTensors(l)
      /\ <<LayerName(l, "mlp.Wi"), <<2 * config.inter, h>>>> \in LayerTensors(l)
      /\ <<LayerName(l, "mlp.Wo"), <<h, config.inter>>>> \in LayerTensors(l)
      /\ <<LayerName(l, "mlp_norm"), <<h>>>> \in LayerTensors(l)
  BY Zenon DEF LayerTensors
<1> QED
  BY <1>1, <1>2

LEMMA QkvStays ==
    ASSUME IsLoaded, NEW b, NEW seq, NEW heads, NEW half, NEW h, IsSized(b, seq, heads, half, h),
           NEW l \in 0..config.layers - 1, NEW input, Numeric(input, <<b, seq, h>>)
    PROVE  /\ Numeric(Qkv(l, input).q, <<b, heads, seq, 2 * half>>)
           /\ Numeric(Qkv(l, input).k, <<b, heads, seq, 2 * half>>)
           /\ Numeric(Qkv(l, input).v, <<b, heads, seq, 2 * half>>)
<1>1. b \in Nat \ {0} /\ seq \in Nat \ {0} /\ heads \in Nat \ {0} /\ half \in Nat \ {0} /\ h \in Nat \ {0}
  BY DEF IsSized
<1>2. SeqLen = seq /\ config.heads = heads /\ config.hidden = h
  BY DEF IsSized
<1>3. HeadDim(config) = 2 * half
  BY HeadDimIs, SMTT(40)
<1>4. Dim(input, 0) = b
  BY DEF Dim, Axis, Numeric
<1>5. PICK wqkv : wqkv = Weight(LayerName(l, "attn.Wqkv"))
  OBVIOUS
<1>6. Numeric(wqkv, <<3 * h, h>>)
  BY <1>2, <1>5, LayerWeights
<1>7. PICK theta \in Nat : theta = RopeTheta(l)
  BY WindowIs
<1> DEFINE split(p) == Reshape(Linear(input, Narrow(wqkv, 0, p * h, h)), <<b, seq, heads, 2 * half>>)
           product == Projection(input, wqkv)
           fused == Transpose(Reshape(product, <<b, seq, 3, heads, 2 * half>>), <<2, 0, 3, 1, 4>>)
           cut(p) == Reshape(Narrow(fused, 0, p, 1), <<b, heads, seq, 2 * half>>)
           bhsd(x) == Transpose(x, <<0, 2, 1, 3>>)
<1>8. CASE Path = "dense"
  <2>1. Qkv(l, input) = [q |-> bhsd(Rope(split(0), theta, 1)), k |-> bhsd(Rope(split(1), theta, 1)), v |-> bhsd(split(2))]
    BY <1>2, <1>3, <1>4, <1>5, <1>7, <1>8, Zenon DEF Qkv
  <2>2. \A p \in 0..2 : Numeric(split(p), <<b, seq, heads, 2 * half>>)
    BY <1>6, SplitStays
  <2> HIDE DEF split
  <2>3. PICK x0, x1, x2 : x0 = split(0) /\ x1 = split(1) /\ x2 = split(2)
    OBVIOUS
  <2>4. Numeric(x0, <<b, seq, heads, 2 * half>>) /\ Numeric(x1, <<b, seq, heads, 2 * half>>) /\ Numeric(x2, <<b, seq, heads, 2 * half>>)
    <3>1. 0 \in 0..2 /\ 1 \in 0..2 /\ 2 \in 0..2
      OBVIOUS
    <3> QED
      BY <2>2, <2>3, <3>1
  <2>5. 1 \in {1, 2} /\ 2 * half \in Nat \ {0}
    BY <1>1
  <2>6. PICK y0, y1 : y0 = Rope(x0, theta, 1) /\ y1 = Rope(x1, theta, 1)
    OBVIOUS
  <2>7. Numeric(y0, <<b, seq, heads, 2 * half>>) /\ Numeric(y1, <<b, seq, heads, 2 * half>>)
    BY <1>1, <2>4, <2>5, <2>6, RopeStays
  <2>8. Numeric(bhsd(y0), <<b, heads, seq, 2 * half>>) /\ Numeric(bhsd(y1), <<b, heads, seq, 2 * half>>)
        /\ Numeric(bhsd(x2), <<b, heads, seq, 2 * half>>)
    BY <1>1, <2>4, <2>5, <2>7, HeadsFirst
  <2>9. Qkv(l, input).q = bhsd(y0) /\ Qkv(l, input).k = bhsd(y1) /\ Qkv(l, input).v = bhsd(x2)
    <3> HIDE DEF bhsd
    <3> QED
      BY <2>1, <2>3, <2>6
  <2> HIDE DEF bhsd
  <2> QED
    BY <2>8, <2>9
<1>9. CASE Path # "dense"
  <2>1. Qkv(l, input) = [q |-> Rope(cut(0), theta, 2), k |-> Rope(cut(1), theta, 2), v |-> cut(2)]
    BY <1>2, <1>3, <1>4, <1>5, <1>7, <1>9, ZenonT(60) DEF Qkv
  <2>2. Numeric(product, <<b, seq, 3 * h>>)
    <3>1. 3 * h \in Nat \ {0}
      BY <1>1
    <3> QED
      BY <1>1, <1>6, <3>1, ProjectionStays
  <2> HIDE DEF product
  <2>3. \A p \in 0..2 : Numeric(cut(p), <<b, heads, seq, 2 * half>>)
    BY <2>2, CutStays
  <2> HIDE DEF cut
  <2>4. PICK x0, x1, x2 : x0 = cut(0) /\ x1 = cut(1) /\ x2 = cut(2)
    OBVIOUS
  <2>5. Numeric(x0, <<b, heads, seq, 2 * half>>) /\ Numeric(x1, <<b, heads, seq, 2 * half>>) /\ Numeric(x2, <<b, heads, seq, 2 * half>>)
    <3>1. 0 \in 0..2 /\ 1 \in 0..2 /\ 2 \in 0..2
      OBVIOUS
    <3> QED
      BY <2>3, <2>4, <3>1
  <2>6. PICK y0, y1 : y0 = Rope(x0, theta, 2) /\ y1 = Rope(x1, theta, 2)
    OBVIOUS
  <2>7. Numeric(y0, <<b, heads, seq, 2 * half>>) /\ Numeric(y1, <<b, heads, seq, 2 * half>>)
    <3>1. 2 \in {1, 2}
      OBVIOUS
    <3> QED
      BY <1>1, <2>5, <2>6, <3>1, RopeStays
  <2>8. Qkv(l, input).q = y0 /\ Qkv(l, input).k = y1 /\ Qkv(l, input).v = x2
    BY <2>1, <2>4, <2>6
  <2> QED
    BY <2>5, <2>7, <2>8
<1> QED
  BY <1>8, <1>9

LEMMA ScaleIs ==
    ASSUME NEW b, NEW seq, NEW heads, NEW half, NEW h, IsSized(b, seq, heads, half, h)
    PROVE  ScaleOf(config) \in Numbers
<1>1. half \in Nat
  BY DEF IsSized
<1>2. PICK d \in Nat : d = HeadDim(config)
  BY <1>1, HeadDimIs
<1>3. d * d * 13 + 29 * d + 5 \in Int
  OBVIOUS
<1>4. (d * d * 13 + 29 * d + 5) % P \in Numbers
  BY <1>3, ResiduesAre
<1>5. RSqrt(d) = (d * d * 13 + 29 * d + 5) % P
  BY DEF RSqrt, IsNumber
<1> QED
  BY <1>2, <1>4, <1>5 DEF ScaleOf

LEMMA AttentionStays ==
    ASSUME IsLoaded, NEW b, NEW seq, NEW heads, NEW half, NEW h, IsSized(b, seq, heads, half, h),
           NEW l \in 0..config.layers - 1, NEW input, Numeric(input, <<b, seq, h>>)
    PROVE  Numeric(Attention(l, input), <<b, seq, h>>)
<1>1. b \in Nat \ {0} /\ seq \in Nat \ {0} /\ heads \in Nat \ {0} /\ half \in Nat \ {0} /\ h \in Nat \ {0}
  BY DEF IsSized
<1>2. PICK d \in Nat \ {0} : d = 2 * half /\ h = heads * d
  BY <1>1 DEF IsSized
<1>3. AreCuts(b, seq, heads, d, h)
  <2>1. b \in Nat /\ seq \in Nat /\ heads \in Nat /\ d \in Nat /\ h \in Nat
    BY <1>1
  <2> QED
    BY <1>2, <2>1, CutInHeads
<1>4. PICK q, k, v : q = Qkv(l, input).q /\ k = Qkv(l, input).k /\ v = Qkv(l, input).v
  OBVIOUS
<1>5. PICK shape : shape = <<b, heads, seq, d>>
  OBVIOUS
<1>6. Numeric(q, shape) /\ Numeric(k, shape) /\ Numeric(v, shape)
  BY <1>2, <1>4, <1>5, QkvStays
<1>7. PICK scaled : scaled = Scaled(q, ScaleOf(config))
  OBVIOUS
<1>8. Numeric(scaled, shape)
  <2>1. ScaleOf(config) \in Numbers
    BY ScaleIs
  <2>2. shape \in Seq(Nat)
    BY <1>3, <1>5, Zenon DEF AreCuts
  <2> QED
    BY <1>6, <1>7, <2>1, <2>2, ScaledStays
<1>9. PICK context : context = AttendBlocked(scaled, k, v, WindowOf(l))
  OBVIOUS
<1>10. Numeric(context, <<b, heads, seq, d>>)
  <2>1. SeqLen = seq /\ backend \in Backends /\ WindowOf(l) \in Windows
    BY WindowIs DEF IsSized, IsLoaded
  <2> QED
    BY <1>1, <1>5, <1>6, <1>8, <1>9, <2>1, AttendBlockedStays
<1>11. PICK merged : merged = Transpose(context, <<0, 2, 1, 3>>)
  OBVIOUS
<1>12. Numeric(merged, <<b, seq, heads, d>>)
  BY <1>1, <1>10, <1>11, HeadsFirst
<1>13. PICK flat : flat = Reshape(merged, <<b, seq, h>>)
  OBVIOUS
<1>14. Numeric(flat, <<b, seq, h>>)
  <2>1. Product(<<b, seq, h>>) = Product(<<b, seq, heads, d>>)
    BY <1>3, Zenon DEF AreCuts
  <2>2. <<b, seq, h>> \in Seq(Nat)
    BY <1>1
  <2> QED
    BY <1>12, <1>13, <2>1, <2>2, ReshapeStays
<1>15. PICK wo : wo = Weight(LayerName(l, "attn.Wo"))
  OBVIOUS
<1>16. Numeric(wo, <<h, h>>)
  <2>1. h = config.hidden
    BY DEF IsSized
  <2> QED
    BY <1>15, <2>1, LayerWeights
<1>17. Attention(l, input) = Projection(flat, wo)
  <2>1. input.shape = <<b, seq, h>>
    BY DEF Numeric
  <2> QED
    BY <1>4, <1>7, <1>9, <1>11, <1>13, <1>15, <2>1, Zenon DEF Attention
<1> QED
  BY <1>1, <1>14, <1>16, <1>17, ProjectionStays

-----------------------------------------------------------------------------
(* The feed-forward, a layer, and the texts themselves.                    *)

LEMMA GatedWideStays ==
    ASSUME NEW b \in Nat \ {0}, NEW seq \in Nat \ {0}, NEW inter \in Nat \ {0}, inter = config.inter,
           NEW wide, Numeric(wide, <<b, seq, 2 * inter>>)
    PROVE  Numeric(GatedWide(wide), <<b, seq, inter>>)
<1>1. PICK n \in Nat \ {0} : n = 2 * inter /\ 0 + inter <= n /\ inter + inter <= n
  OBVIOUS
<1>2. PICK gate, up : gate = Narrow(wide, -1, 0, inter) /\ up = Narrow(wide, -1, inter, inter)
  OBVIOUS
<1>3. Numeric(gate, <<b, seq, inter>>) /\ Numeric(up, <<b, seq, inter>>)
  <2>1. 0 \in Nat /\ inter \in Nat
    OBVIOUS
  <2> QED
    BY <1>1, <1>2, <2>1, ColumnsTaken
<1>4. PICK shape : shape = <<b, seq, inter>>
  OBVIOUS
<1>5. shape \in Seq(Nat)
  BY <1>4
<1>6. PICK active : active = Map1(LAMBDA a : Act(config, a), gate)
  OBVIOUS
<1>7. Numeric(active, shape)
  BY <1>3, <1>4, <1>5, <1>6, ActivatedStays
<1>8. Numeric(Mul(active, up), shape)
  BY <1>3, <1>4, <1>5, <1>7, MulStays
<1>9. GatedWide(wide) = Mul(active, up)
  BY <1>2, <1>6, Zenon DEF GatedWide
<1> QED
  BY <1>4, <1>8, <1>9

LEMMA MlpStays ==
    ASSUME IsLoaded, NEW b \in Nat \ {0}, NEW seq \in Nat \ {0}, NEW h \in Nat \ {0}, h = config.hidden,
           NEW l \in 0..config.layers - 1, NEW x, Numeric(x, <<b, seq, h>>)
    PROVE  Numeric(Mlp(l, x), <<b, seq, h>>)
<1>1. PICK inter \in Nat \ {0} : inter = config.inter
  BY DEF IsLoaded, IsConfig
<1>2. PICK n \in Nat \ {0} : n = 2 * inter /\ 0 + inter <= n /\ inter + inter <= n
  OBVIOUS
<1>3. PICK wi, wo : wi = Weight(LayerName(l, "mlp.Wi")) /\ wo = Weight(LayerName(l, "mlp.Wo"))
  OBVIOUS
<1>4. Numeric(wi, <<n, h>>) /\ Numeric(wo, <<h, inter>>)
  BY <1>1, <1>2, <1>3, LayerWeights
<1>5. PICK shape : shape = <<b, seq, inter>>
  OBVIOUS
<1>6. shape \in Seq(Nat)
  BY <1>5
<1>7. ASSUME NEW gated, Numeric(gated, shape), Mlp(l, x) = Projection(gated, wo)
      PROVE  Numeric(Mlp(l, x), <<b, seq, h>>)
  BY <1>4, <1>5, <1>7, ProjectionStays
<1>8. CASE Path = "f32"
  <2>1. PICK gate, up : gate = Linear(x, Narrow(wi, 0, 0, inter)) /\ up = Linear(x, Narrow(wi, 0, inter, inter))
    OBVIOUS
  <2>2. Numeric(gate, shape) /\ Numeric(up, shape)
    <3>1. Numeric(Narrow(wi, 0, 0, inter), <<inter, h>>) /\ Numeric(Narrow(wi, 0, inter, inter), <<inter, h>>)
      BY <1>2, <1>4, RowsTaken
    <3> QED
      BY <1>5, <2>1, <3>1, LinearStays
  <2>3. PICK active : active = Map1(LAMBDA a : Act(config, a), gate)
    OBVIOUS
  <2>4. Numeric(Mul(active, up), shape)
    <3>1. Numeric(active, shape)
      BY <1>6, <2>2, <2>3, ActivatedStays
    <3> QED
      BY <1>6, <2>2, <3>1, MulStays
  <2>5. Mlp(l, x) = Projection(Mul(active, up), wo)
    BY <1>1, <1>3, <1>8, <2>1, <2>3, Zenon DEF Mlp
  <2> QED
    BY <1>7, <2>4, <2>5
<1>9. CASE Path = "dense"
  <2>1. PICK wide : wide = Linear(x, wi)
    OBVIOUS
  <2>2. Numeric(wide, <<b, seq, 2 * inter>>)
    BY <1>2, <1>4, <2>1, LinearStays
  <2>3. Numeric(GatedWide(wide), shape)
    BY <1>1, <1>5, <2>2, GatedWideStays
  <2>4. Mlp(l, x) = Projection(GatedWide(wide), wo)
    <3>1. Path # "f32"
      BY <1>9
    <3> QED
      BY <1>3, <1>9, <2>1, <3>1, Zenon DEF Mlp
  <2> QED
    BY <1>7, <2>3, <2>4
<1>10. CASE Path = "bf16"
  <2>1. PICK wide : wide = Projection(x, wi)
    OBVIOUS
  <2>2. PICK rows \in Nat : rows = b * seq
    OBVIOUS
  <2>3. Elements(x) \div config.hidden = rows
    BY <2>2, RowsAre
  <2>4. \A i \in 0..rows * (2 * inter) - 1 : wide.data[i] \in Numbers
    <3>1. Numeric(wide, <<b, seq, n>>)
      BY <1>4, <2>1, ProjectionStays
    <3>2. wide.data \in [0..(b * seq) * n - 1 -> Numbers]
      BY <3>1, RowsAre
    <3> QED
      BY <1>2, <2>2, <3>2
  <2>5. PICK data : data = Geglu(wide.data, rows, inter)
    OBVIOUS
  <2>6. data \in [0..rows * inter - 1 -> Numbers]
    BY <2>4, <2>5, GegluStays
  <2>7. PICK gated : gated = Tensor(shape, data)
    OBVIOUS
  <2>8. Numeric(gated, shape)
    <3>1. Product(shape) = rows * inter
      BY <1>5, <2>2, ProductOf3
    <3>2. gated.shape = shape /\ gated.data = data
      BY <1>6, <2>7, TensorIs
    <3> QED
      BY <2>6, <3>1, <3>2 DEF Numeric
  <2>9. Mlp(l, x) = Projection(gated, wo)
    <3>1. Path # "f32" /\ Path # "dense"
      BY <1>10
    <3>2. [x.shape EXCEPT ![Len(x.shape)] = inter] = shape
      BY <1>5 DEF Numeric
    <3> QED
      BY <1>1, <1>3, <1>10, <2>1, <2>3, <2>5, <2>7, <3>1, <3>2, Zenon DEF Mlp
  <2> QED
    BY <1>7, <2>8, <2>9
<1> QED
  BY <1>8, <1>9, <1>10, PathIs DEF IsLoaded, Paths

LEMMA NormStays ==
    ASSUME IsLoaded, NEW b \in Nat \ {0}, NEW seq \in Nat \ {0}, NEW h \in Nat \ {0},
           NEW name, Has(name, <<h>>), NEW x, Numeric(x, <<b, seq, h>>)
    PROVE  Numeric(Norm(name, x), <<b, seq, h>>)
<1>1. PICK gamma : gamma = Weight(name)
  OBVIOUS
<1>2. Numeric(gamma, <<h>>)
  BY <1>1, ReadsNumbers
<1>3. PICK eps \in Numbers : eps = config.eps
  BY DEF IsLoaded, IsConfig
<1>4. Norm(name, x) = LayerNorm(x, gamma, eps)
  BY <1>1, <1>3, Zenon DEF Norm
<1> QED
  BY <1>2, <1>4, LayerNormStays

LEMMA LayerStays ==
    ASSUME IsLoaded, NEW b, NEW seq, NEW heads, NEW half, NEW h, IsSized(b, seq, heads, half, h),
           NEW l \in 0..config.layers - 1, NEW x, Numeric(x, <<b, seq, h>>)
    PROVE  Numeric(Layer(l, x), <<b, seq, h>>)
<1>1. b \in Nat \ {0} /\ seq \in Nat \ {0} /\ h \in Nat \ {0} /\ config.hidden = h
  BY DEF IsSized
<1>2. PICK shape : shape = <<b, seq, h>>
  OBVIOUS
<1>3. shape \in Seq(Nat)
  BY <1>1, <1>2
<1>4. PICK normed : normed = IF HasAttnNorm(l) THEN Norm(LayerName(l, "attn_norm"), x) ELSE x
  OBVIOUS
<1>5. Numeric(normed, <<b, seq, h>>)
  <2>1. CASE HasAttnNorm(l)
    <3>1. Has(LayerName(l, "attn_norm"), <<h>>)
      BY <1>1, <2>1, Zenon DEF HasAttnNorm
    <3> QED
      BY <1>1, <1>4, <2>1, <3>1, NormStays
  <2>2. CASE ~HasAttnNorm(l)
    BY <1>4, <2>2
  <2> QED
    BY <2>1, <2>2
<1>6. PICK attended : attended = Attention(l, normed)
  OBVIOUS
<1>7. PICK mid : mid = Add(x, attended)
  OBVIOUS
<1>8. Numeric(mid, shape)
  <2>1. Numeric(attended, shape)
    BY <1>2, <1>5, <1>6, AttentionStays
  <2> QED
    BY <1>2, <1>3, <1>7, <2>1, AddStays
<1>9. PICK inner : inner = Norm(LayerName(l, "mlp_norm"), mid)
  OBVIOUS
<1>10. Numeric(inner, <<b, seq, h>>)
  <2>1. PICK gamma : gamma = Weight(LayerName(l, "mlp_norm"))
    OBVIOUS
  <2>2. Numeric(gamma, <<h>>)
    BY <1>1, <2>1, LayerWeights
  <2>3. PICK eps \in Numbers : eps = config.eps
    BY DEF IsLoaded, IsConfig
  <2>4. inner = LayerNorm(mid, gamma, eps)
    BY <1>9, <2>1, <2>3, Zenon DEF Norm
  <2> QED
    BY <1>1, <1>2, <1>8, <2>2, <2>4, LayerNormStays
<1>11. Numeric(Mlp(l, inner), shape)
  BY <1>1, <1>2, <1>10, MlpStays
<1>12. Numeric(Add(mid, Mlp(l, inner)), shape)
  BY <1>3, <1>8, <1>11, AddStays
<1>13. Layer(l, x) = Add(mid, Mlp(l, inner))
  BY <1>4, <1>6, <1>7, <1>9, Zenon DEF Layer
<1> QED
  BY <1>2, <1>12, <1>13

\* The longest text of a batch is one of them.
LEMMA LongestIs ==
    ASSUME NEW batch \in Seq(Seq(Nat)), Len(batch) > 0, \A r \in DOMAIN batch : Len(batch[r]) > 0
    PROVE  Longest(batch) \in Nat \ {0} /\ \A r \in DOMAIN batch : Len(batch[r]) <= Longest(batch)
<1> DEFINE f == [r \in 1..Len(batch) |-> Len(batch[r])]
           lengths == {Len(batch[r]) : r \in DOMAIN batch}
           IsLongest(n) == \A r \in DOMAIN batch : Len(batch[r]) <= n
<1>1. DOMAIN batch = 1..Len(batch) /\ Len(batch) \in Nat
  OBVIOUS
<1>2. \A r \in DOMAIN batch : Len(batch[r]) \in Nat
  OBVIOUS
<1>3. lengths \in SUBSET Nat /\ lengths # {}
  <2>1. 1 \in DOMAIN batch
    BY <1>1
  <2> QED
    BY <1>2, <2>1
<1>4. IsFiniteSet(lengths)
  <2>1. IsFiniteSet(1..Len(batch))
    BY <1>1, FS_Interval
  <2>2. lengths = {f[r] : r \in 1..Len(batch)}
    BY <1>1
  <2>3. f \in Surjection(1..Len(batch), lengths)
    <3>1. f \in [1..Len(batch) -> lengths]
      BY <1>1
    <3>2. \A t \in lengths : \E r \in 1..Len(batch) : f[r] = t
      BY <1>1
    <3> QED
      BY <3>1, <3>2, Fun_IsSurj
  <2> QED
    BY <2>1, <2>3, FS_Surjection
<1>5. PICK bound \in Nat : \A x \in lengths : x <= bound
  BY <1>3, <1>4, FiniteIsBounded
<1>6. PICK n \in lengths : \A x \in lengths : x <= n
  BY <1>3, <1>5, GreatestNat
<1>7. n \in lengths /\ IsLongest(n)
  BY <1>6
<1>8. Longest(batch) = CHOOSE m \in lengths : IsLongest(m)
  BY Zenon DEF Longest
<1>9. Longest(batch) \in lengths /\ IsLongest(Longest(batch))
  <2> HIDE DEF lengths, IsLongest
  <2> QED
    BY <1>7, <1>8
<1> QED
  BY <1>2, <1>9

\* The ids a table is read at have a row there, those of padding too.
LEMMA IdsAre ==
    ASSUME NEW batch \in Seq(Seq(Nat)), NEW seq \in Nat, seq = Longest(batch), NEW vocab \in Nat \ {0},
           \A r \in DOMAIN batch : \A k \in DOMAIN batch[r] : batch[r][k] < vocab
    PROVE  /\ Ids(batch).shape = <<Len(batch), seq>>
           /\ \A i \in 0..Len(batch) * seq - 1 : Ids(batch).data[i] \in 0..vocab - 1
<1>1. PICK b \in Nat : b = Len(batch) /\ DOMAIN batch = 1..b
  OBVIOUS
<1> DEFINE id(r, q) == IF q < Len(batch[r]) THEN batch[r][q + 1] ELSE 0
           at(i) == id(i \div seq + 1, i % seq)
<1>2. PICK shape, data : shape = <<b, seq>> /\ data = [i \in 0..b * seq - 1 |-> at(i)]
  OBVIOUS
<1>3. Ids(batch) = Tensor(shape, data)
  BY <1>1, <1>2, Zenon DEF Ids
<1>4. shape \in Seq(Nat)
  BY <1>2
<1>5. Ids(batch).shape = shape /\ Ids(batch).data = data
  BY <1>3, <1>4, TensorIs
<1>6. ASSUME NEW i \in 0..b * seq - 1 PROVE at(i) \in 0..vocab - 1
  <2>1. PICK r \in 0..b - 1, q \in 0..seq - 1 : r = i \div seq /\ q = i % seq
    BY RowPlace
  <2>2. at(i) = id(r + 1, q)
    BY <2>1
  <2>3. r + 1 \in DOMAIN batch
    BY <1>1
  <2>4. PICK text \in Seq(Nat) : text = batch[r + 1]
    BY <2>3
  <2>5. id(r + 1, q) \in 0..vocab - 1
    <3>1. CASE q < Len(text)
      <4>1. q + 1 \in DOMAIN text
        BY <3>1
      <4>2. text[q + 1] \in Nat /\ text[q + 1] < vocab
        BY <2>3, <2>4, <4>1, SMTT(40)
      <4>3. PICK v \in Nat : v = text[q + 1] /\ v < vocab
        BY <4>2
      <4>4. id(r + 1, q) = v
        BY <2>4, <3>1, <4>3, Zenon
      <4> HIDE DEF id
      <4> QED
        BY <4>3, <4>4, SMTT(40)
    <3>2. CASE ~(q < Len(text))
      BY <2>4, <3>2
    <3> QED
      BY <3>1, <3>2
  <2> QED
    BY <2>2, <2>5
<1> HIDE DEF at
<1> QED
  BY <1>1, <1>2, <1>5, <1>6

-----------------------------------------------------------------------------
(* The invariant, and the theorem.                                         *)

\* Once a forward is under way its texts are a batch's, and the hidden states
\* are numbers: one vector of the hidden size for every place of every text.
NumbersInv ==
    /\ \E d \in Deployments : backend = d[1] /\ config = d[2]
    /\ checkpoint \in Checkpoints
    /\ pc \in {"load", "ready", "work", "done", "failed"}
    /\ layers \in Nat
    /\ pc \in {"load", "ready", "failed"} => xs = Scalar(0)
    /\ pc \in {"ready", "work", "done"} => IsLoaded
    /\ pc \in {"work", "done"} => texts \in Batches /\ Numeric(xs, <<Len(texts), SeqLen, config.hidden>>)

\* No checkpoint, config or backend changes under a forward.
LEMMA LoadedStays ==
    ASSUME IsLoaded, UNCHANGED <<backend, config, checkpoint>>
    PROVE  IsLoaded'
<1>1. backend' = backend /\ config' = config /\ checkpoint' = checkpoint
  OBVIOUS
<1>2. ASSUME NEW l PROVE LayerTensors(l)' = LayerTensors(l)
  BY <1>1, Zenon DEF LayerTensors
<1>3. Required' = Required
  BY <1>1, <1>2, Zenon DEF Required
<1>4. ASSUME NEW name, NEW shape PROVE Has(name, shape)' = Has(name, shape)
  BY <1>1, Zenon DEF Has, StoredName, Wrapped
<1>5. \A t \in Required' : Has(t[1], t[2])'
  BY <1>3, <1>4, Zenon DEF IsLoaded
<1>6. backend' \in Backends /\ IsConfig(config') /\ checkpoint' \in Checkpoints
  BY <1>1, Zenon DEF IsLoaded
<1> QED
  BY <1>5, <1>6, Zenon DEF IsLoaded

LEMMA ConfigIs ==
    ASSUME \E d \in Deployments : backend = d[1] /\ config = d[2]
    PROVE  backend \in Backends /\ IsConfig(config)
<1>1. PICK d \in Deployments : backend = d[1] /\ config = d[2]
  OBVIOUS
<1>2. d[1] \in Backends /\ IsConfig(d[2])
  BY DeploymentsAreSound, Zenon DEF Backends
<1> QED
  BY <1>1, <1>2, Zenon

LEMMA NumbersInvInit == Init => NumbersInv
<1>1. 0 \in Nat
  OBVIOUS
<1> SUFFICES ASSUME Init PROVE NumbersInv
  OBVIOUS
<1>2. pc = "load" /\ layers = 0 /\ xs = Scalar(0) /\ checkpoint \in Checkpoints
      /\ \E d \in Deployments : backend = d[1] /\ config = d[2]
  BY Zenon DEF Init
<1>3. pc \notin {"ready", "work", "done"}
  BY <1>2
<1> QED
  BY <1>1, <1>2, <1>3, Zenon DEF NumbersInv

LEMMA LoadKeepsNumbers == NumbersInv /\ Load => NumbersInv'
<1> SUFFICES ASSUME NumbersInv, Load PROVE NumbersInv'
  OBVIOUS
<1>1. /\ pc = "load" /\ UNCHANGED <<backend, config, checkpoint, texts, layers, xs>>
      /\ pc' = IF \A t \in Required : Has(t[1], t[2]) THEN "ready" ELSE "failed"
  BY DEF Load
<1>2. xs' = Scalar(0)
  BY <1>1 DEF NumbersInv
<1>3. CASE \A t \in Required : Has(t[1], t[2])
  <2>1. IsLoaded
    BY <1>3, ConfigIs, Zenon DEF IsLoaded, NumbersInv
  <2>2. pc' = "ready"
    BY <1>1, <1>3, Zenon
  <2>3. IsLoaded'
    BY <1>1, <2>1, LoadedStays
  <2> QED
    BY <1>1, <1>2, <2>2, <2>3 DEF NumbersInv
<1>4. CASE ~(\A t \in Required : Has(t[1], t[2]))
  <2>1. pc' = "failed"
    BY <1>1, <1>4, Zenon
  <2> QED
    BY <1>1, <1>2, <2>1 DEF NumbersInv
<1> QED
  BY <1>3, <1>4

\* The batch a forward is given, and the sizes it runs at.
LEMMA BatchIs ==
    ASSUME NEW batch \in Batches, NEW d \in Deployments
    PROVE  /\ Len(batch) \in Nat \ {0} /\ Longest(batch) \in Nat \ {0} /\ batch \in Seq(Seq(Nat))
           /\ \A r \in DOMAIN batch : \A k \in DOMAIN batch[r] : batch[r][k] < d[2].vocab
<1>1. batch \in Seq(Seq(Nat)) /\ Len(batch) > 0 /\ \A r \in DOMAIN batch : Len(batch[r]) > 0
  BY TextsAreTokens
<1>2. \A r \in DOMAIN batch : \A k \in DOMAIN batch[r] : batch[r][k] < d[2].vocab
  BY TextsAreTokens
<1>3. Longest(batch) \in Nat \ {0}
  BY <1>1, LongestIs
<1> QED
  BY <1>1, <1>2, <1>3

LEMMA SizesAre ==
    ASSUME IsLoaded, NEW b \in Nat \ {0}, NEW seq \in Nat \ {0}, SeqLen = seq
    PROVE  \E heads, half, h : IsSized(b, seq, heads, half, h)
<1>1. PICK heads \in Nat \ {0}, h \in Nat : heads = config.heads /\ h = config.hidden
  BY DEF IsLoaded, IsConfig
<1>2. PICK half \in 1..h : h = heads * (2 * half)
  BY <1>1 DEF IsLoaded, IsConfig
<1>3. h \in Nat \ {0} /\ half \in Nat \ {0}
  OBVIOUS
<1> QED
  BY <1>1, <1>2, <1>3, Zenon DEF IsSized

LEMMA EmbedKeepsNumbers == NumbersInv /\ Embed => NumbersInv'
<1> SUFFICES ASSUME NumbersInv, Embed PROVE NumbersInv'
  OBVIOUS
<1>1. pc = "ready" /\ texts' \in Batches /\ pc' = "work" /\ UNCHANGED <<backend, config, checkpoint, layers>>
  BY DEF Embed
<1>2. IsLoaded
  BY <1>1 DEF NumbersInv
<1>3. PICK d \in Deployments : backend = d[1] /\ config = d[2]
  BY DEF NumbersInv
<1>4. PICK batch \in Batches : batch = texts'
  BY <1>1
<1>5. PICK b \in Nat \ {0}, seq \in Nat \ {0} : b = Len(batch) /\ seq = Longest(batch)
  BY <1>3, BatchIs
<1>6. PICK vocab \in Nat \ {0} : vocab = config.vocab
  BY <1>2 DEF IsLoaded, IsConfig
<1>7. PICK h \in Nat \ {0} : h = config.hidden
  <2>1. config.hidden \in Nat /\ \E half \in 1..config.hidden : TRUE
    BY <1>2 DEF IsLoaded, IsConfig
  <2> QED
    BY <2>1
<1>8. PICK ids : ids = Ids(batch)
  OBVIOUS
<1>9. ids.shape = <<b, seq>> /\ \A i \in 0..b * seq - 1 : ids.data[i] \in 0..vocab - 1
  <2>1. batch \in Seq(Seq(Nat)) /\ \A r \in DOMAIN batch : \A k \in DOMAIN batch[r] : batch[r][k] < vocab
    BY <1>3, <1>6, BatchIs
  <2> QED
    BY <1>5, <1>8, <2>1, IdsAre
<1>10. /\ Has("embeddings.tok_embeddings.weight", <<vocab, h>>)
       /\ Has("embeddings.norm.weight", <<h>>)
  <2>1. PICK t, u : t = <<"embeddings.tok_embeddings.weight", <<vocab, h>>>> /\ u = <<"embeddings.norm.weight", <<h>>>>
    OBVIOUS
  <2>2. t \in Required /\ u \in Required
    BY <1>6, <1>7, <2>1, Zenon DEF Required
  <2>3. Has(t[1], t[2]) /\ Has(u[1], u[2])
    BY <1>2, <2>2 DEF IsLoaded
  <2>4. /\ t[1] = "embeddings.tok_embeddings.weight" /\ t[2] = <<vocab, h>>
        /\ u[1] = "embeddings.norm.weight" /\ u[2] = <<h>>
    BY <2>1
  <2> QED
    BY <2>3, <2>4, Zenon
<1>11. PICK table : table = Weight("embeddings.tok_embeddings.weight")
  OBVIOUS
<1>12. Numeric(table, <<vocab, h>>)
  BY <1>2, <1>10, <1>11, ReadsNumbers
<1>13. PICK rows : rows = GatherRows(table, ids)
  OBVIOUS
<1>14. Numeric(rows, <<b, seq, h>>)
  BY <1>9, <1>12, <1>13, GatherStays
<1>15. xs' = Norm("embeddings.norm.weight", rows)
  BY <1>4, <1>8, <1>11, <1>13, Zenon DEF Embed
<1>16. Numeric(xs', <<b, seq, h>>)
  BY <1>2, <1>10, <1>14, <1>15, NormStays
<1>17. Len(texts') = b /\ SeqLen' = seq /\ config'.hidden = h
  BY <1>1, <1>4, <1>5, <1>7 DEF SeqLen
<1>18. IsLoaded'
  BY <1>1, <1>2, LoadedStays
<1>19. Numeric(xs', <<Len(texts'), SeqLen', config'.hidden>>)
  BY <1>16, <1>17, Zenon
<1> QED
  BY <1>1, <1>18, <1>19 DEF NumbersInv

\* What a forward that is under way is of.
LEMMA UnderWay ==
    ASSUME NumbersInv, pc = "work"
    PROVE  /\ IsLoaded
           /\ \E b, seq, heads, half, h : /\ IsSized(b, seq, heads, half, h)
                                          /\ b = Len(texts) /\ Numeric(xs, <<b, seq, h>>)
<1>1. IsLoaded /\ texts \in Batches /\ Numeric(xs, <<Len(texts), SeqLen, config.hidden>>)
  BY DEF NumbersInv
<1>2. PICK d \in Deployments : backend = d[1] /\ config = d[2]
  BY DEF NumbersInv
<1>3. PICK b \in Nat \ {0}, seq \in Nat \ {0} : b = Len(texts) /\ seq = SeqLen
  BY <1>1, <1>2, BatchIs DEF SeqLen
<1>4. PICK heads, half, h : IsSized(b, seq, heads, half, h)
  BY <1>1, <1>3, SizesAre
<1>5. h = config.hidden
  BY <1>4 DEF IsSized
<1>6. Numeric(xs, <<b, seq, h>>)
  BY <1>1, <1>3, <1>5, Zenon
<1> QED
  BY <1>1, <1>3, <1>4, <1>6

LEMMA RunLayerKeepsNumbers == NumbersInv /\ RunLayer => NumbersInv'
<1> SUFFICES ASSUME NumbersInv, RunLayer PROVE NumbersInv'
  OBVIOUS
<1>1. /\ pc = "work" /\ layers < config.layers /\ xs' = Layer(layers, xs) /\ layers' = layers + 1
      /\ UNCHANGED <<backend, config, checkpoint, pc, texts>>
  BY DEF RunLayer
<1>2. PICK b, seq, heads, half, h : IsSized(b, seq, heads, half, h) /\ b = Len(texts) /\ Numeric(xs, <<b, seq, h>>)
  BY <1>1, UnderWay
<1>3. IsLoaded
  BY <1>1, UnderWay
<1>4. layers \in 0..config.layers - 1 /\ layers' \in Nat
  <2>1. config.layers \in Nat /\ layers \in Nat
    BY <1>3 DEF IsLoaded, IsConfig, NumbersInv
  <2> QED
    BY <1>1, <2>1
<1>5. Numeric(xs', <<b, seq, h>>)
  BY <1>1, <1>2, <1>3, <1>4, LayerStays
<1>6. Len(texts') = b /\ SeqLen' = seq /\ config'.hidden = h
  BY <1>1, <1>2 DEF IsSized, SeqLen
<1>7. Numeric(xs', <<Len(texts'), SeqLen', config'.hidden>>)
  BY <1>5, <1>6, Zenon
<1>8. IsLoaded'
  BY <1>1, <1>3, LoadedStays
<1>9. texts' \in Batches
  BY <1>1 DEF NumbersInv
<1> QED
  BY <1>1, <1>4, <1>7, <1>8, <1>9 DEF NumbersInv

LEMMA FinishKeepsNumbers == NumbersInv /\ Finish => NumbersInv'
<1> SUFFICES ASSUME NumbersInv, Finish PROVE NumbersInv'
  OBVIOUS
<1>1. /\ pc = "work" /\ xs' = Norm("final_norm.weight", xs) /\ pc' = "done"
      /\ UNCHANGED <<backend, config, checkpoint, texts, layers>>
  BY DEF Finish
<1>2. PICK b, seq, heads, half, h : IsSized(b, seq, heads, half, h) /\ b = Len(texts) /\ Numeric(xs, <<b, seq, h>>)
  BY <1>1, UnderWay
<1>3. IsLoaded
  BY <1>1, UnderWay
<1>4. b \in Nat \ {0} /\ seq \in Nat \ {0} /\ h \in Nat \ {0} /\ h = config.hidden
  BY <1>2 DEF IsSized
<1>5. Has("final_norm.weight", <<h>>)
  <2>1. PICK t : t = <<"final_norm.weight", <<h>>>>
    OBVIOUS
  <2>2. t \in Required
    BY <1>4, <2>1, Zenon DEF Required
  <2>3. Has(t[1], t[2])
    BY <1>3, <2>2 DEF IsLoaded
  <2>4. t[1] = "final_norm.weight" /\ t[2] = <<h>>
    BY <2>1
  <2> QED
    BY <2>3, <2>4, Zenon
<1>6. Numeric(xs', <<b, seq, h>>)
  BY <1>1, <1>2, <1>3, <1>4, <1>5, NormStays
<1>7. Len(texts') = b /\ SeqLen' = seq /\ config'.hidden = h
  BY <1>1, <1>2 DEF IsSized, SeqLen
<1>8. Numeric(xs', <<Len(texts'), SeqLen', config'.hidden>>)
  BY <1>6, <1>7, Zenon
<1>9. IsLoaded'
  BY <1>1, <1>3, LoadedStays
<1>10. texts' \in Batches
  BY <1>1 DEF NumbersInv
<1> QED
  BY <1>1, <1>8, <1>9, <1>10 DEF NumbersInv

LEMMA NumbersInvStep == NumbersInv /\ [Next]_vars => NumbersInv'
<1> SUFFICES ASSUME NumbersInv, [Next]_vars PROVE NumbersInv'
  OBVIOUS
<1>1. CASE Load
  BY <1>1, LoadKeepsNumbers
<1>2. CASE Embed
  BY <1>2, EmbedKeepsNumbers
<1>3. CASE RunLayer
  BY <1>3, RunLayerKeepsNumbers
<1>4. CASE Finish
  BY <1>4, FinishKeepsNumbers
<1>5. CASE UNCHANGED vars
  <2>1. /\ backend' = backend /\ config' = config /\ checkpoint' = checkpoint /\ pc' = pc
        /\ texts' = texts /\ layers' = layers /\ xs' = xs
    BY <1>5 DEF vars
  <2>2. SeqLen' = SeqLen
    BY <2>1 DEF SeqLen
  <2>3. IsLoaded => IsLoaded'
    BY <2>1, LoadedStays
  <2> QED
    BY <2>1, <2>2, <2>3, Zenon DEF NumbersInv
<1> QED
  BY <1>1, <1>2, <1>3, <1>4, <1>5 DEF Next

LEMMA ZeroIsANumber == \A i \in DOMAIN Scalar(0).data : Scalar(0).data[i] = 0
<1>1. PICK s, data : s = <<>> /\ data = [i \in {0} |-> 0]
  OBVIOUS
<1>2. s \in Seq(Nat)
  BY <1>1
<1>4. Scalar(0) = Tensor(s, data)
  BY <1>1, Zenon DEF Scalar
<1>3. Scalar(0).data = data
  BY <1>2, <1>4, TensorIs
<1> QED
  BY <1>1, <1>3

LEMMA NumbersInvNoNaN == NumbersInv => NoNaN
<1> SUFFICES ASSUME NumbersInv, NEW i \in DOMAIN xs.data PROVE IsNumber(xs.data[i])
  BY DEF NoNaN
<1>1. CASE pc \in {"load", "ready", "failed"}
  <2>1. xs = Scalar(0)
    BY <1>1 DEF NumbersInv
  <2>2. xs.data[i] = 0
    BY <2>1, ZeroIsANumber
  <2> QED
    BY <2>2 DEF IsNumber
<1>2. CASE pc \in {"work", "done"}
  <2>1. Numeric(xs, <<Len(texts), SeqLen, config.hidden>>)
    BY <1>2 DEF NumbersInv
  <2>2. PICK n : n = Product(<<Len(texts), SeqLen, config.hidden>>)
    OBVIOUS
  <2>3. xs.data \in [0..n - 1 -> Numbers]
    BY <2>1, <2>2, Zenon DEF Numeric
  <2>4. xs.data[i] \in Numbers
    BY <2>3
  <2> QED
    BY <2>4, NumbersAre DEF IsNumber
<1> QED
  BY <1>1, <1>2 DEF NumbersInv

\* A forward never makes a NaN or an infinity, in the rows of padding neither,
\* on any backend, whatever the batch, the window, the budget of a block and
\* the size of a tile (encoder.rs, on the clamp of the fused kernel's mask;
\* attention.rs on its blocks; bf16/gemm.rs and bf16/softmax.rs on the lanes
\* past the end of a row).
THEOREM NoEncoderMakesNaN == Spec => []NoNaN
<1>1. Init => NumbersInv
  BY NumbersInvInit
<1>2. NumbersInv /\ [Next]_vars => NumbersInv'
  BY NumbersInvStep
<1>3. NumbersInv => NoNaN
  BY NumbersInvNoNaN
<1> QED
  BY <1>1, <1>2, <1>3, PTL DEF Spec
=============================================================================
