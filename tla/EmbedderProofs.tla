---------------------------- MODULE EmbedderProofs ----------------------------
(***************************************************************************)
(* First, that no split point shows in a result, for every length, window, *)
(* block width, budget, batch size and set of buckets: attention in blocks *)
(* is attention, and stays within the budget; and what comes out of a      *)
(* forward of padded rows are the results the rows would have had alone,   *)
(* each at its place, with every row of the call in some forward. Starts   *)
(* are multiples of a width that is a variable, so they rest on what     *)
(* CollectionFacts has about division.                                     *)
(*                                                                         *)
(* Then the life of an embedder: a known digest is the loaded weights'     *)
(* own, whoever replaces the checkpoint and when, for any number of        *)
(* versions, and a run which answers has the weights it was told to        *)
(* expect; and every text of the call gets its own result, by forwards     *)
(* that stay within the budget.                                            *)
(***************************************************************************)
EXTENDS Embedder, CollectionFacts

Windows == Nat \union {NoWindow}

-----------------------------------------------------------------------------
(* Blocks.                                                                 *)

\* One start, and one only, is the last at or before a query.
LEMMA OneStart ==
    ASSUME NEW seq \in Nat \ {0}, NEW w \in Nat \ {0}, NEW q \in 0..seq - 1
    PROVE  \E s \in Starts(seq, w) :
              /\ s <= q /\ q < s + w
              /\ \A t \in Starts(seq, w) : t <= q /\ q < t + w => t = s
<1>1. PICK k \in Nat, r \in 0..w - 1 : r = q % w /\ q = w * k + r
  BY q \in Nat, Remainder
<1>2. w * k \in Nat /\ w * k <= q /\ q < w * k + w
  BY <1>1
<1>3. w * k \in Starts(seq, w)
  <2>1. PICK s : s = w * k
    OBVIOUS
  <2>2. s % w = 0
    BY <2>1, RemainderOfMultiple
  <2>3. s \in 0..seq - 1
    BY <1>2, <2>1
  <2> QED
    BY <2>1, <2>2, <2>3 DEF Starts
<1>4. ASSUME NEW t \in Starts(seq, w), t <= q, q < t + w
      PROVE  t = w * k
  <2>1. PICK d \in Nat : t = w * d
    <3>1. t \in Nat /\ t % w = 0
      BY DEF Starts
    <3>2. PICK d \in Nat, e \in 0..w - 1 : e = t % w /\ t = w * d + e
      BY <3>1, Remainder
    <3> QED
      BY <3>1, <3>2
  <2>2. w * d \in Nat
    OBVIOUS
  <2>3. ~(k < d)
    BY <1>2, <1>4, <2>1, <2>2, NextMultiple
  <2>4. ~(d < k)
    BY <1>2, <1>4, <2>1, <2>2, NextMultiple
  <2> QED
    BY <2>1, <2>3, <2>4
<1> QED
  BY <1>2, <1>3, <1>4

\* Every query is in one block, and in one only; the block lies in the matrix,
\* is no wider than asked, and has every key or the window's.
LEMMA OneBlock ==
    ASSUME NEW seq \in Nat \ {0}, NEW width \in Nat \ {0}, NEW window \in Windows,
           NEW q \in 0..seq - 1
    PROVE  \E b \in Blocks(seq, width, window) :
              /\ b = BlockOf(Blocks(seq, width, window), q)
              /\ b.q0 \in 0..q /\ b.queries \in 1..width
              /\ q < b.q0 + b.queries /\ b.q0 + b.queries <= seq
              /\ b = IF window = NoWindow THEN Tile(seq, b.q0, b.queries)
                                          ELSE Band(seq, b.q0, b.queries, window)
<1> DEFINE step == Clamp(seq, width)
           queries(q0) == AtMost(step, seq - q0)
           block(q0) == IF window = NoWindow THEN Tile(seq, q0, queries(q0))
                                             ELSE Band(seq, q0, queries(q0), window)
<1>1. step \in Nat \ {0} /\ step <= width
  BY DEF Clamp, AtMost, AtLeast
<1>2. Blocks(seq, width, window) = {block(q0) : q0 \in Starts(seq, step)}
  BY DEF Blocks
<1>3. ASSUME NEW q0 \in Starts(seq, step)
      PROVE  /\ block(q0).q0 = q0 /\ block(q0).queries = queries(q0)
             /\ queries(q0) \in 1..step /\ q0 + queries(q0) <= seq
             /\ Holds(block(q0), q) <=> q0 <= q /\ q < q0 + step
  BY <1>1 DEF Starts, AtMost, Tile, Band, Holds
<1> HIDE DEF step, queries, block
<1>4. PICK s \in Starts(seq, step) :
         /\ s <= q /\ q < s + step
         /\ \A t \in Starts(seq, step) : t <= q /\ q < t + step => t = s
  BY <1>1, OneStart
<1>5. Holds(block(s), q) /\ \A t \in Starts(seq, step) : Holds(block(t), q) => t = s
  BY <1>3, <1>4
<1>6. block(s) = BlockOf(Blocks(seq, width, window), q)
  BY <1>2, <1>5 DEF BlockOf
<1>7. block(s) = IF window = NoWindow THEN Tile(seq, block(s).q0, block(s).queries)
                                      ELSE Band(seq, block(s).q0, block(s).queries, window)
  BY <1>3 DEF block
<1>8. /\ block(s).q0 \in 0..q /\ block(s).queries \in 1..width
      /\ q < block(s).q0 + block(s).queries /\ block(s).q0 + block(s).queries <= seq
  BY <1>1, <1>3, <1>5 DEF Holds, Starts
<1> QED
  BY <1>2, <1>6, <1>7, <1>8

\* The band of a block has every key that the window opens for a query of it,
\* and the view of the mask table that goes with it is inside the table and
\* opens the same keys as the mask computed for the block would.
LEMMA BandHasTheWindow ==
    ASSUME NEW seq \in Nat \ {0}, NEW w \in Nat, NEW q0 \in Nat, NEW queries \in 1..BandBlock,
           q0 + queries <= seq
    PROVE  /\ \A q \in q0..q0 + queries - 1 : \A k \in InWindow(seq, w, q) :
                  k \in Band(seq, q0, queries, w).k0
                       ..Band(seq, q0, queries, w).k0 + Band(seq, q0, queries, w).keys - 1
           /\ Band(seq, q0, queries, w).k0 + Band(seq, q0, queries, w).keys <= seq
           /\ ViewInTable(Band(seq, q0, queries, w), w)
BY BandBlockIsPositive, NoWindowIsNone DEF InWindow, Band, AtMost, AtLeast, ViewInTable

\* Inside a block that has the window's keys, every way to the mask opens the
\* keys of the window.
LEMMA MaskIsTheWindow ==
    ASSUME NEW path \in {"f32", "bf16", "dense"}, NEW seq \in Nat \ {0}, NEW window \in Windows,
           NEW b, b.q0 \in Nat, b.queries \in Nat, b.k0 \in Nat, b.keys \in Nat,
           NEW q \in b.q0..b.q0 + b.queries - 1,
           InWindow(seq, window, q) \subseteq b.k0..b.k0 + b.keys - 1,
           b.k0 + b.keys <= seq
    PROVE  OpenKeys(path, b, seq, window, q) = InWindow(seq, window, q)
<1>1. ASSUME NEW j \in 0..b.keys - 1
      PROVE  Open(path, b, seq, window, q - b.q0, j) <=> b.k0 + j \in InWindow(seq, window, q)
  <2>1. CASE window = NoWindow
    BY <2>1 DEF Open, InWindow
  <2>2. CASE window # NoWindow
    BY <2>2, NoWindowIsNone DEF Open, InWindow, TableOpen, MaskOpen, Windows
  <2> QED
    BY <2>1, <2>2
<1>2. ASSUME NEW k \in InWindow(seq, window, q)
      PROVE  k - b.k0 \in 0..b.keys - 1 /\ k = b.k0 + (k - b.k0)
  <2>1. k \in Nat
    BY DEF InWindow
  <2>2. k \in b.k0..b.k0 + b.keys - 1
    OBVIOUS
  <2> QED
    BY <2>1, <2>2
<1> QED
  BY <1>1, <1>2 DEF OpenKeys

\* The one block of a layer that is not split holds every query.
LEMMA FullIsWhole ==
    ASSUME NEW seq \in Nat \ {0}, NEW q \in 0..seq - 1
    PROVE  BlockOf({Tile(seq, 0, seq)}, q) = Tile(seq, 0, seq)
BY DEF BlockOf, Holds, Tile

\* "This is the dense computation, not an approximation of it" (attend_blocked,
\* src/encoder.rs): in blocks or whole, banded or not, by table, mask or full
\* matrix, a query attends to exactly the keys its window and the padding
\* leave it, at every length, for every window, budget and block width.
THEOREM AttentionIsDense ==
    ASSUME NEW path \in {"f32", "bf16", "dense"}, NEW seq \in Nat \ {0}, NEW window \in Windows,
           NEW budget \in Nat \ {0}, NEW n \in 0..seq, NEW q \in 0..seq - 1
    PROVE  Attend(path, seq, window, budget, n, q) = Dense(seq, window, n, q)
<1> DEFINE b == BlockOf(Plan(path, seq, window, budget), q)
<1>1. /\ b.q0 \in Nat /\ b.queries \in Nat /\ b.k0 \in Nat /\ b.keys \in Nat
      /\ q \in b.q0..b.q0 + b.queries - 1
      /\ InWindow(seq, window, q) \subseteq b.k0..b.k0 + b.keys - 1
      /\ b.k0 + b.keys <= seq
  <2>1. CASE path = "dense" \/ (path = "bf16" /\ ~Banded(seq, window))
    <3>1. b = Tile(seq, 0, seq)
      BY <2>1, FullIsWhole DEF Plan
    <3> QED
      BY <3>1 DEF Tile, InWindow
  <2>2. CASE path = "f32" /\ ~Banded(seq, window)
    <3>1. QueryTile(seq, budget) \in Nat \ {0}
      BY DEF QueryTile, AtLeast
    <3>2. b = BlockOf(Blocks(seq, QueryTile(seq, budget), NoWindow), q)
      BY <2>2 DEF Plan
    <3>3. PICK c \in Blocks(seq, QueryTile(seq, budget), NoWindow) :
             /\ c = BlockOf(Blocks(seq, QueryTile(seq, budget), NoWindow), q)
             /\ c.q0 \in 0..q /\ c.queries \in 1..QueryTile(seq, budget)
             /\ q < c.q0 + c.queries /\ c.q0 + c.queries <= seq
             /\ c = Tile(seq, c.q0, c.queries)
      <4>1. NoWindow \in Windows
        BY DEF Windows
      <4> QED
        BY <3>1, <4>1, OneBlock
    <3>4. b = c
      BY <3>2, <3>3
    <3> QED
      BY <3>1, <3>3, <3>4 DEF Tile, InWindow
  <2>3. CASE path # "dense" /\ Banded(seq, window)
    <3>1. window \in Nat /\ window # NoWindow
      BY <2>3 DEF Banded, Windows
    <3>2. b = BlockOf(Blocks(seq, BandBlock, window), q)
      BY <2>3 DEF Plan
    <3>3. /\ b.q0 \in 0..q /\ b.queries \in 1..BandBlock
          /\ q < b.q0 + b.queries /\ b.q0 + b.queries <= seq
          /\ b = Band(seq, b.q0, b.queries, window)
      BY <3>1, <3>2, OneBlock, BandBlockIsPositive DEF Windows
    <3>4. b.k0 \in Nat /\ b.keys \in Nat
      BY <3>1, <3>3, BandBlockIsPositive DEF Band, AtLeast, AtMost
    <3>5. InWindow(seq, window, q) \subseteq b.k0..b.k0 + b.keys - 1 /\ b.k0 + b.keys <= seq
      BY <3>1, <3>3, BandHasTheWindow, BandBlockIsPositive
    <3> QED
      BY <3>3, <3>4, <3>5, BandBlockIsPositive
  <2> QED
    BY <2>1, <2>2, <2>3
<1> HIDE DEF b
<1>2. OpenKeys(path, b, seq, window, q) = InWindow(seq, window, q)
  BY <1>1, MaskIsTheWindow
<1> QED
  BY <1>2 DEF b, Attend, Dense

-----------------------------------------------------------------------------
(* The size of the scores.                                                 *)

\* Blocks are no larger than the matrix, nor than their width asks for.
LEMMA BlockSizes ==
    ASSUME NEW seq \in Nat \ {0}, NEW width \in Nat \ {0}, NEW window \in Windows,
           NEW b \in Blocks(seq, width, window)
    PROVE  /\ b.queries \in 1..width /\ b.queries <= seq
           /\ b.keys \in Nat /\ b.keys <= seq
           /\ window # NoWindow => b.keys <= width + 2 * window
<1> DEFINE step == Clamp(seq, width)
<1>1. step \in Nat \ {0} /\ step <= width /\ step <= seq
  BY DEF Clamp, AtMost, AtLeast
<1>2. PICK q0 \in Starts(seq, step) :
         b = IF window = NoWindow THEN Tile(seq, q0, AtMost(step, seq - q0))
                                  ELSE Band(seq, q0, AtMost(step, seq - q0), window)
  BY DEF Blocks
<1> HIDE DEF step
<1>3. q0 \in 0..seq - 1
  BY DEF Starts
<1>4. AtMost(step, seq - q0) \in 1..width /\ AtMost(step, seq - q0) <= seq - q0
  BY <1>1, <1>3 DEF AtMost
<1>5. CASE window = NoWindow
  BY <1>2, <1>3, <1>4, <1>5 DEF Tile
<1>6. CASE window # NoWindow
  <2>1. window \in Nat
    BY <1>6 DEF Windows
  <2>2. b = Band(seq, q0, AtMost(step, seq - q0), window)
    BY <1>2, <1>6
  <2> HIDE DEF AtMost
  <2>3. PICK queries : queries = AtMost(step, seq - q0)
    OBVIOUS
  <2> QED
    BY <1>3, <1>4, <2>1, <2>2, <2>3 DEF Band, AtMost, AtLeast
<1> QED
  BY <1>5, <1>6

\* "Neither regime holds more than ATTN_BUDGET scores per head" (src/model.rs):
\* the rows of a forward and the blocks its attention is computed in keep
\* the scores in the budget together, at every length a row of scores fits
\* the budget, for every budget that holds one band.
THEOREM ForwardStaysInBudget ==
    ASSUME NEW budget \in Nat \ {0}, NEW seq \in 1..budget, NEW window \in Windows,
           window # NoWindow => BandBlock * (BandBlock + 2 * window) <= budget,
           NEW rows \in 1..RowsPerForward(seq, budget),
           NEW size \in Scratch("f32", rows, seq, window, budget)
    PROVE  size <= budget
<1>1. PICK b \in Plan("f32", seq, window, budget) : size = rows * b.queries * b.keys
  BY DEF Scratch
<1>2. QueryTile(seq, budget) \in Nat \ {0} /\ seq * QueryTile(seq, budget) <= budget
  <2>1. PICK k \in Nat : k = budget \div seq /\ seq * k <= budget
    BY Quotient
  <2>2. QueryTile(seq, budget) = IF k > 1 THEN k ELSE 1
    BY <2>1 DEF QueryTile, AtLeast
  <2> QED
    BY <2>1, <2>2
<1>3. /\ b.queries \in Nat /\ b.queries <= seq /\ b.keys \in Nat /\ b.keys <= seq
      /\ b.queries * b.keys <= budget
  <2>1. CASE Banded(seq, window)
    <3>1. window \in Nat /\ window # NoWindow
      BY <2>1 DEF Banded, Windows
    <3>2. b \in Blocks(seq, BandBlock, window)
      BY <2>1 DEF Plan
    <3>3. /\ b.queries \in 1..BandBlock /\ b.queries <= seq /\ b.keys \in Nat /\ b.keys <= seq
          /\ b.keys <= BandBlock + 2 * window
      BY <3>1, <3>2, BlockSizes, BandBlockIsPositive
    <3>4. b.queries * b.keys <= BandBlock * (BandBlock + 2 * window)
      BY <3>1, <3>3, ProductGrows, BandBlockIsPositive
    <3>5. BandBlock * (BandBlock + 2 * window) \in Nat
      BY <3>1, BandBlockIsPositive
    <3> QED
      BY <3>1, <3>3, <3>4, <3>5
  <2>2. CASE ~Banded(seq, window)
    <3>1. b \in Blocks(seq, QueryTile(seq, budget), NoWindow)
      BY <2>2 DEF Plan
    <3>2. /\ b.queries \in 1..QueryTile(seq, budget) /\ b.queries <= seq
          /\ b.keys \in Nat /\ b.keys <= seq
      <4>1. NoWindow \in Windows
        BY DEF Windows
      <4> QED
        BY <1>2, <3>1, <4>1, BlockSizes
    <3>3. b.keys * b.queries <= seq * QueryTile(seq, budget)
      BY <1>2, <3>2, ProductGrows
    <3> QED
      BY <1>2, <3>2, <3>3
  <2> QED
    BY <2>1, <2>2
<1>4. PICK all \in Nat : all = seq * seq /\ all > 0 /\ b.queries * b.keys <= all
  BY <1>3, ProductGrows
<1>5. PICK k \in Nat : k = budget \div all /\ all * k <= budget
  BY <1>4, Quotient
<1>6. rows \in Nat /\ (rows = 1 \/ rows <= k)
  BY <1>4, <1>5 DEF RowsPerForward, AtLeast
<1>7. CASE rows = 1
  BY <1>1, <1>3, <1>7
<1>8. CASE rows <= k
  <2>1. PICK scores \in Nat : scores = b.queries * b.keys
    BY <1>3, ProductGrows
  <2>2. rows * scores <= k * all
    BY <1>4, <1>6, <1>8, <2>1, ProductGrows
  <2>3. size = rows * scores
    BY <1>1, <1>3, <1>6, <2>1
  <2> QED
    BY <1>4, <1>5, <2>2, <2>3
<1> QED
  BY <1>6, <1>7, <1>8

-----------------------------------------------------------------------------
(* One forward.                                                            *)

\* Place k of row a of a matrix that is w wide, flat.
LEMMA FlatIndex ==
    ASSUME NEW a \in Nat, NEW w \in Nat \ {0}, NEW k \in 0..w - 1
    PROVE  /\ a * w + k \in Nat
           /\ (a * w + k) \div w = a /\ (a * w + k) % w = k
<1>1. a * w \in Nat /\ a * w = w * a
  OBVIOUS
<1>2. PICK x \in Nat : x = a * w + k
  BY <1>1
<1>3. PICK d : d = x \div w
  OBVIOUS
<1>4. PICK r : r = x % w
  OBVIOUS
<1>5. d \in Nat /\ r \in 0..w - 1
  BY <1>2, <1>3, <1>4
<1>6. x = w * d + r
  BY <1>3, <1>4, <1>5
<1>7. w * d \in Nat /\ w * a \in Nat
  BY <1>5
<1>8. ~(a < d) /\ ~(d < a)
  <2>1. a < d => w * a + w <= w * d
    BY <1>5, NextMultiple
  <2>2. d < a => w * d + w <= w * a
    BY <1>5, NextMultiple
  <2> QED
    BY <1>1, <1>2, <1>5, <1>6, <1>7, <2>1, <2>2
<1>9. d = a
  BY <1>5, <1>8
<1> QED
  BY <1>1, <1>2, <1>3, <1>4, <1>6, <1>7, <1>9

\* Of rows r rows, the flat place is in the first rows * w.
LEMMA FlatInRange ==
    ASSUME NEW rows \in Nat, NEW w \in Nat \ {0}, NEW r \in 0..rows - 1, NEW k \in 0..w - 1
    PROVE  r * w + k \in 0..rows * w - 1
<1>1. w * r + w <= w * rows
  BY NextMultiple
<1>2. r * w = w * r /\ rows * w = w * rows /\ w * r \in Nat /\ w * rows \in Nat
  OBVIOUS
<1> QED
  BY <1>1, <1>2

\* A batch as bucket and run_rows make them: rows of the call, each padded to
\* a length that takes it. A unit is some of the rows of a batch.
BatchOf(lens, b) ==
    /\ b.rows \in Nat \ {0} /\ b.seq \in Nat \ {0}
    /\ b.orig \in [1..b.rows -> DOMAIN lens] /\ Len(b.orig) = b.rows
    /\ \A r \in 1..b.rows : lens[b.orig[r]] <= b.seq
    /\ b.ids = Padded(lens, b.orig, b.seq)

UnitOf(lens, u) ==
    /\ BatchOf(lens, u.batch)
    /\ u.nr \in Nat /\ u.start \in 0..u.batch.rows - 1
    /\ u.rows \in 1..u.batch.rows - u.start

IdsOf(u) == Slice(u.batch.ids, u.start * u.batch.seq, (u.start + u.rows) * u.batch.seq)

\* What is at place k of row r of a unit: a token of the row's own text, and
\* after its last one padding.
LEMMA IdsAreTheRows ==
    ASSUME NEW lens \in Seq(Nat \ {0}), NEW u, UnitOf(lens, u),
           NEW r \in 0..u.rows - 1, NEW k \in 0..u.batch.seq - 1
    PROVE  /\ OrigOf(u, r) \in DOMAIN lens
           /\ lens[OrigOf(u, r)] \in 1..u.batch.seq
           /\ IdsOf(u)[r * u.batch.seq + k] = IF k < lens[OrigOf(u, r)] THEN <<OrigOf(u, r), k>> ELSE Pad
<1> DEFINE b == u.batch
           seq == u.batch.seq
<1>1. /\ b.rows \in Nat \ {0} /\ seq \in Nat \ {0}
      /\ b.orig \in [1..b.rows -> DOMAIN lens] /\ Len(b.orig) = b.rows
      /\ \A j \in 1..b.rows : lens[b.orig[j]] <= seq
      /\ b.ids = Padded(lens, b.orig, seq)
      /\ u.start \in 0..b.rows - 1 /\ u.rows \in 1..b.rows - u.start
  BY DEF UnitOf, BatchOf
<1>0. PICK rows \in Nat, start \in Nat, n \in Nat, w \in Nat \ {0} :
         rows = u.rows /\ start = u.start /\ n = b.rows /\ w = seq
  <2>1. PICK n \in Nat, w \in Nat \ {0} : n = b.rows /\ w = seq
    BY <1>1
  <2>2. PICK start \in Nat : start = u.start /\ start < n
    BY <1>1, <2>1
  <2>3. PICK rows \in Nat : rows = u.rows
    BY <1>1, <2>1, <2>2
  <2> QED
    BY <2>1, <2>2, <2>3
<1>01. rows \in 1..n - start /\ r \in 0..rows - 1 /\ k \in 0..w - 1
  BY <1>0, <1>1
<1>2. start + r \in 0..n - 1 /\ start + r + 1 \in 1..n
  BY <1>01
<1>3. /\ OrigOf(u, r) = b.orig[u.start + r + 1] /\ OrigOf(u, r) \in DOMAIN lens
      /\ lens[OrigOf(u, r)] \in 1..seq
  <2>1. OrigOf(u, r) = b.orig[u.start + r + 1] /\ OrigOf(u, r) \in DOMAIN lens
    BY <1>0, <1>1, <1>2 DEF OrigOf
  <2>2. lens[OrigOf(u, r)] <= seq
    BY <1>0, <1>1, <1>2, <2>1
  <2>3. lens[OrigOf(u, r)] \in Nat \ {0}
    BY <2>1
  <2>4. \A x \in Nat \ {0} : x <= w => x \in 1..w
    OBVIOUS
  <2> QED
    BY <1>0, <2>1, <2>2, <2>3, <2>4
<1>4. r * w + k \in 0..rows * w - 1
  BY <1>01, FlatInRange
<1>5. /\ (start + rows) * w - start * w = rows * w
      /\ start * w + (r * w + k) = (start + r) * w + k
  <2>1. r \in Nat /\ k \in Nat
    BY <1>01
  <2>2. (start + rows) * w = start * w + rows * w /\ (start + r) * w = start * w + r * w
    BY <2>1
  <2>3. start * w \in Nat /\ rows * w \in Nat /\ r * w \in Nat
    BY <2>1
  <2> QED
    BY <2>1, <2>2, <2>3
<1>6. IdsOf(u)[r * w + k] = b.ids[(start + r) * w + k]
  <2> DEFINE from == start * w
             to == (start + rows) * w
  <2>1. IdsOf(u) = [x \in 0..to - from - 1 |-> b.ids[from + x]]
    BY <1>0 DEF IdsOf, Slice
  <2>2. r * w + k \in 0..to - from - 1 /\ from + (r * w + k) = (start + r) * w + k
    BY <1>4, <1>5
  <2> HIDE DEF from, to
  <2> QED
    BY <2>1, <2>2
<1>7. (start + r) * w + k \in 0..n * w - 1
  BY <1>01, <1>2, FlatInRange
<1>8. ((start + r) * w + k) \div w = start + r /\ ((start + r) * w + k) % w = k
  <2>1. PICK a \in Nat : a = start + r
    BY <1>2
  <2>2. (a * w + k) \div w = a /\ (a * w + k) % w = k
    BY <1>01, FlatIndex
  <2> QED
    BY <2>1, <2>2
<1>9. b.ids[(start + r) * w + k] = IF k < lens[OrigOf(u, r)] THEN <<OrigOf(u, r), k>> ELSE Pad
  <2> DEFINE x == (start + r) * w + k
  <2>1. b.ids = [y \in 0..n * w - 1 |->
                    LET i == b.orig[y \div w + 1]
                    IN IF y % w < lens[i] THEN <<i, y % w>> ELSE Pad]
    BY <1>0, <1>1 DEF Padded
  <2>2. x \in 0..n * w - 1 /\ x \div w = start + r /\ x % w = k
    BY <1>7, <1>8
  <2> HIDE DEF x
  <2>3. b.ids[x] = LET i == b.orig[x \div w + 1]
                   IN IF x % w < lens[i] THEN <<i, x % w>> ELSE Pad
    BY <2>1, <2>2
  <2> QED
    BY <1>0, <1>3, <2>2, <2>3 DEF x
<1> QED
  BY <1>0, <1>3, <1>6, <1>9

\* Pad is no token, so the mask is open exactly at the tokens.
LEMMA MaskIsTheTokens ==
    ASSUME NEW lens \in Seq(Nat \ {0}), NEW u, UnitOf(lens, u),
           NEW r \in 0..u.rows - 1, NEW k \in 0..u.batch.seq - 1
    PROVE  IdsOf(u)[r * u.batch.seq + k] # Pad <=> k < lens[OrigOf(u, r)]
<1>1. OrigOf(u, r) \in Nat
  <2>1. OrigOf(u, r) \in DOMAIN lens
    BY IdsAreTheRows
  <2> QED
    BY <2>1
<1>2. <<OrigOf(u, r), k>> # Pad
  <2>1. k \in Nat
    BY DEF UnitOf, BatchOf
  <2> QED
    BY <1>1, <2>1, PadIsNoToken
<1> QED
  BY <1>2, IdsAreTheRows

\* What a window leaves of the first len tokens, to the query at place q.
Near(len, window, q) == {k \in 0..len - 1 : window = NoWindow \/ q - k \in -window..window}

\* How many tokens the mask leaves of row r of a unit, and those that the
\* query at place q of it attends to.
TokensOf(u, r) == Cardinality({k \in 0..u.batch.seq - 1 : IdsOf(u)[r * u.batch.seq + k] # Pad})

Attended(device, u, r, window, q) ==
    {IdsOf(u)[r * u.batch.seq + k] :
        k \in Attend(Path(device), u.batch.seq, window, BudgetOf(device), TokensOf(u, r), q)}

\* A query that is a token attends to the tokens of its own text that are in
\* its window, whatever the backend and however long the row was padded.
LEMMA AttendsToItsOwn ==
    ASSUME NEW lens \in Seq(Nat \ {0}), NEW u, UnitOf(lens, u), NEW device \in Backends,
           NEW r \in 0..u.rows - 1, NEW q \in 0..lens[OrigOf(u, r)] - 1,
           NEW window \in {NoWindow, Window}
    PROVE  Attended(device, u, r, window, q)
           = {<<OrigOf(u, r), k>> : k \in Near(lens[OrigOf(u, r)], window, q)}
<1> DEFINE seq == u.batch.seq
           ids == IdsOf(u)
           i == OrigOf(u, r)
           len == lens[i]
           n == TokensOf(u, r)
<1>1. seq \in Nat \ {0}
  BY DEF UnitOf, BatchOf
<1>2. len \in 1..seq
  <2>1. 0 \in 0..seq - 1
    BY <1>1
  <2> QED
    BY <2>1, IdsAreTheRows
<1>3. \A k \in 0..seq - 1 : (ids[r * seq + k] # Pad <=> k < len) /\ (k < len => ids[r * seq + k] = <<i, k>>)
  BY IdsAreTheRows, MaskIsTheTokens
<1>4. n = len
  <2>0. n = Cardinality({k \in 0..seq - 1 : ids[r * seq + k] # Pad})
    BY DEF TokensOf
  <2> HIDE DEF n, ids, len, seq
  <2>1. {k \in 0..seq - 1 : ids[r * seq + k] # Pad} = {k \in 0..seq - 1 : k < len}
    BY <1>3
  <2>2. {k \in 0..seq - 1 : k < len} = 0..len - 1
    BY <1>1, <1>2
  <2>3. Cardinality(0..len - 1) = len
    <3>1. 0 \in Int /\ len - 1 \in Int /\ ~(0 > len - 1) /\ len - 1 - 0 + 1 = len
      BY <1>2
    <3> QED
      BY <3>1, FS_Interval
  <2> QED
    BY <2>0, <2>1, <2>2, <2>3
<1>5. Attend(Path(device), seq, window, BudgetOf(device), n, q) = Near(len, window, q)
  <2>1. Path(device) \in {"f32", "bf16", "dense"} /\ BudgetOf(device) \in Nat \ {0}
    BY BudgetsArePositive DEF Backends, Path, BudgetOf
  <2>2. window \in Windows
    BY WindowIsNat DEF Windows
  <2> HIDE DEF n, len, seq
  <2>3. len \in 0..seq /\ q \in 0..seq - 1
    BY <1>1, <1>2 DEF len
  <2>4. Attend(Path(device), seq, window, BudgetOf(device), len, q) = Dense(seq, window, len, q)
    BY <1>1, <2>1, <2>2, <2>3, AttentionIsDense
  <2>5. {k \in InWindow(seq, window, q) : k < len} = Near(len, window, q)
    BY <1>1, <1>2 DEF InWindow, Near
  <2>6. q \in Near(len, window, q)
    <3>1. q \in 0..len - 1 /\ q - q = 0
      BY <2>3 DEF len
    <3>2. window # NoWindow => 0 \in -window..window
      BY WindowIsNat
    <3> QED
      BY <3>1, <3>2 DEF Near
  <2>7. Dense(seq, window, len, q) = Near(len, window, q)
    BY <2>5, <2>6 DEF Dense, Softmax
  <2> QED
    BY <1>4, <2>4, <2>7
<1>6. \A k \in Near(len, window, q) : ids[r * seq + k] = <<i, k>>
  <2> HIDE DEF ids, len, seq, i
  <2>1. \A k \in Near(len, window, q) : k \in 0..seq - 1 /\ k < len
    BY <1>1, <1>2 DEF Near
  <2> QED
    BY <1>3, <2>1
<1> HIDE DEF n, ids, len, seq, i
<1>7. {ids[r * seq + k] : k \in Attend(Path(device), seq, window, BudgetOf(device), n, q)}
      = {<<i, k>> : k \in Near(len, window, q)}
  BY <1>5, <1>6
<1> QED
  BY <1>7 DEF Attended, n, ids, len, seq, i

\* The hidden state at a token's place.
HiddenOf(lens, i, q) ==
    <<<<i, q>>, {<<i, k>> : k \in Near(lens[i], NoWindow, q)}, {<<i, k>> : k \in Near(lens[i], Window, q)}>>

LEMMA HiddenIsItsOwn ==
    ASSUME NEW lens \in Seq(Nat \ {0}), NEW u, UnitOf(lens, u), NEW device \in Backends,
           NEW r \in 0..u.rows - 1, NEW q \in 0..lens[OrigOf(u, r)] - 1
    PROVE  Forward(device, IdsOf(u), u.rows, u.batch.seq)[r * u.batch.seq + q]
           = HiddenOf(lens, OrigOf(u, r), q)
<1> DEFINE seq == u.batch.seq
           ids == IdsOf(u)
           i == OrigOf(u, r)
<1>0. u.rows \in Nat /\ seq \in Nat \ {0} /\ lens[i] \in 1..seq
  <2>1. u.rows \in Nat /\ seq \in Nat \ {0}
    BY DEF UnitOf, BatchOf
  <2>2. 0 \in 0..seq - 1
    BY <2>1
  <2> QED
    BY <2>1, <2>2, IdsAreTheRows
<1>1. r \in Nat /\ q \in 0..seq - 1
  BY <1>0
<1>2. r * seq + q \in 0..u.rows * seq - 1
  BY <1>0, <1>1, FlatInRange
<1>3. (r * seq + q) \div seq = r /\ (r * seq + q) % seq = q
  BY <1>0, <1>1, FlatIndex
<1>4. Forward(device, ids, u.rows, seq) =
        [x \in 0..u.rows * seq - 1 |->
            <<ids[(x \div seq) * seq + (x % seq)], Attended(device, u, x \div seq, NoWindow, x % seq),
              Attended(device, u, x \div seq, Window, x % seq)>>]
  BY DEF Forward, Attended, TokensOf
<1>5. ids[r * seq + q] = <<i, q>>
  <2>1. IdsOf(u)[r * u.batch.seq + q] = IF q < lens[OrigOf(u, r)] THEN <<OrigOf(u, r), q>> ELSE Pad
    <3>1. q \in 0..u.batch.seq - 1
      BY <1>1
    <3> QED
      BY <3>1, IdsAreTheRows
  <2>2. q < lens[OrigOf(u, r)]
    BY <1>0
  <2> QED
    BY <2>1, <2>2
<1>6. /\ Attended(device, u, r, NoWindow, q) = {<<i, k>> : k \in Near(lens[i], NoWindow, q)}
      /\ Attended(device, u, r, Window, q) = {<<i, k>> : k \in Near(lens[i], Window, q)}
  BY AttendsToItsOwn
<1> HIDE DEF ids, i, seq
<1>7. Forward(device, ids, u.rows, seq)[r * seq + q]
      = <<ids[r * seq + q], Attended(device, u, r, NoWindow, q), Attended(device, u, r, Window, q)>>
  BY <1>2, <1>3, <1>4
<1>8. Forward(device, ids, u.rows, seq)[r * seq + q] = HiddenOf(lens, i, q)
  BY <1>5, <1>6, <1>7 DEF HiddenOf
<1> QED
  BY <1>8 DEF ids, i, seq

\* What comes out of a forward is each row's own result, at its place.
LEMMA RunIsAlone ==
    ASSUME NEW lens \in Seq(Nat \ {0}), NEW u, UnitOf(lens, u), NEW device \in Backends,
           NEW a \in Run(device, u)
    PROVE  a[1] \in DOMAIN lens /\ a[2] = Alone(a[1], lens[a[1]])
<1> DEFINE seq == u.batch.seq
           ids == IdsOf(u)
           hidden == Forward(device, ids, u.rows, seq)
           mask(row) == [q \in 0..seq - 1 |-> ids[row * seq + q] # Pad]
           row(r) == Slice(hidden, r * seq, (r + 1) * seq)
<1>1. PICK r \in 0..u.rows - 1 : a = <<OrigOf(u, r), Reduce(row(r), mask(r))>>
  BY DEF Run, IdsOf
<1> DEFINE i == OrigOf(u, r)
           len == lens[i]
<1>2. seq \in Nat \ {0} /\ r \in Nat
  BY DEF UnitOf, BatchOf
<1>3. i \in DOMAIN lens /\ len \in 1..seq
  <2>1. 0 \in 0..seq - 1
    BY <1>2
  <2> QED
    BY <2>1, IdsAreTheRows
<1>4. \A k \in 0..seq - 1 : ids[r * seq + k] # Pad <=> k < len
  BY MaskIsTheTokens
<1>5. \A q \in 0..len - 1 : hidden[r * seq + q] = HiddenOf(lens, i, q)
  BY HiddenIsItsOwn
<1> HIDE DEF hidden, ids, len, seq, i
<1>6. {q \in DOMAIN mask(r) : mask(r)[q]} = 0..len - 1
  <2>1. {q \in DOMAIN mask(r) : mask(r)[q]} = {q \in 0..seq - 1 : ids[r * seq + q] # Pad}
    OBVIOUS
  <2>2. {q \in 0..seq - 1 : ids[r * seq + q] # Pad} = {q \in 0..seq - 1 : q < len}
    BY <1>4
  <2>3. {q \in 0..seq - 1 : q < len} = 0..len - 1
    BY <1>2, <1>3
  <2> QED
    BY <2>1, <2>2, <2>3
<1>7. \A q \in 0..len - 1 : row(r)[q] = HiddenOf(lens, i, q)
  <2>1. r * seq \in Nat /\ (r + 1) * seq \in Nat /\ (r + 1) * seq - r * seq = seq
    BY <1>2
  <2>2. PICK from \in Nat, to \in Nat : from = r * seq /\ to = (r + 1) * seq
    BY <2>1
  <2>3. row(r) = [x \in 0..to - from - 1 |-> hidden[from + x]]
    BY <2>2 DEF Slice
  <2>4. to - from = seq /\ \A q \in 0..len - 1 : q \in 0..seq - 1
    BY <1>2, <1>3, <2>1, <2>2
  <2> QED
    BY <1>5, <2>2, <2>3, <2>4
<1>8. Reduce(row(r), mask(r)) = {HiddenOf(lens, i, q) : q \in 0..len - 1}
  <2>1. Reduce(row(r), mask(r)) = {row(r)[q] : q \in 0..len - 1}
    BY <1>6 DEF Reduce
  <2> HIDE DEF row, mask
  <2> QED
    BY <1>7, <2>1
<1>9. {HiddenOf(lens, i, q) : q \in 0..len - 1} = Alone(i, len)
  <2> DEFINE near(q) == {k \in 0..len - 1 : q - k \in -Window..Window}
  <2>1. ASSUME NEW q \in 0..len - 1
        PROVE  Near(len, NoWindow, q) = 0..len - 1 /\ Near(len, Window, q) = near(q)
    BY NoWindowIsNone, WindowIsNat DEF Near
  <2>2. Alone(i, len) = {<<<<i, q>>, {<<i, k>> : k \in 0..len - 1}, {<<i, k>> : k \in near(q)}>> : q \in 0..len - 1}
    BY DEF Alone
  <2>3. ASSUME NEW q \in 0..len - 1
        PROVE  HiddenOf(lens, i, q) = <<<<i, q>>, {<<i, k>> : k \in 0..len - 1}, {<<i, k>> : k \in near(q)}>>
    <3> HIDE DEF near
    <3> QED
      BY <2>1 DEF HiddenOf, len
  <2> HIDE DEF near
  <2> QED
    BY <2>2, <2>3
<1> HIDE DEF row, mask
<1>10. a = <<i, Alone(i, len)>>
  BY <1>1, <1>8, <1>9 DEF i
<1> QED
  BY <1>3, <1>10 DEF len, i

-----------------------------------------------------------------------------
(* bucket, and the units of run_batches and run_rows.                      *)

\* bucket sorts: each row has one place in the order, and no row is followed
\* by a shorter one.
LEMMA OrderIsSorted ==
    ASSUME NEW lens \in Seq(Nat \ {0})
    PROVE  /\ Order(lens) \in [1..Len(lens) -> 1..Len(lens)]
           /\ \A i \in 1..Len(lens) : \E p \in 1..Len(lens) : Order(lens)[p] = i
           /\ \A p, q \in 1..Len(lens) : p <= q => lens[Order(lens)[p]] <= lens[Order(lens)[q]]
<1> DEFINE n == Len(lens)
           R == {pair \in (1..n) \X (1..n) : Before(lens, pair[1], pair[2])}
<1>1. n \in Nat /\ DOMAIN lens = 1..n /\ \A i \in 1..n : lens[i] \in Nat
  OBVIOUS
<1>2. \A i, j \in 1..n : <<i, j>> \in R <=> Before(lens, i, j)
  OBVIOUS
<1> HIDE DEF n, R
<1>3. StrictOrder(n, R)
  BY <1>1, <1>2 DEF StrictOrder, Before
<1>4. \E f \in [1..n -> 1..n] : Follows(f, n, R)
  BY <1>1, <1>3, SortExists
<1>5. ASSUME NEW f \in [1..n -> 1..n]
      PROVE  Follows(f, n, R) <=> \A p, q \in 1..n : p < q => Before(lens, f[p], f[q])
  BY <1>2 DEF Follows
<1>6. Order(lens) \in [1..n -> 1..n] /\ Follows(Order(lens), n, R)
  BY <1>1, <1>4, <1>5 DEF Order
<1>7. \A i \in 1..n : \E p \in 1..n : Order(lens)[p] = i
  <2> DEFINE f == Order(lens)
  <2>1. n \in Nat /\ f \in [1..n -> 1..n] /\ Follows(f, n, R)
    BY <1>1, <1>6
  <2> HIDE DEF f
  <2>2. EachOnce(f, n)
    BY <1>3, <2>1, SortIsPermutation
  <2> QED
    BY <2>2 DEF f, EachOnce
<1>8. ASSUME NEW p \in 1..n, NEW q \in 1..n, p <= q
      PROVE  lens[Order(lens)[p]] <= lens[Order(lens)[q]]
  <2>1. CASE p = q
    BY <1>1, <1>6, <2>1
  <2>2. CASE p < q
    <3>1. Before(lens, Order(lens)[p], Order(lens)[q])
      BY <1>5, <1>6, <2>2
    <3>2. PICK i \in 1..n, j \in 1..n : i = Order(lens)[p] /\ j = Order(lens)[q]
      BY <1>6
    <3>3. lens[i] < lens[j] \/ lens[i] = lens[j]
      BY <3>1, <3>2 DEF Before
    <3> QED
      BY <1>1, <3>2, <3>3
  <2> QED
    BY <1>8, <2>1, <2>2
<1> QED
  BY <1>6, <1>7, <1>8 DEF n

\* Dividing rounds up: the chunks start inside the sequence, and each place of
\* it is in one.
LEMMA RoundedUp ==
    ASSUME NEW n \in Nat, NEW w \in Nat \ {0}
    PROVE  /\ (n + w - 1) \div w \in Nat
           /\ \A c \in 1..(n + w - 1) \div w : (c - 1) * w \in 0..n - 1 /\ c * w = (c - 1) * w + w
           /\ \A p \in 1..n : \E c \in 1..(n + w - 1) \div w : p - (c - 1) * w \in 1..w
<1>1. PICK a \in Nat : a = n + w - 1
  OBVIOUS
<1>2. PICK d : d = a \div w
  OBVIOUS
<1>3. PICK r : r = a % w
  OBVIOUS
<1>4. d \in Nat /\ r \in 0..w - 1 /\ a = w * d + r
  BY <1>1, <1>2, <1>3
<1>5. ASSUME NEW c \in 1..d
      PROVE  (c - 1) * w \in 0..n - 1 /\ c * w = (c - 1) * w + w
  <2>1. PICK b \in Nat : b = c - 1 /\ b < d
    BY <1>4
  <2>2. w * b + w <= w * d
    BY <1>4, <2>1, NextMultiple
  <2>3. (c - 1) * w = w * b /\ c * w = w * b + w /\ w * b \in Nat /\ w * d \in Nat
    BY <1>4, <2>1
  <2> QED
    BY <1>1, <1>4, <2>2, <2>3
<1>6. ASSUME NEW p \in 1..n
      PROVE  \E c \in 1..d : p - (c - 1) * w \in 1..w
  <2>1. PICK k \in Nat, e \in 0..w - 1 : p - 1 = w * k + e
    <3>1. p - 1 \in Nat
      OBVIOUS
    <3> QED
      BY <3>1, Remainder
  <2>2. w * k \in Nat /\ w * d \in Nat
    BY <1>4
  <2>3. ~(d <= k)
    <3>1. d < k => w * d + w <= w * k
      BY <1>4, NextMultiple
    <3> QED
      BY <1>1, <1>4, <2>1, <2>2, <3>1
  <2>4. k + 1 \in 1..d /\ (k + 1 - 1) * w = w * k
    BY <1>4, <2>3
  <2>5. p - (k + 1 - 1) * w \in 1..w
    BY <2>1, <2>2, <2>4
  <2> QED
    BY <2>4, <2>5
<1> QED
  BY <1>1, <1>2, <1>4, <1>5, <1>6

\* Each chunk is a piece of the sequence, and there is a chunk for each place.
LEMMA ChunksArePieces ==
    ASSUME NEW P, NEW n \in Nat, NEW s \in [1..n -> P], NEW size \in Nat \ {0}
    PROVE  /\ \A c \in DOMAIN Chunks(s, size) : \E from \in 0..n - 1, rows \in 1..n :
                 /\ from + rows <= n
                 /\ Chunks(s, size)[c] \in [1..rows -> P]
                 /\ Len(Chunks(s, size)[c]) = rows
                 /\ \A r \in 1..rows : Chunks(s, size)[c][r] = s[from + r]
           /\ \A p \in 1..n : \E c \in DOMAIN Chunks(s, size) :
                 \E r \in DOMAIN Chunks(s, size)[c] : Chunks(s, size)[c][r] = s[p]
           /\ DOMAIN Chunks(s, size) \subseteq Nat
<1> DEFINE count == (n + size - 1) \div size
<1>1. Len(s) = n /\ s \in Seq(P)
  OBVIOUS
<1>2. Chunks(s, size) = [c \in 1..count |-> SubSeq(s, (c - 1) * size + 1, AtMost(c * size, n))]
  BY <1>1 DEF Chunks
<1>3. /\ count \in Nat
      /\ \A c \in 1..count : (c - 1) * size \in 0..n - 1 /\ c * size = (c - 1) * size + size
      /\ \A p \in 1..n : \E c \in 1..count : p - (c - 1) * size \in 1..size
  BY RoundedUp
<1> HIDE DEF count
<1>4. ASSUME NEW c \in 1..count
      PROVE  \E from \in 0..n - 1, rows \in 1..n :
                /\ from = (c - 1) * size /\ rows = AtMost(size, n - from)
                /\ from + rows <= n
                /\ Chunks(s, size)[c] \in [1..rows -> P]
                /\ Len(Chunks(s, size)[c]) = rows
                /\ \A r \in 1..rows : Chunks(s, size)[c][r] = s[from + r]
  <2>1. PICK from \in 0..n - 1 : from = (c - 1) * size /\ c * size = from + size
    BY <1>3
  <2>2. PICK rows \in 1..n : rows = AtMost(size, n - from) /\ from + rows = AtMost(c * size, n)
    BY <2>1 DEF AtMost
  <2>3. from + rows <= n
    BY <2>1, <2>2 DEF AtMost
  <2>4. Chunks(s, size)[c] = SubSeq(s, from + 1, from + rows)
    BY <1>2, <2>1, <2>2
  <2>5. SubSeq(s, from + 1, from + rows) = [r \in 1..rows |-> s[from + r]]
    <3>1. SubSeq(s, from + 1, from + rows) = [r \in 1..from + rows - (from + 1) + 1 |-> s[from + 1 + r - 1]]
      BY <1>1
    <3>2. from + rows - (from + 1) + 1 = rows /\ \A r \in 1..rows : from + 1 + r - 1 = from + r
      OBVIOUS
    <3> QED
      BY <3>1, <3>2
  <2>6. \A r \in 1..rows : s[from + r] \in P
    BY <2>3
  <2>7. [r \in 1..rows |-> s[from + r]] \in [1..rows -> P]
    BY <2>6
  <2>8. Chunks(s, size)[c] \in [1..rows -> P] /\ \A r \in 1..rows : Chunks(s, size)[c][r] = s[from + r]
    BY <2>4, <2>5, <2>7
  <2>9. Len(Chunks(s, size)[c]) = rows
    BY <2>8
  <2> QED
    BY <2>1, <2>2, <2>3, <2>8, <2>9
<1>5. DOMAIN Chunks(s, size) = 1..count
  BY <1>2
<1>6. ASSUME NEW p \in 1..n
      PROVE  \E c \in DOMAIN Chunks(s, size) :
                \E r \in DOMAIN Chunks(s, size)[c] : Chunks(s, size)[c][r] = s[p]
  <2>1. PICK c \in 1..count : p - (c - 1) * size \in 1..size
    BY <1>3
  <2>2. PICK from \in 0..n - 1, rows \in 1..n :
           /\ from = (c - 1) * size /\ rows = AtMost(size, n - from)
           /\ Chunks(s, size)[c] \in [1..rows -> P]
           /\ \A r \in 1..rows : Chunks(s, size)[c][r] = s[from + r]
    BY <1>4
  <2>3. PICK r \in Nat : r = p - from /\ r \in 1..size
    BY <2>1, <2>2
  <2>4. r \in 1..rows /\ from + r = p
    BY <2>2, <2>3 DEF AtMost
  <2>5. r \in DOMAIN Chunks(s, size)[c]
    BY <2>2, <2>4
  <2>6. Chunks(s, size)[c][r] = s[p]
    BY <2>2, <2>4
  <2> QED
    BY <1>5, <2>5, <2>6
<1>7. \A c \in DOMAIN Chunks(s, size) : \E from \in 0..n - 1, rows \in 1..n :
         /\ from + rows <= n
         /\ Chunks(s, size)[c] \in [1..rows -> P]
         /\ Len(Chunks(s, size)[c]) = rows
         /\ \A r \in 1..rows : Chunks(s, size)[c][r] = s[from + r]
  <2> SUFFICES ASSUME NEW c \in 1..count
               PROVE  \E from \in 0..n - 1, rows \in 1..n :
                         /\ from + rows <= n
                         /\ Chunks(s, size)[c] \in [1..rows -> P]
                         /\ Len(Chunks(s, size)[c]) = rows
                         /\ \A r \in 1..rows : Chunks(s, size)[c][r] = s[from + r]
    BY <1>5
  <2> QED
    BY <1>4
<1>8. DOMAIN Chunks(s, size) \subseteq Nat
  BY <1>3, <1>5
<1> QED
  BY <1>6, <1>7, <1>8

\* The longest of a batch is its last row, since they are sorted.
LEMMA LongestIsTheLast ==
    ASSUME NEW lens \in Seq(Nat \ {0}), NEW rows \in Nat \ {0}, NEW orig \in [1..rows -> DOMAIN lens],
           \A r \in 1..rows : lens[orig[r]] <= lens[orig[rows]]
    PROVE  Longest(lens, orig) = lens[orig[rows]]
<1> DEFINE T == {lens[orig[r]] : r \in DOMAIN orig}
<1>1. T \subseteq Nat /\ lens[orig[rows]] \in T /\ \A y \in T : y <= lens[orig[rows]]
  <2>1. DOMAIN orig = 1..rows /\ rows \in DOMAIN orig
    OBVIOUS
  <2>2. \A r \in 1..rows : lens[orig[r]] \in Nat
    OBVIOUS
  <2> QED
    BY <2>1, <2>2
<1> HIDE DEF T
<1>2. PICK x \in T : x = lens[orig[rows]]
  BY <1>1
<1>3. Max(T) = x
  <2>1. \A y \in T : x >= y
    BY <1>1, <1>2
  <2>2. Max(T) \in T /\ \A y \in T : Max(T) >= y
    BY <2>1 DEF Max
  <2>3. Max(T) \in Nat /\ x \in Nat /\ Max(T) >= x /\ x >= Max(T)
    BY <1>1, <2>1, <2>2
  <2> QED
    BY <2>3
<1> QED
  BY <1>2, <1>3 DEF Longest, T

\* bucket makes batches, as long as one of their rows, and no row of the call
\* is in none of them.
LEMMA BucketMakesBatches ==
    ASSUME NEW lens \in Seq(Nat \ {0}), NEW size \in Nat
    PROVE  /\ DOMAIN Bucket(lens, size) \subseteq Nat
           /\ \A c \in DOMAIN Bucket(lens, size) :
                 /\ BatchOf(lens, Bucket(lens, size)[c])
                 /\ \E i \in DOMAIN lens : Bucket(lens, size)[c].seq = lens[i]
           /\ \A i \in DOMAIN lens : \E c \in DOMAIN Bucket(lens, size) :
                 \E r \in 1..Bucket(lens, size)[c].rows : Bucket(lens, size)[c].orig[r] = i
<1> DEFINE n == Len(lens)
           order == Order(lens)
           w == AtLeast(size, 1)
           chunks == Chunks(order, w)
           batches == Bucket(lens, size)
           batch(orig) == [rows |-> Len(orig), seq |-> Longest(lens, orig), orig |-> orig,
                           ids |-> Padded(lens, orig, Longest(lens, orig))]
<1>1. /\ n \in Nat /\ DOMAIN lens = 1..n /\ w \in Nat \ {0}
      /\ \A i \in 1..n : lens[i] \in Nat \ {0}
  BY DEF AtLeast
<1>2. /\ order \in [1..n -> 1..n]
      /\ \A i \in 1..n : \E p \in 1..n : order[p] = i
      /\ \A p, q \in 1..n : p <= q => lens[order[p]] <= lens[order[q]]
  BY OrderIsSorted
<1>3. batches = [c \in DOMAIN chunks |-> batch(chunks[c])]
  BY DEF Bucket
<1> HIDE DEF n, order, w, batch, batches
<1>4. /\ \A c \in DOMAIN chunks : \E from \in 0..n - 1, rows \in 1..n :
            /\ from + rows <= n
            /\ chunks[c] \in [1..rows -> 1..n]
            /\ Len(chunks[c]) = rows
            /\ \A r \in 1..rows : chunks[c][r] = order[from + r]
      /\ \A p \in 1..n : \E c \in DOMAIN chunks :
            \E r \in DOMAIN chunks[c] : chunks[c][r] = order[p]
      /\ DOMAIN chunks \subseteq Nat
  BY <1>1, <1>2, ChunksArePieces
<1> HIDE DEF chunks
<1>5. DOMAIN batches = DOMAIN chunks /\ \A c \in DOMAIN chunks : batches[c] = batch(chunks[c])
  BY <1>3
<1>6. ASSUME NEW c \in DOMAIN chunks
      PROVE  /\ BatchOf(lens, batches[c])
             /\ \E i \in DOMAIN lens : batches[c].seq = lens[i]
             /\ batches[c].rows = Len(chunks[c]) /\ batches[c].orig = chunks[c]
             /\ DOMAIN chunks[c] = 1..batches[c].rows
  <2>1. PICK from \in 0..n - 1, rows \in 1..n :
           /\ from + rows <= n
           /\ chunks[c] \in [1..rows -> 1..n]
           /\ Len(chunks[c]) = rows
           /\ \A r \in 1..rows : chunks[c][r] = order[from + r]
    BY <1>4
  <2>2. PICK orig \in [1..rows -> 1..n] : orig = chunks[c]
    BY <2>1
  <2>3. rows \in Nat \ {0} /\ rows \in 1..rows
    BY <1>1
  <2>4. ASSUME NEW r \in 1..rows PROVE lens[orig[r]] <= lens[orig[rows]]
    <3>1. PICK p \in 1..n, q \in 1..n : p = from + r /\ q = from + rows /\ p <= q
      BY <1>1, <2>1
    <3>2. orig[r] = order[p] /\ orig[rows] = order[q]
      BY <2>1, <2>2, <2>3, <3>1
    <3> QED
      BY <1>2, <3>1, <3>2
  <2>5. Longest(lens, orig) = lens[orig[rows]]
    BY <1>1, <2>3, <2>4, LongestIsTheLast
  <2>6. batches[c] = [rows |-> rows, seq |-> lens[orig[rows]], orig |-> orig,
                      ids |-> Padded(lens, orig, lens[orig[rows]])]
    BY <1>5, <2>1, <2>2, <2>5 DEF batch
  <2>7. orig[rows] \in 1..n /\ lens[orig[rows]] \in Nat \ {0}
    BY <1>1, <2>3
  <2>8. BatchOf(lens, batches[c])
    BY <1>1, <2>1, <2>2, <2>3, <2>4, <2>6, <2>7 DEF BatchOf
  <2> QED
    BY <1>1, <2>1, <2>2, <2>6, <2>7, <2>8
<1>7. ASSUME NEW i \in DOMAIN lens
      PROVE  \E c \in DOMAIN batches : \E r \in 1..batches[c].rows : batches[c].orig[r] = i
  <2>1. PICK p \in 1..n : order[p] = i
    BY <1>1, <1>2
  <2>2. PICK c \in DOMAIN chunks : \E r \in DOMAIN chunks[c] : chunks[c][r] = i
    BY <1>4, <2>1
  <2>3. batches[c].orig = chunks[c] /\ DOMAIN chunks[c] = 1..batches[c].rows
    BY <1>6, <2>2
  <2>4. PICK r \in DOMAIN chunks[c] : chunks[c][r] = i
    BY <2>2
  <2>5. r \in 1..batches[c].rows /\ batches[c].orig[r] = i
    BY <2>3, <2>4
  <2> QED
    BY <1>5, <2>2, <2>5
<1> QED
  BY <1>4, <1>5, <1>6, <1>7 DEF batches

\* A forward takes at least a row of any batch.
LEMMA RowsPerForwardIsPositive ==
    ASSUME NEW seq \in Nat \ {0}, NEW budget \in Nat \ {0}
    PROVE  RowsPerForward(seq, budget) \in Nat \ {0}
<1>1. PICK all \in Nat \ {0} : all = AtLeast(seq * seq, 1)
  <2>1. seq * seq \in Nat
    OBVIOUS
  <2> QED
    BY <2>1 DEF AtLeast
<1>2. PICK k \in Nat : k = budget \div all
  BY <1>1
<1> QED
  BY <1>1, <1>2 DEF RowsPerForward, AtLeast

\* ... whatever the backend.
LEMMA CapIsPositive ==
    ASSUME NEW b, b.seq \in Nat \ {0}, NEW device
    PROVE  /\ Cap(b, device) \in Nat \ {0}
           /\ Cap(b, device) <= RowsPerForward(b.seq, BudgetOf(device))
<1>1. BudgetOf(device) \in Nat \ {0}
  BY BudgetsArePositive DEF BudgetOf
<1>2. RowsPerForward(b.seq, BudgetOf(device)) \in Nat \ {0}
  BY <1>1, RowsPerForwardIsPositive
<1> QED
  BY <1>2, Bf16RowsIsPositive DEF Cap, AtMost

\* The units of run_batches are rows of a batch, no more than a forward takes.
LEMMA UnitsAreOfBatches ==
    ASSUME NEW lens \in Seq(Nat \ {0}), NEW size \in Nat, NEW device,
           NEW u \in Units(Bucket(lens, size), device)
    PROVE  /\ UnitOf(lens, u)
           /\ u.rows <= RowsPerForward(u.batch.seq, BudgetOf(device))
           /\ \E i \in DOMAIN lens : u.batch.seq = lens[i]
<1>1. PICK c \in DOMAIN Bucket(lens, size) :
         \E start \in 0..Bucket(lens, size)[c].rows - 1 :
            u = [nr |-> c, batch |-> Bucket(lens, size)[c], start |-> start,
                 rows |-> AtMost(Cap(Bucket(lens, size)[c], device), Bucket(lens, size)[c].rows - start)]
  BY DEF Units
<1>2. PICK b : b = Bucket(lens, size)[c]
  OBVIOUS
<1>3. c \in Nat /\ BatchOf(lens, b) /\ \E i \in DOMAIN lens : b.seq = lens[i]
  BY <1>2, BucketMakesBatches
<1>4. PICK n \in Nat \ {0}, cap \in Nat \ {0} :
         n = b.rows /\ cap = Cap(b, device) /\ cap <= RowsPerForward(b.seq, BudgetOf(device))
  BY <1>3, CapIsPositive DEF BatchOf
<1>5. PICK start \in 0..n - 1 : u = [nr |-> c, batch |-> b, start |-> start, rows |-> AtMost(cap, n - start)]
  BY <1>1, <1>2, <1>4
<1>6. PICK rows \in 1..n - start : rows = AtMost(cap, n - start) /\ rows <= cap
  <2>1. PICK rest \in Nat \ {0} : rest = n - start
    OBVIOUS
  <2>2. AtMost(cap, rest) \in 1..rest /\ AtMost(cap, rest) <= cap
    BY DEF AtMost
  <2> QED
    BY <2>1, <2>2
<1>7. u.nr = c /\ u.batch = b /\ u.start = start /\ u.rows = rows
  BY <1>5, <1>6
<1>8. RowsPerForward(b.seq, BudgetOf(device)) \in Nat \ {0} => rows <= RowsPerForward(b.seq, BudgetOf(device))
  BY <1>4, <1>6
<1>9. RowsPerForward(b.seq, BudgetOf(device)) \in Nat \ {0}
  <2>1. BudgetOf(device) \in Nat \ {0} /\ b.seq \in Nat \ {0}
    BY <1>3, BudgetsArePositive DEF BudgetOf, BatchOf
  <2> QED
    BY <2>1, RowsPerForwardIsPositive
<1>10. UnitOf(lens, u)
  BY <1>3, <1>4, <1>6, <1>7 DEF UnitOf
<1> QED
  BY <1>3, <1>7, <1>8, <1>9, <1>10

\* ... and every row of the call is in one.
LEMMA UnitsHaveEveryRow ==
    ASSUME NEW lens \in Seq(Nat \ {0}), NEW size \in Nat, NEW device, NEW i \in DOMAIN lens
    PROVE  \E u \in Units(Bucket(lens, size), device) : \E row \in 0..u.rows - 1 : OrigOf(u, row) = i
<1>1. PICK c \in DOMAIN Bucket(lens, size) :
         \E r \in 1..Bucket(lens, size)[c].rows : Bucket(lens, size)[c].orig[r] = i
  BY BucketMakesBatches
<1>2. PICK b : b = Bucket(lens, size)[c]
  OBVIOUS
<1>3. BatchOf(lens, b)
  BY <1>2, BucketMakesBatches
<1>4. PICK n \in Nat \ {0}, cap \in Nat \ {0} : n = b.rows /\ cap = Cap(b, device)
  BY <1>3, CapIsPositive DEF BatchOf
<1>5. PICK r \in 1..n : b.orig[r] = i
  BY <1>1, <1>2, <1>4
<1>6. PICK q \in 0..n - 1 : q = r - 1
  OBVIOUS
<1>7. PICK s \in Starts(n, cap) : s <= q /\ q < s + cap
  BY OneStart
<1>8. s \in 0..n - 1 /\ s % cap = 0
  BY <1>7 DEF Starts
<1> DEFINE rows == AtMost(cap, n - s)
           u == [nr |-> c, batch |-> b, start |-> s, rows |-> rows]
<1>9. u \in Units(Bucket(lens, size), device)
  BY <1>2, <1>4, <1>8 DEF Units
<1>10. q - s \in 0..rows - 1 /\ s + (q - s) + 1 = r
  BY <1>6, <1>7, <1>8 DEF AtMost
<1>11. OrigOf(u, q - s) = i
  BY <1>5, <1>10 DEF OrigOf
<1>12. u.rows = rows
  OBVIOUS
<1> HIDE DEF u, rows
<1>13. q - s \in 0..u.rows - 1
  BY <1>10, <1>12
<1> QED
  BY <1>9, <1>11, <1>13

\* run_rows: each row is a unit of its own, in a bucket that takes it.
LEMMA RowUnitsAreRows ==
    ASSUME NEW lens \in Seq(Nat \ {0}), \A i \in DOMAIN lens : Fits(lens[i]) # {}
    PROVE  /\ \A u \in RowUnits(lens) : UnitOf(lens, u)
           /\ \A i \in DOMAIN lens : \E u \in RowUnits(lens) : \E row \in 0..u.rows - 1 : OrigOf(u, row) = i
<1> DEFINE unit(i) == [nr |-> i, start |-> 0, rows |-> 1,
                       batch |-> [rows |-> 1, seq |-> BucketFor(lens[i]), orig |-> <<i>>,
                                  ids |-> Padded(lens, <<i>>, BucketFor(lens[i]))]]
<1>1. RowUnits(lens) = {unit(i) : i \in DOMAIN lens}
  BY DEF RowUnits
<1>2. ASSUME NEW i \in DOMAIN lens
      PROVE  BucketFor(lens[i]) \in Nat \ {0} /\ lens[i] <= BucketFor(lens[i])
  <2>1. Fits(lens[i]) \in SUBSET Nat /\ Fits(lens[i]) # {} /\ \A s \in Fits(lens[i]) : s # 0 /\ s >= lens[i]
    BY BucketsArePositive DEF Fits
  <2>2. \E x \in Fits(lens[i]) : \A y \in Fits(lens[i]) : x <= y
    BY <2>1, LeastNat
  <2>3. BucketFor(lens[i]) \in Fits(lens[i])
    BY <2>2 DEF BucketFor, Min
  <2>4. lens[i] \in Nat
    OBVIOUS
  <2> QED
    BY <2>1, <2>3, <2>4
<1>3. ASSUME NEW i \in DOMAIN lens
      PROVE  UnitOf(lens, unit(i)) /\ unit(i).rows = 1 /\ OrigOf(unit(i), 0) = i
  <2>1. PICK seq \in Nat \ {0} : seq = BucketFor(lens[i]) /\ lens[i] <= seq
    BY <1>2
  <2>2. /\ unit(i).nr = i /\ unit(i).start = 0 /\ unit(i).rows = 1
        /\ unit(i).batch = [rows |-> 1, seq |-> seq, orig |-> <<i>>, ids |-> Padded(lens, <<i>>, seq)]
    BY <2>1
  <2> HIDE DEF unit
  <2>3. PICK b : b = unit(i).batch
    OBVIOUS
  <2>4. b.rows = 1 /\ b.seq = seq /\ b.orig = <<i>> /\ b.ids = Padded(lens, <<i>>, seq)
    BY <2>2, <2>3
  <2>5. BatchOf(lens, b)
    <3>1. <<i>> \in [1..1 -> DOMAIN lens] /\ Len(<<i>>) = 1 /\ <<i>>[1] = i
      OBVIOUS
    <3>2. \A r \in 1..1 : r = 1
      OBVIOUS
    <3> QED
      BY <2>1, <2>4, <3>1, <3>2 DEF BatchOf
  <2>6. i \in Nat
    OBVIOUS
  <2>7. UnitOf(lens, unit(i))
    BY <2>2, <2>3, <2>4, <2>5, <2>6 DEF UnitOf
  <2>8. OrigOf(unit(i), 0) = i
    <3>1. unit(i).start + 0 + 1 = 1
      BY <2>2
    <3> QED
      BY <2>3, <2>4, <3>1 DEF OrigOf
  <2> QED
    BY <2>2, <2>7, <2>8
<1> HIDE DEF unit
<1>4. ASSUME NEW i \in DOMAIN lens
      PROVE  \E u \in RowUnits(lens) : \E row \in 0..u.rows - 1 : OrigOf(u, row) = i
  <2>1. unit(i) \in RowUnits(lens) /\ 0 \in 0..unit(i).rows - 1
    BY <1>1, <1>3
  <2> QED
    BY <1>3, <2>1
<1> QED
  BY <1>1, <1>3, <1>4

\* What a device takes first is there, when anything is.
LEMMA FirstIsThere ==
    ASSUME NEW units, units # {}, \A u \in units : u.nr \in Nat /\ u.start \in Nat
    PROVE  First(units) # {}
<1> DEFINE numbers == {u.nr : u \in units}
<1>1. numbers \in SUBSET Nat /\ numbers # {}
  OBVIOUS
<1>2. PICK nr \in numbers : \A m \in numbers : nr <= m
  <2> HIDE DEF numbers
  <2> QED
    BY <1>1, LeastNat
<1> DEFINE starts == {u.start : u \in {u \in units : u.nr = nr}}
<1>3. starts \in SUBSET Nat /\ starts # {}
  <2>1. PICK u \in units : u.nr = nr
    BY <1>2
  <2>2. u.start \in starts
    BY <2>1
  <2> QED
    BY <2>2
<1>4. PICK start \in starts : \A m \in starts : start <= m
  <2> HIDE DEF starts
  <2> QED
    BY <1>3, LeastNat
<1>5. PICK u \in units : u.nr = nr /\ u.start = start
  BY <1>4
<1>6. ASSUME NEW v \in units PROVE NotAfter(u, v)
  <2>1. nr \in Nat /\ v.nr \in Nat /\ nr <= v.nr
    BY <1>1, <1>2
  <2>2. v.nr = nr => start <= v.start
    BY <1>4
  <2> QED
    BY <1>5, <2>1, <2>2 DEF NotAfter
<1> QED
  BY <1>5, <1>6 DEF First

-----------------------------------------------------------------------------
(* The digest.                                                             *)

Loaded == {"head", "tokenizer", "verify", "lost", "too_long"} \union Serving

\* What the check in confirm rests on. A version never comes back to the path,
\* so the three looks at it, by the hashing thread, by the loader and by
\* confirm, see versions in order: where the first and the last see the same,
\* so did the one between.
LookedInOrder ==
    /\ file \in Nat /\ taken \in Nat /\ weights \in Nat
    /\ pc = "weights" => taken <= file
    /\ pc = "confirm" => taken <= weights /\ weights <= file

\* Once confirmed, the digest that is still to come is the loaded weights'.
Confirmed == pc \in Loaded /\ hash \in {"running", "read"} => weights = taken

\* A run that has passed verify has what it expects, and waits for no hash
\* that could change what is known.
Verified == pc \in Loaded \ {"head", "tokenizer", "verify"} => Expected /\ hash # "running"

\* Nothing is hashed before spawn, and a bundle never, which is not loaded
\* through these steps.
NotHashed ==
    /\ pc = "spawn" \/ backend = "coreml" => hash = "none"
    /\ pc \in {"weights", "confirm"} => backend # "coreml"

DigestInv == LookedInOrder /\ Confirmed /\ Verified /\ NotHashed

-----------------------------------------------------------------------------

LEMMA DigestInvInit == Init => DigestInv
BY DEF Init, DigestInv, LookedInOrder, Confirmed, Verified, NotHashed, Loaded, Serving, NoVersion

\* A call of the loaded model looks at no file.
LEMMA CallKeepsDigest == DigestInv /\ CallStep => DigestInv'
<1> SUFFICES ASSUME DigestInv, CallStep PROVE DigestInv'
  OBVIOUS
<1>1. UNCHANGED <<options, model>>
  BY DEF CallStep, Tokenize, RunUnit, Collect
<1>2. /\ pc \in {"ready", "work"}
      /\ pc' \in {"work", "done", "failed", "lost", "too_long"}
  BY DEF CallStep, Tokenize, RunUnit, Collect, Goto
<1>3. pc \in Loaded \ {"head", "tokenizer", "verify"}
  BY <1>2 DEF Loaded, Serving
<1>4. Expected' /\ hash' # "running"
  BY <1>1, <1>3 DEF DigestInv, Verified, Expected, Digest, options, model
<1> QED
  BY <1>1, <1>2, <1>3, <1>4
  DEF DigestInv, LookedInOrder, Confirmed, Verified, NotHashed, options, model

\* The steps of a load, of the hashing thread, and of whoever replaces the file.
LEMMA DigestInvStep == DigestInv /\ [Next]_vars => DigestInv'
<1> SUFFICES ASSUME DigestInv, [Next]_vars PROVE DigestInv'
  OBVIOUS
<1> USE DEF DigestInv, LookedInOrder, Confirmed, Verified, NotHashed, Loaded, Serving,
            options, model, Goto, NoVersion
<1>1. CASE SpawnHash
  BY <1>1 DEF SpawnHash
<1>2. CASE LoadWeights
  BY <1>2 DEF LoadWeights
<1>3. CASE Confirm
  BY <1>3 DEF Confirm, AfterConfirm
<1>4. CASE LoadHead
  BY <1>4 DEF LoadHead
<1>5. CASE LoadCoreMl
  BY <1>5 DEF LoadCoreMl
<1>6. CASE Verify
  <2>1. Expected => Expected'
    BY <1>6 DEF Verify, Expected, Digest
  <2> QED
    BY <1>6, <2>1 DEF Verify, Settled
<1>7. CASE CallStep
  BY <1>7, CallKeepsDigest
<1>8. CASE HashFile
  BY <1>8 DEF HashFile
<1>9. CASE Replace
  <2>1. pc \notin Loaded \ {"head", "tokenizer", "verify", "lost", "too_long"}
    BY <1>9 DEF Replace
  <2>2. Expected => Expected'
    BY <1>9 DEF Replace, Expected, Digest
  <2> QED
    BY <1>9, <2>1, <2>2 DEF Replace
<1>10. CASE LoadTokenizer
  BY <1>10 DEF LoadTokenizer
<1>11. CASE UNCHANGED vars
  <2>1. Expected => Expected'
    BY <1>11 DEF vars, Expected, Digest
  <2> QED
    BY <1>11, <2>1 DEF vars
<1> QED
  BY <1>1, <1>2, <1>3, <1>4, <1>5, <1>6, <1>7, <1>8, <1>9, <1>10, <1>11 DEF Next, LoadStep

\* What Fingerprint::confirm promises of the encoder's weights.
THEOREM DigestNamesTheWeights == Spec => []DigestIsTrue
<1>1. DigestInv => DigestIsTrue
  BY DEF DigestInv, Confirmed, NotHashed, DigestIsTrue, Digest, Loaded, Serving
<1> QED
  BY <1>1, DigestInvInit, DigestInvStep, PTL DEF Spec

\* --expect-sha256: nothing is embedded or scored with an encoder other than
\* the one expected.
THEOREM ExpectationIsEnforced == Spec => []ExpectationHolds
<1>1. DigestInv => ExpectationHolds
  BY DEF DigestInv, Confirmed, Verified, NotHashed, ExpectationHolds, Expected, Digest, Loaded, Serving
<1> QED
  BY <1>1, DigestInvInit, DigestInvStep, PTL DEF Spec

-----------------------------------------------------------------------------
(* One call.                                                               *)

\* Every forward of the call.
AllUnits == IF backend = "coreml" THEN RowUnits(texts) ELSE Units(Bucket(texts, batch_size), backend)

OptionsInv == backend \in Backends /\ max_seq \in Nat \ {0} /\ batch_size \in Nat \ {0}

\* A call's texts are as long as the model was loaded for, and no longer.
TextsInv == texts \in Seq(Nat \ {0}) /\ \A i \in DOMAIN texts : texts[i] <= max_seq

Checked == max_seq <= IF backend = "coreml" THEN Max(Buckets) ELSE Positions

LengthsInv == pc \notin {"spawn", "failed", "refused"} \/ texts # <<>> => Checked

BeforeCall == {"spawn", "weights", "confirm", "head", "tokenizer", "verify", "ready", "refused"}

\* What has not run is of this call, what has answered and did not fail, and
\* nothing else did.
UnitsInv ==
    /\ left \subseteq AllUnits
    /\ pc \in BeforeCall => left = {} /\ answers = {} /\ broken = FALSE
    /\ pc \in {"work", "done"} => \A u \in AllUnits \ left : broken \/ Run(backend, u) \subseteq answers
    /\ \A a \in answers : \E u \in AllUnits : a \in Run(backend, u)

CallInv == OptionsInv /\ TextsInv /\ LengthsInv /\ UnitsInv /\ NothingIsLost

LEMMA CallInvInit == Init => CallInv
<1> SUFFICES ASSUME Init PROVE CallInv
  OBVIOUS
<1>1. OptionsInv
  BY CountsArePositive DEF Init, OptionsInv
<1>2. TextsInv /\ LengthsInv /\ UnitsInv /\ NothingIsLost
  BY DEF Init, TextsInv, LengthsInv, UnitsInv, NothingIsLost, BeforeCall
<1> QED
  BY <1>1, <1>2 DEF CallInv

\* A bundle has a bucket for every length it was loaded for.
LEMMA LargestBucketFits ==
    ASSUME NEW len \in Nat \ {0}, NEW most \in Nat, most <= Max(Buckets), len <= most
    PROVE  Fits(len) # {}
<1>1. Buckets \in SUBSET Nat /\ Buckets # {} /\ IsFiniteSet(Buckets)
  BY BucketsArePositive
<1>2. PICK bound \in Nat : \A x \in Buckets : x <= bound
  BY <1>1, FiniteIsBounded
<1>3. PICK x \in Buckets : \A y \in Buckets : y <= x
  BY <1>1, <1>2, GreatestNat
<1>4. \A y \in Buckets : x >= y
  BY <1>1, <1>3
<1>5. Max(Buckets) \in Buckets
  BY <1>4 DEF Max
<1>6. Max(Buckets) >= len
  <2>1. PICK m \in Nat : m = Max(Buckets)
    BY <1>1, <1>5
  <2>2. most <= m /\ len <= m
    BY <2>1
  <2> QED
    BY <2>1, <2>2
<1> QED
  BY <1>5, <1>6 DEF Fits

\* The forwards of a call are rows of it, no longer than the rotary tables,
\* no more of them than a forward takes; and together they are the call.
LEMMA UnitsOfTheCall ==
    ASSUME OptionsInv, TextsInv, LengthsInv
    PROVE  /\ \A u \in AllUnits : UnitOf(texts, u)
           /\ \A i \in DOMAIN texts : \E u \in AllUnits : \E row \in 0..u.rows - 1 : OrigOf(u, row) = i
           /\ backend # "coreml" => \A u \in AllUnits :
                 /\ u.rows <= RowsPerForward(u.batch.seq, BudgetOf(backend))
                 /\ u.batch.seq <= Positions
<1>1. /\ texts \in Seq(Nat \ {0}) /\ batch_size \in Nat /\ max_seq \in Nat
      /\ \A i \in DOMAIN texts : texts[i] <= max_seq
  BY DEF OptionsInv, TextsInv
<1>2. ASSUME NEW i \in DOMAIN texts PROVE Checked /\ texts[i] \in Nat \ {0}
  <2>1. texts # <<>>
    OBVIOUS
  <2> QED
    BY <1>1, <2>1 DEF LengthsInv
<1>3. CASE backend = "coreml"
  <2>1. \A i \in DOMAIN texts : Fits(texts[i]) # {}
    BY <1>1, <1>2, <1>3, LargestBucketFits DEF Checked
  <2> QED
    BY <1>1, <1>3, <2>1, RowUnitsAreRows DEF AllUnits
<1>4. CASE backend # "coreml"
  <2>1. AllUnits = Units(Bucket(texts, batch_size), backend)
    BY <1>4 DEF AllUnits
  <2>2. ASSUME NEW u \in AllUnits
        PROVE  /\ UnitOf(texts, u)
               /\ u.rows <= RowsPerForward(u.batch.seq, BudgetOf(backend))
               /\ u.batch.seq <= Positions
    <3>1. /\ UnitOf(texts, u)
          /\ u.rows <= RowsPerForward(u.batch.seq, BudgetOf(backend))
          /\ \E i \in DOMAIN texts : u.batch.seq = texts[i]
      BY <1>1, <2>1, UnitsAreOfBatches
    <3>2. PICK i \in DOMAIN texts : u.batch.seq = texts[i]
      BY <3>1
    <3>3. texts[i] <= max_seq /\ max_seq <= Positions /\ texts[i] \in Nat /\ Positions \in Nat
      BY <1>1, <1>2, <1>4, CountsArePositive DEF Checked
    <3> QED
      BY <1>1, <3>1, <3>2, <3>3
  <2>3. \A i \in DOMAIN texts : \E u \in AllUnits : \E row \in 0..u.rows - 1 : OrigOf(u, row) = i
    BY <1>1, <2>1, UnitsHaveEveryRow
  <2> QED
    BY <1>4, <2>2, <2>3
<1> QED
  BY <1>3, <1>4

\* The load, and what happens beside it, leaves the call alone.
LEMMA LoadKeepsCall ==
    ASSUME CallInv, LoadStep \/ HashFile \/ Replace \/ UNCHANGED vars
    PROVE  CallInv'
<1>1. UNCHANGED <<options, call>>
  BY DEF LoadStep, HashFile, Replace, vars, SpawnHash, LoadWeights, Confirm, LoadHead, LoadTokenizer,
         LoadCoreMl, Verify
<1>2. \/ UNCHANGED pc
      \/ pc \in BeforeCall /\ pc' \in BeforeCall \union {"failed"} /\ pc' # "spawn"
  BY DEF LoadStep, HashFile, Replace, vars, SpawnHash, LoadWeights, Confirm, LoadHead, LoadTokenizer,
         LoadCoreMl, Verify, Goto, BeforeCall, AfterConfirm
<1>3. pc = "spawn" /\ pc' \notin {"spawn", "failed", "refused"} => Checked
  <2>1. pc = "spawn" /\ pc' \notin {"spawn", "failed", "refused"} =>
          SpawnHash \/ LoadCoreMl \/ UNCHANGED pc
    BY DEF LoadStep, HashFile, Replace, vars, LoadWeights, Confirm, LoadHead, LoadTokenizer, Verify
  <2>2. SpawnHash /\ pc' # "failed" => Checked
    BY DEF SpawnHash, CheckMaxSeq, Checked, Goto
  <2>3. LoadCoreMl /\ pc' \notin {"failed", "refused"} => Checked
    BY DEF LoadCoreMl, Checked, Goto
  <2> QED
    BY <2>1, <2>2, <2>3
<1>4. pc \in {"failed", "refused"} => pc' = pc
  BY DEF LoadStep, HashFile, Replace, vars, SpawnHash, LoadWeights, Confirm, LoadHead, LoadTokenizer,
         LoadCoreMl, Verify, options, call, model
<1>5. AllUnits' = AllUnits /\ (Checked <=> Checked') /\ UNCHANGED <<backend, texts, left, answers, broken>>
  BY <1>1 DEF AllUnits, Checked, options, call
<1>6. OptionsInv' /\ TextsInv'
  BY <1>1 DEF CallInv, OptionsInv, TextsInv, options, call
<1>7. LengthsInv'
  BY <1>2, <1>3, <1>4, <1>5 DEF CallInv, LengthsInv
<1>8. UnitsInv'
  <2>1. pc' \in {"work", "done"} => pc' = pc
    BY <1>2 DEF BeforeCall
  <2>2. pc' \in BeforeCall => pc \in BeforeCall
    BY <1>2
  <2> QED
    BY <1>5, <2>1, <2>2 DEF CallInv, UnitsInv
<1>9. NothingIsLost'
  BY <1>2 DEF CallInv, NothingIsLost, BeforeCall
<1> QED
  BY <1>6, <1>7, <1>8, <1>9 DEF CallInv

\* The tokenizer truncates.
LEMMA TokenizeMakesTexts ==
    ASSUME OptionsInv, Tokenize
    PROVE  TextsInv'
<1>1. PICK n \in 1..MaxRows : \E raw \in [1..n -> Lengths] :
         texts' = [i \in DOMAIN raw |-> Truncated(raw[i])]
  BY DEF Tokenize
<1>2. PICK raw \in [1..n -> Lengths] : texts' = [i \in DOMAIN raw |-> Truncated(raw[i])]
  BY <1>1
<1>3. DOMAIN raw = 1..n /\ n \in Nat
  BY <1>2, CountsArePositive
<1>4. texts' = [i \in 1..n |-> Truncated(raw[i])]
  BY <1>2, <1>3
<1>5. \A i \in 1..n : Truncated(raw[i]) \in Nat \ {0} /\ Truncated(raw[i]) <= max_seq
  <2> SUFFICES ASSUME NEW i \in 1..n
               PROVE  Truncated(raw[i]) \in Nat \ {0} /\ Truncated(raw[i]) <= max_seq
    OBVIOUS
  <2>1. raw[i] \in Nat \ {0}
    BY CountsArePositive
  <2>2. max_seq \in Nat \ {0}
    BY DEF OptionsInv
  <2> QED
    BY <2>1, <2>2 DEF Truncated, AtMost
<1>6. texts' \in Seq(Nat \ {0}) /\ DOMAIN texts' = 1..n
  BY <1>3, <1>4, <1>5
<1>7. max_seq' = max_seq
  BY DEF Tokenize, options
<1> QED
  BY <1>4, <1>5, <1>6, <1>7 DEF TextsInv

LEMMA TokenizeKeepsCall ==
    ASSUME CallInv, Tokenize
    PROVE  CallInv'
<1>1. /\ pc = "ready" /\ UNCHANGED <<options, model, answers, broken>>
      /\ UNCHANGED <<backend, max_seq, batch_size>>
  BY DEF Tokenize, options
<1>2. OptionsInv' /\ TextsInv' /\ Checked /\ Checked'
  BY <1>1, TokenizeMakesTexts DEF CallInv, OptionsInv, LengthsInv, Checked
<1>3. backend = "coreml" => \A i \in DOMAIN texts' : Fits(texts'[i]) # {}
  <2> SUFFICES ASSUME backend = "coreml", NEW i \in DOMAIN texts' PROVE Fits(texts'[i]) # {}
    OBVIOUS
  <2>1. texts'[i] \in Nat \ {0} /\ texts'[i] <= max_seq /\ max_seq \in Nat
    BY <1>1, <1>2 DEF TextsInv, OptionsInv
  <2> QED
    BY <1>2, <2>1, LargestBucketFits DEF Checked
<1>4. pc' = "work" /\ left' = AllUnits'
  BY <1>1, <1>3 DEF Tokenize, Goto, AllUnits
<1>5. answers' = {} /\ broken' = FALSE
  BY <1>1 DEF CallInv, UnitsInv, BeforeCall
<1>6. UnitsInv'
  BY <1>4, <1>5 DEF UnitsInv, BeforeCall
<1> QED
  BY <1>2, <1>4, <1>6 DEF CallInv, LengthsInv, NothingIsLost

\* A forward whose length is in the tables; its answers are its own.
LEMMA RunUnitKeepsCall ==
    ASSUME CallInv, RunUnit
    PROVE  CallInv'
<1>1. /\ pc = "work" /\ UNCHANGED <<options, model, texts>>
      /\ UNCHANGED <<backend, max_seq, batch_size>>
  BY DEF RunUnit, options
<1>2. PICK u \in Runnable :
         /\ left' = left \ {u}
         /\ \/ answers' = answers \union Run(backend, u) /\ UNCHANGED broken
            \/ broken' = TRUE /\ UNCHANGED answers
         /\ Goto(IF backend # "coreml" /\ u.batch.seq > Positions THEN "too_long" ELSE pc)
  BY DEF RunUnit
<1>3. u \in left /\ left \subseteq AllUnits
  BY DEF Runnable, First, CallInv, OptionsInv, Backends, UnitsInv
<1>4. AllUnits' = AllUnits /\ (Checked <=> Checked')
  BY <1>1 DEF AllUnits, Checked
<1>5. OptionsInv' /\ TextsInv'
  BY <1>1 DEF CallInv, OptionsInv, TextsInv
<1>6. pc' = "work"
  <2>1. CASE backend = "coreml"
    BY <1>1, <1>2, <2>1 DEF Goto
  <2>2. CASE backend # "coreml"
    <3>1. /\ UnitOf(texts, u) /\ u.batch.seq <= Positions
      BY <1>3, <2>2, UnitsOfTheCall DEF CallInv
    <3>2. u.batch.seq \in Nat /\ Positions \in Nat
      BY <3>1, CountsArePositive DEF UnitOf, BatchOf
    <3> QED
      BY <1>1, <1>2, <3>1, <3>2 DEF Goto
  <2> QED
    BY <2>1, <2>2
<1>7. UnitsInv'
  <2>1. left' \subseteq AllUnits'
    BY <1>2, <1>3, <1>4
  <2>2. \A v \in AllUnits' \ left' : broken' \/ Run(backend', v) \subseteq answers'
    <3>1. \A v \in AllUnits \ left : broken \/ Run(backend, v) \subseteq answers
      BY <1>1 DEF CallInv, UnitsInv
    <3> QED
      BY <1>1, <1>2, <1>4, <3>1
  <2>3. \A a \in answers' : \E v \in AllUnits' : a \in Run(backend', v)
    <3>1. \A a \in answers : \E v \in AllUnits : a \in Run(backend, v)
      BY DEF CallInv, UnitsInv
    <3> QED
      BY <1>1, <1>2, <1>3, <1>4, <3>1
  <2> QED
    BY <1>6, <2>1, <2>2, <2>3 DEF UnitsInv, BeforeCall
<1>8. LengthsInv'
  BY <1>1, <1>4 DEF CallInv, LengthsInv
<1> QED
  BY <1>5, <1>6, <1>7, <1>8 DEF CallInv, NothingIsLost

\* When nothing is left to run and nothing failed, every text has its result.
LEMMA EveryTextIsAnswered ==
    ASSUME CallInv, pc = "work", Runnable = {}, ~broken
    PROVE  {a[1] : a \in answers} = DOMAIN texts
<1>1. /\ backend \in Backends /\ texts \in Seq(Nat \ {0})
      /\ \A u \in AllUnits : UnitOf(texts, u)
      /\ \A i \in DOMAIN texts : \E u \in AllUnits : \E row \in 0..u.rows - 1 : OrigOf(u, row) = i
  BY UnitsOfTheCall DEF CallInv, OptionsInv, TextsInv
<1>2. left = {}
  <2>1. Runnable = left \/ Runnable = First(left)
    BY <1>1 DEF Runnable, Backends
  <2>2. \A u \in left : u.nr \in Nat /\ u.start \in Nat
    <3>1. \A u \in left : UnitOf(texts, u)
      BY <1>1 DEF CallInv, UnitsInv
    <3> QED
      BY <3>1 DEF UnitOf, BatchOf
  <2> QED
    BY <2>1, <2>2, FirstIsThere
<1>3. \A u \in AllUnits : Run(backend, u) \subseteq answers
  BY <1>2 DEF CallInv, UnitsInv
<1>4. ASSUME NEW a \in answers PROVE a[1] \in DOMAIN texts
  <2>1. PICK u \in AllUnits : a \in Run(backend, u)
    BY DEF CallInv, UnitsInv
  <2> QED
    BY <1>1, <2>1, RunIsAlone
<1>5. ASSUME NEW i \in DOMAIN texts PROVE \E a \in answers : a[1] = i
  <2>1. PICK u \in AllUnits : \E row \in 0..u.rows - 1 : OrigOf(u, row) = i
    BY <1>1
  <2>2. \E result : <<i, result>> \in Run(backend, u)
    BY <2>1 DEF Run
  <2>3. PICK result : <<i, result>> \in answers
    BY <1>3, <2>2
  <2> QED
    BY <2>3
<1> QED
  BY <1>4, <1>5

LEMMA CollectKeepsCall ==
    ASSUME CallInv, Collect
    PROVE  CallInv'
<1>1. /\ pc = "work" /\ Runnable = {} /\ UNCHANGED <<options, model, call>>
      /\ UNCHANGED <<backend, max_seq, batch_size, texts, left, answers, broken>>
      /\ Goto(CASE broken -> "failed"
                 [] ~broken /\ {a[1] : a \in answers} # DOMAIN texts -> "lost"
                 [] OTHER -> "done")
  BY DEF Collect, options, call
<1>2. pc' \in {"failed", "done"}
  BY <1>1, EveryTextIsAnswered DEF Goto
<1>3. AllUnits' = AllUnits /\ (Checked <=> Checked')
  BY <1>1 DEF AllUnits, Checked
<1>4. OptionsInv' /\ TextsInv'
  BY <1>1 DEF CallInv, OptionsInv, TextsInv
<1>5. LengthsInv'
  BY <1>1, <1>3 DEF CallInv, LengthsInv
<1>6. UnitsInv'
  BY <1>1, <1>2, <1>3 DEF CallInv, UnitsInv, BeforeCall
<1> QED
  BY <1>2, <1>4, <1>5, <1>6 DEF CallInv, NothingIsLost

LEMMA CallInvStep == CallInv /\ [Next]_vars => CallInv'
BY LoadKeepsCall, TokenizeKeepsCall, RunUnitKeepsCall, CollectKeepsCall DEF Next, CallStep

THEOREM CallInvariant == Spec => []CallInv
BY CallInvInit, CallInvStep, PTL DEF Spec

\* "Every split point is invisible in the result" (batch.rs): for every model
\* window, block width, budget, batch size, set of buckets and call, a text's
\* result is at its place and is the one it would have had alone.
THEOREM ResultsAreTheirOwn == Spec => []RowsAreTheirOwn
<1>1. CallInv => RowsAreTheirOwn
  <2> SUFFICES ASSUME CallInv, NEW a \in answers
               PROVE  a[2] = Alone(a[1], texts[a[1]])
    BY DEF RowsAreTheirOwn
  <2>1. PICK u \in AllUnits : a \in Run(backend, u)
    BY DEF CallInv, UnitsInv
  <2>2. UnitOf(texts, u) /\ backend \in Backends /\ texts \in Seq(Nat \ {0})
    BY UnitsOfTheCall DEF CallInv, OptionsInv, TextsInv
  <2> QED
    BY <2>1, <2>2, RunIsAlone
<1> QED
  BY <1>1, CallInvariant, PTL

\* "row came back from no batch" (model.rs), "tokens exceed the largest CoreML
\* bucket" (coreml.rs) and a length past the rotary tables never happen.
THEOREM NoTextIsLost == Spec => []NothingIsLost
BY CallInvariant, PTL DEF CallInv

\* What the budget must hold for the forwards to stay in it: one row of the
\* longest scores, and one band.
BudgetsHoldARow ==
    \A budget \in {CpuBudget, GpuBudget} :
        Positions <= budget /\ BandBlock * (BandBlock + 2 * Window) <= budget

\* "Neither regime holds more than ATTN_BUDGET scores per head" (model.rs):
\* true of every forward the f32 encoder is given, whatever the call.
THEOREM ForwardsStayInBudget ==
    ASSUME BudgetsHoldARow
    PROVE  Spec => []ScratchWithinBudget
<1>1. CallInv => ScratchWithinBudget
  <2> SUFFICES ASSUME CallInv, Path(backend) = "f32", NEW u \in left, NEW window \in {NoWindow, Window},
                      NEW size \in Scratch("f32", u.rows, u.batch.seq, window, BudgetOf(backend))
               PROVE  size <= BudgetOf(backend)
    BY DEF ScratchWithinBudget
  <2>1. backend # "coreml"
    BY DEF CallInv, OptionsInv, Backends, Path
  <2>2. /\ UnitOf(texts, u) /\ u.batch.seq <= Positions
        /\ u.rows <= RowsPerForward(u.batch.seq, BudgetOf(backend))
    BY <2>1, UnitsOfTheCall DEF CallInv, UnitsInv
  <2>3. PICK budget \in Nat \ {0} :
           /\ budget = BudgetOf(backend)
           /\ Positions <= budget /\ BandBlock * (BandBlock + 2 * Window) <= budget
    BY BudgetsArePositive DEF BudgetsHoldARow, BudgetOf
  <2>4. PICK seq \in Nat \ {0}, rows \in Nat \ {0} : seq = u.batch.seq /\ rows = u.rows
    BY <2>2 DEF UnitOf, BatchOf
  <2>5. seq \in 1..budget /\ Positions \in Nat
    BY <2>2, <2>3, <2>4, CountsArePositive
  <2>6. rows \in 1..RowsPerForward(seq, budget)
    <3>1. PICK most \in Nat \ {0} : most = RowsPerForward(seq, budget)
      BY RowsPerForwardIsPositive
    <3>2. rows <= most
      BY <2>2, <2>3, <2>4, <3>1
    <3> QED
      BY <3>1, <3>2
  <2>7. window \in Windows /\ (window # NoWindow => window = Window)
    BY WindowIsNat DEF Windows
  <2>8. window # NoWindow => BandBlock * (BandBlock + 2 * window) <= budget
    BY <2>3, <2>7
  <2>9. size \in Scratch("f32", rows, seq, window, budget)
    BY <2>3, <2>4
  <2>10. size <= budget
    BY <2>5, <2>6, <2>7, <2>8, <2>9, ForwardStaysInBudget
  <2> QED
    BY <2>3, <2>10
<1> QED
  BY <1>1, CallInvariant, PTL

=============================================================================
