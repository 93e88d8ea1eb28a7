---------------------------- MODULE AttentionPlan ----------------------------
(***************************************************************************)
(* Which keys each query attends to: the blocks of src/attention.rs, and   *)
(* the masks src/encoder.rs and src/bf16/modernbert.rs view through them.  *)
(* Positions count from 0. A window is a half-width, and NoWindow is the   *)
(* None of a global layer.                                                 *)
(*                                                                         *)
(* What a query attends to is the set of keys with a weight that is not an *)
(* exact zero. The window shuts a key out with -inf. Padding is f32::MIN,  *)
(* which is finite: it loses against any open token, but where a window    *)
(* holds padding only, softmax spreads over that.                          *)
(***************************************************************************)
EXTENDS Integers, FiniteSets

CONSTANTS BandBlock,   \* BAND_BLOCK of the f32 encoder, Q_BLOCK of the bf16 one
          NoWindow

ASSUME BandBlockIsPositive == BandBlock \in Nat \ {0}
ASSUME NoWindowIsNone == NoWindow \notin Nat

AtMost(a, b) == IF a < b THEN a ELSE b
AtLeast(a, b) == IF a > b THEN a ELSE b

-----------------------------------------------------------------------------
(* Block::tile, Block::band, blocks, banding_pays, plan.                   *)

Tile(seq, q0, queries) == [q0 |-> q0, queries |-> queries, k0 |-> 0, keys |-> seq]

\* Mutant: the keys to the right of the last query are forgotten.
BandLeftOnly(seq, q0, queries, w) ==
    LET k0 == AtLeast(q0 - w, 0)
    IN [q0 |-> q0, queries |-> queries, k0 |-> k0, keys |-> q0 + queries - k0]

Band(seq, q0, queries, w) ==
    LET k0 == AtLeast(q0 - w, 0)
        last == AtMost(q0 + queries - 1 + w, seq - 1)
    IN [q0 |-> q0, queries |-> queries, k0 |-> k0, keys |-> last + 1 - k0]

\* The first queries of the blocks: (0..seq).step_by(width).
Starts(seq, width) == {q0 \in 0..seq - 1 : q0 % width = 0}

Clamp(seq, width) == AtMost(AtLeast(width, 1), AtLeast(seq, 1))

Blocks(seq, width, window) ==
    LET step == Clamp(seq, width)
        queries(q0) == AtMost(step, seq - q0)
    IN {IF window = NoWindow THEN Tile(seq, q0, queries(q0))
                             ELSE Band(seq, q0, queries(q0), window) : q0 \in Starts(seq, step)}

BandingPays(seq, w) == seq > 2 * (2 * w + 1)

Banded(seq, window) == window # NoWindow /\ BandingPays(seq, window)

\* Mutant: a tile as long as the sequence, whatever the budget.
QueryTileUnbounded(seq, budget) == seq

QueryTile(seq, budget) == AtLeast(budget \div AtLeast(seq, 1), 1)

\* plan, as the f32 encoder calls it; the choice of the bf16 encoder, which
\* never splits a layer it does not band; and one dense matrix, for sdpa on
\* Metal and for the graph of a CoreML bundle.
Plan(path, seq, window, budget) ==
    CASE path = "dense" -> {Tile(seq, 0, seq)}
      [] path # "dense" /\ Banded(seq, window) -> Blocks(seq, BandBlock, window)
      [] path = "f32" /\ ~Banded(seq, window) -> Blocks(seq, QueryTile(seq, budget), NoWindow)
      [] path = "bf16" /\ ~Banded(seq, window) -> {Tile(seq, 0, seq)}

-----------------------------------------------------------------------------
(* Windows::new, Windows::of, window_mask, and the bf16 mask's own rows.   *)

\* window_mask: entry (i, j) of a mask whose first query is offset past its
\* first key.
MaskOpen(i, j, offset, w) == i + offset - j \in -w..w

\* A banded layer's table is [BandBlock, BandBlock + 2w] with offset w; a
\* block views its first rows, from column w - offset on.
TableOpen(b, i, j, w) == MaskOpen(i, w - (b.q0 - b.k0) + j, w, w)

\* The bf16 encoder and the dense ones read the row of a full mask.
Open(path, b, seq, window, i, j) ==
    \/ window = NoWindow
    \/ /\ path = "f32" /\ Banded(seq, window)
       /\ TableOpen(b, i, j, window)
    \/ /\ path = "f32" /\ ~Banded(seq, window)
       /\ MaskOpen(i, j, b.q0 - b.k0, window)
    \/ /\ path # "f32"
       /\ (b.k0 + j) - (b.q0 + i) \in -window..window

\* Whether the view of the table a block takes is inside the table.
ViewInTable(b, w) == /\ b.queries <= BandBlock
                     /\ 0 <= w - (b.q0 - b.k0)
                     /\ w - (b.q0 - b.k0) + b.keys <= BandBlock + 2 * w

-----------------------------------------------------------------------------
(* softmax of one row, and one layer's attention.                          *)

\* The first n keys hold tokens, the rest is padding.
Softmax(open, n) == LET tokens == {k \in open : k < n} IN IF tokens # {} THEN tokens ELSE open

Holds(b, q) == q \in b.q0..b.q0 + b.queries - 1

BlockOf(plan, q) == CHOOSE b \in plan : Holds(b, q)

\* The keys of a block that query q of it may attend to.
OpenKeys(path, b, seq, window, q) ==
    {b.k0 + j : j \in {j \in 0..b.keys - 1 : Open(path, b, seq, window, q - b.q0, j)}}

\* attend_blocked, attend_block, banded and attend: what query q attends to.
Attend(path, seq, window, budget, n, q) ==
    Softmax(OpenKeys(path, BlockOf(Plan(path, seq, window, budget), q), seq, window, q), n)

\* The keys a window is defined to open.
InWindow(seq, window, q) ==
    {k \in 0..seq - 1 : window = NoWindow \/ q - k \in -window..window}

\* What it should attend to: the reference.
Dense(seq, window, n, q) == Softmax(InWindow(seq, window, q), n)

\* Scores per head that a forward holds while one block is computed.
Scratch(path, rows, seq, window, budget) ==
    {rows * b.queries * b.keys : b \in Plan(path, seq, window, budget)}

RowsPerForward(seq, budget) == AtLeast(budget \div AtLeast(seq * seq, 1), 1)

=============================================================================
