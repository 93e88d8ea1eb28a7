------------------------------ MODULE Bf16Kernels ------------------------------
(***************************************************************************)
(* The kernels of src/bf16, element by element: how operands are padded    *)
(* and packed for VDPBF16PS, which output each register tile writes, and   *)
(* what the lanes past the end of a row do. All buffers are flat, from 0.  *)
(*                                                                         *)
(* Rounding is Tensors' Bf16; everything else is exact.                    *)
(***************************************************************************)
EXTENDS Tensors, FiniteSets

CONSTANTS MR,      \* rows of a register tile
          NB,      \* column vectors of a register tile
          NLANE,   \* lanes of a register: 16
          NcBlocks \* NC_COLS / NLANE: vectors of a column panel

ASSUME TileAssumption == {MR, NB, NLANE} \subseteq Nat \ {0}

\* "let nc_blocks = (NC_COLS / NLANE).max(NB)", and 256 is a multiple of NTILE.
ASSUME PanelAssumption == NcBlocks \in Nat \ {0} /\ NcBlocks % NB = 0

NTILE == NLANE * NB

\* 32: the bf16 lanes of a register, and what the columns are padded to.
Pairs == 2 * NLANE

DivCeil(a, b) == (a + b - 1) \div b
PaddedTo(a, b) == DivCeil(a, b) * b

-----------------------------------------------------------------------------
(* Packing.                                                                *)

\* pack_row_avx512: a register's worth at a time, its two halves converted by
\* cvtne2ps(b, a), which puts a in the low lanes; then one by one.
PackRow(s, cols) ==
    LET body == cols - (cols % Pairs)
        a(c) == [j \in 0..NLANE - 1 |-> s[c + j]]
        b(c) == [j \in 0..NLANE - 1 |-> s[c + NLANE + j]]
        cvtne2ps(hi, lo, j) == IF j < NLANE THEN Bf16(lo[j]) ELSE Bf16(hi[j - NLANE])
        start(j) == j - (j % Pairs)
    IN Known([j \in 0..cols - 1 |-> IF j < body THEN cvtne2ps(b(start(j)), a(start(j)), j % Pairs)
                                                ELSE Bf16(s[j])])

\* pack_x: zeros beyond the rows and the columns.
PackX(src, rows, cols) ==
    LET kpad == PaddedTo(cols, Pairs)
        packed == Known([r \in 0..rows - 1 |-> PackRow([c \in 0..cols - 1 |-> src[r * cols + c]], cols)])
        at(r, c) == IF r < rows /\ c < cols THEN packed[r][c] ELSE 0
    IN Known([i \in 0..PaddedTo(rows, MR) * kpad - 1 |-> at(i \div kpad, i % kpad)])

\* pack_w_vnni: [block of columns][pair][column][which of the pair]
PackWVnni(w, n, k) ==
    LET kpad == PaddedTo(k, Pairs)
        kpairs == kpad \div 2
        block(i) == i \div (kpairs * Pairs)
        kp(i) == (i % (kpairs * Pairs)) \div Pairs
        nrow(i) == block(i) * NLANE + ((i % Pairs) \div 2)
        kidx(i) == 2 * kp(i) + (i % 2)
    IN Known([i \in 0..PaddedTo(n, NTILE) * kpad - 1 |->
          IF nrow(i) < n /\ kidx(i) < k THEN Bf16(w[nrow(i) * k + kidx(i)]) ELSE 0])

-----------------------------------------------------------------------------
(* The product.                                                            *)

\* micro, of a tile whose operands start at x0 and w0: row ti, vector nv, lane.
Micro(xb, x0, wv, w0, kpad) ==
    LET kpairs == kpad \div 2
        a(ti, kp, kk) == xb[x0 + ti * kpad + 2 * kp + kk]
        b(nv, kp, lane, kk) == wv[w0 + nv * kpairs * Pairs + kp * Pairs + lane * 2 + kk]
        acc(ti, nv, lane) ==
            SumOf([p \in 1..kpad |-> Times(a(ti, (p - 1) \div 2, (p - 1) % 2),
                                           b(nv, (p - 1) \div 2, lane, (p - 1) % 2))], kpad)
    IN Known([t \in (0..MR - 1) \X (0..NB - 1) \X (0..NLANE - 1) |-> acc(t[1], t[2], t[3])])

\* The tiles gemm_st visits: panels of columns, in each all the rows, in each
\* the vectors of the panel NB at a time.
Tiles(mpad, npad) ==
    LET total == npad \div NLANE
        panel(nb0) == IF NcBlocks < total - nb0 THEN NcBlocks ELSE total - nb0
    IN {t \in [nb0 : 0..total - 1, mt : 0..(mpad \div MR) - 1, g : 0..total - 1] :
           t.nb0 % NcBlocks = 0 /\ t.g < panel(t.nb0) /\ t.g % NB = 0}

\* Where tile t reads and writes: as_ptr().add(..).
TileX(t, kpad) == t.mt * MR * kpad
TileW(t, kpad) == (t.nb0 + t.g) * ((kpad \div 2) * Pairs)
TileY(t, npad) == t.mt * MR * npad + (t.nb0 + t.g) * NLANE

\* The element of y that a lane of a tile is stored to.
Stored(t, npad, ti, nv, lane) == TileY(t, npad) + ti * npad + nv * NLANE + lane

\* gemm_st: zeros, and what the tiles store.
GemmSt(xb, wv, mpad, npad, kpad) ==
    LET tiles == Tiles(mpad, npad)
        out == Known([t \in tiles |-> Micro(xb, TileX(t, kpad), wv, TileW(t, kpad), kpad)])
        lanes == (0..MR - 1) \X (0..NB - 1) \X (0..NLANE - 1)
        by(i) == {s \in tiles \X lanes : Stored(s[1], npad, s[2][1], s[2][2], s[2][3]) = i}
    IN Known([i \in 0..mpad * npad - 1 |->
                IF by(i) = {} THEN 0 ELSE LET s == CHOOSE s \in by(i) : TRUE IN out[s[1]][s[2]]])

\* Bf16Linear::forward: x [m, k] by the transpose of w [n, k], padding dropped.
Bf16Linear(x, m, w, n, k) ==
    LET npad == PaddedTo(n, NTILE)
        y == GemmSt(PackX(x, m, k), PackWVnni(w, n, k), PaddedTo(m, MR), npad, PaddedTo(k, Pairs))
    IN Known([i \in 0..m * n - 1 |-> y[(i \div n) * npad + (i % n)]])

-----------------------------------------------------------------------------
(* Rows, a register at a time; the last register is masked to the row.     *)

\* The lanes of a row of n: body, and the tail's first ones.
BodyOf(n) == n - (n % NLANE)
TailLanes(n) == 0..(n % NLANE) - 1

\* exp512 of the difference to the row's maximum. What is less by more than
\* EXP_FLOOR allows vanishes; in a row of minus infinities alone all differences
\* are NaN, and MAXPS makes each of them EXP_FLOOR.
Rank(a) == CASE IsNumber(a) -> 2 [] a = Floor -> 1 [] OTHER -> 0
Exp512(a, vmax) == CASE Rank(a) < vmax -> 0
                     [] Rank(a) = vmax -> IF IsNumber(a) THEN Exp(a) ELSE 1

\* vsum in one lane: of every whole register, and of the tail's if it has it.
VSum(e, n, lane) ==
    LET whole == SumOf([c \in 1..BodyOf(n) \div NLANE |-> e[(c - 1) * NLANE + lane]], BodyOf(n) \div NLANE)
    IN IF lane \in TailLanes(n) THEN Plus(whole, e[BodyOf(n) + lane]) ELSE whole

\* row_avx512 and row_scalar of softmax.rs: the mask is added, the differences
\* to the maximum are exponentiated, and what they come to is divided by its sum.
Exponentiated(t, n) ==
    LET vmax == CHOOSE r \in 0..2 : /\ \A j \in 0..n - 1 : Rank(t[j]) <= r
                                    /\ \E j \in 0..n - 1 : Rank(t[j]) = r
    IN Known([j \in 0..n - 1 |-> Exp512(t[j], vmax)])

Divided(e, n) ==
    LET share == Inv(SumOf([l \in 1..NLANE |-> VSum(e, n, l - 1)], NLANE))
    IN Known([j \in 0..n - 1 |-> Times(e[j], share)])

RowAvx512(s, m) ==
    LET n == Cardinality(DOMAIN s)
    IN Divided(Exponentiated(Known([j \in 0..n - 1 |-> Plus(s[j], m[j])]), n), n)

\* geglu: the gate half of each row, then the up half.
Geglu(wide, rows, inter) ==
    LET base(i) == (i \div inter) * 2 * inter
        col(i) == i % inter
    IN Known([i \in 0..rows * inter - 1 |-> Times(Gelu(wide[base(i) + col(i)]), wide[base(i) + inter + col(i)])])

=============================================================================
