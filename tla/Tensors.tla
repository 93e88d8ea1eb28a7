-------------------------------- MODULE Tensors --------------------------------
(***************************************************************************)
(* Tensors, and the arithmetic every forward pass is made of: candle's     *)
(* operations, as src/encoder.rs and src/bf16 use them, and the operations *)
(* of a MIL program, as src/coreml_export uses them.                       *)
(*                                                                         *)
(* Precision is abstracted away. A finite number is a residue modulo the   *)
(* prime P, and a function that is not a polynomial (exp, erf, cos, 1/sqrt)*)
(* is one fixed function of residues: two ways to compute a vector that    *)
(* agree for unknown functions and numbers agree as formulas. Three        *)
(* numbers keep a meaning of their own:                                    *)
(*   Floor   finite, and so low that exp of it vanishes beside any other:  *)
(*           -10000 of the graph, f32::MIN of candle's padding mask        *)
(*   NegInf  minus infinity                                                *)
(*   NaN     what 0 * NegInf and the softmax of a row of NegInf are.       *)
(***************************************************************************)
EXTENDS Integers, Sequences, TLC

P == 61

NegInf == -1
Floor == -2
NaN == -3

Numbers == 0..P - 1
IsNumber(a) == a >= 0

\* f itself. TLC evaluates f[x] at every application, but keeps all the values
\* of a function that it has compared.
Known(f) == IF f = f THEN f ELSE f

-----------------------------------------------------------------------------
(* Scalars.                                                                *)

Plus(a, b) == CASE IsNumber(a) /\ IsNumber(b) -> (a + b) % P
                [] NaN \in {a, b} -> NaN
                [] NaN \notin {a, b} /\ NegInf \in {a, b} -> NegInf
                [] OTHER -> Floor

\* Floor and NegInf are only ever multiplied by a weight that softmax gave, or
\* by the 0 and 1 of a mask.
Times(a, b) == CASE IsNumber(a) /\ IsNumber(b) -> (a * b) % P
                 [] NaN \in {a, b} \/ ({a, b} = {NegInf, 0}) -> NaN
                 [] {a, b} = {Floor, 0} -> 0
                 [] OTHER -> IF NegInf \in {a, b} THEN NegInf ELSE Floor

Neg(a) == Times(P - 1, a)

\* The inverses modulo P, once.
Inverses == Known([a \in Numbers |-> IF a = 0 THEN 0 ELSE CHOOSE b \in Numbers : (a * b) % P = 1])
Inv(a) == IF IsNumber(a) THEN Inverses[a] ELSE a

\* Functions that no identity is known of.
Gelu(a) == IF IsNumber(a) THEN (a * a * a + 7 * a * a + 2 * a) % P ELSE a
Silu(a) == IF IsNumber(a) THEN (a * a * a * 5 + a * a + 11 * a) % P ELSE a
Bf16(a) == IF IsNumber(a) THEN a - (a % 2) ELSE a    \* rounding, of a finite number
Exp(a) == (a * a * 3 + a * 17 + 1) % P
RSqrt(a) == IF IsNumber(a) THEN (a * a * 13 + 29 * a + 5) % P ELSE a

\* sum over k in 1..n of f[k]
SumOf(f, n) == LET s[k \in 0..n] == IF k = 0 THEN 0 ELSE Plus(s[k - 1], f[k]) IN s[n]

\* The inner product of f and g on 0..n-1.
Dot(f, g, n) ==
    LET s[k \in 0..n] == IF k = 0 THEN 0 ELSE Plus(s[k - 1], Times(f[k - 1], g[k - 1])) IN s[n]

-----------------------------------------------------------------------------
(* A tensor is its shape and its elements, row-major, from 0.              *)

Product(s) == LET p[k \in 0..Len(s)] == IF k = 0 THEN 1 ELSE p[k - 1] * s[k] IN p[Len(s)]

Tensor(shape, data) == [shape |-> shape \o <<>>, data |-> Known(data)]
Elements(x) == Product(x.shape)
Scalar(v) == Tensor(<<>>, [i \in {0} |-> v])

\* A negative axis counts from the last.
Axis(x, a) == IF a < 0 THEN Len(x.shape) + a + 1 ELSE a + 1
Dim(x, a) == x.shape[Axis(x, a)]

Strides(shape) == [k \in DOMAIN shape |-> Product(SubSeq(shape, k + 1, Len(shape)))]

\* x read through a base and one stride per axis: what transpose, slice,
\* split and broadcast are.
View(x, shape, base, strides) ==
    LET own == Strides(shape)
        at(i) == LET sum[k \in 0..Len(shape)] ==
                         IF k = 0 THEN base
                                  ELSE sum[k - 1] + ((i \div own[k]) % shape[k]) * strides[k]
                 IN sum[Len(shape)]
    IN Tensor(shape, [i \in 0..Product(shape) - 1 |-> x.data[at(i)]])

\* x as wide as shape: missing axes are added in front, an axis of 1 is repeated.
Broadcast(x, shape) ==
    LET own == Strides(x.shape)
        lacks == Len(shape) - Len(x.shape)
    IN IF x.shape = shape THEN x
       ELSE View(x, shape, 0, [k \in DOMAIN shape |->
                                 IF k <= lacks \/ x.shape[k - lacks] = 1 THEN 0 ELSE own[k - lacks]])

\* The shape two operands broadcast to.
Wider(s, t) ==
    LET n == IF Len(s) < Len(t) THEN Len(t) ELSE Len(s)
        dim(u, k) == IF k <= n - Len(u) THEN 1 ELSE u[k - (n - Len(u))]
    IN [k \in 1..n |-> IF dim(s, k) < dim(t, k) THEN dim(t, k) ELSE dim(s, k)]

Reshape(x, shape) == Tensor(shape, x.data)

\* axes[k]: the axis of x, from 0, that becomes the k-th.
Transpose(x, axes) ==
    LET own == Strides(x.shape)
    IN View(x, [k \in DOMAIN axes |-> x.shape[axes[k] + 1]], 0,
            [k \in DOMAIN axes |-> own[axes[k] + 1]])

\* n entries of an axis, from the one at start on.
Narrow(x, a, start, n) ==
    LET own == Strides(x.shape)
    IN View(x, [x.shape EXCEPT ![Axis(x, a)] = n], start * own[Axis(x, a)], own)

\* x and y side by side along an axis.
Concat(x, y, a) ==
    LET k == Axis(x, a)
        shape == [x.shape EXCEPT ![k] = @ + y.shape[k]]
        own == Strides(shape)[k]
        \* i = (block * width + at) * own + rest
        at(i) == (i \div own) % shape[k]
        block(i) == i \div (own * shape[k])
        from(z, i, j) == z.data[(block(i) * z.shape[k] + j) * own + (i % own)]
    IN Tensor(shape, [i \in 0..Product(shape) - 1 |->
                        IF at(i) < x.shape[k] THEN from(x, i, at(i))
                                              ELSE from(y, i, at(i) - x.shape[k])])

-----------------------------------------------------------------------------
(* Elementwise, with broadcasting; and the products.                       *)

Map1(Op(_), x) == Tensor(x.shape, [i \in DOMAIN x.data |-> Op(x.data[i])])

Map2(Op(_, _), x, y) ==
    LET shape == Wider(x.shape, y.shape)
        u == Broadcast(x, shape)
        v == Broadcast(y, shape)
    IN Tensor(shape, [i \in 0..Product(shape) - 1 |-> Op(u.data[i], v.data[i])])

Add(x, y) == Map2(Plus, x, y)
Mul(x, y) == Map2(Times, x, y)
Scaled(x, c) == Map1(LAMBDA a : Times(a, c), x)

Select(cond, x, y) ==
    LET shape == Wider(cond.shape, Wider(x.shape, y.shape))
        c == Broadcast(cond, shape)
        u == Broadcast(x, shape)
        v == Broadcast(y, shape)
    IN Tensor(shape, [i \in 0..Product(shape) - 1 |-> IF c.data[i] THEN u.data[i] ELSE v.data[i]])

\* x [.., m, k] by the transpose of y [.., n, k], batch by batch.
MatMulT(x, y) ==
    LET m == Dim(x, -2)
        n == Dim(y, -2)
        k == Dim(x, -1)
        row(z, r) == [j \in 0..k - 1 |-> z.data[r * k + j]]
        out(i) == LET b == i \div (m * n)
                  IN Dot(row(x, b * m + ((i % (m * n)) \div n)), row(y, b * n + (i % n)), k)
        shape == [x.shape EXCEPT ![Len(x.shape)] = n]
    IN Tensor(shape, [i \in 0..Product(shape) - 1 |-> out(i)])

\* The last two axes exchanged.
Flipped(x) ==
    LET n == Len(x.shape)
    IN Transpose(x, [k \in 1..n |-> CASE k = n - 1 -> n - 1 [] k = n -> n - 2 [] OTHER -> k - 1])

MatMul(x, y) == MatMulT(x, Flipped(y))

\* Every row of x by the transpose of the weight [out, in].
Linear(x, weight) ==
    LET rows == Elements(x) \div Dim(x, -1)
        flat == MatMulT(Reshape(x, <<rows, Dim(x, -1)>>), weight)
    IN Reshape(flat, [x.shape EXCEPT ![Len(x.shape)] = Dim(weight, 0)])

\* Row r of the table for every id.
GatherRows(table, ids) ==
    LET w == Dim(table, 1)
    IN Tensor(ids.shape \o <<w>>,
              [i \in 0..Elements(ids) * w - 1 |-> table.data[ids.data[i \div w] * w + (i % w)]])

-----------------------------------------------------------------------------
(* What runs along the last axis.                                          *)

\* Op takes a row, as a function on 0..n-1, to a row.
Rows(Op(_, _), x) ==
    LET n == Dim(x, -1)
        row == Known([r \in 0..Elements(x) \div n - 1 |->
                         Known(Op(Known([j \in 0..n - 1 |-> x.data[r * n + j]]), n))])
    IN Tensor(x.shape, [i \in 0..Elements(x) - 1 |-> row[i \div n][i % n]])

\* The weights of a row, divided by their sum.
Shares(weight, n) ==
    LET share == Inv(SumOf([j \in 1..n |-> weight[j - 1]], n))
    IN [j \in 0..n - 1 |-> Times(weight[j], share)]

\* exp of what is far below the row's maximum is an exact zero.
SoftWeight(values, a) ==
    LET counts == IF values \cap Numbers # {} THEN IsNumber(a) ELSE a = Floor
    IN IF ~counts THEN 0 ELSE IF IsNumber(a) THEN Exp(a) ELSE 1

SoftmaxRow(scores, n) ==
    LET row == Known(scores)
        values == {row[j] : j \in 0..n - 1}
    IN IF NaN \in values \/ values = {NegInf} THEN [j \in 0..n - 1 |-> NaN]
       ELSE Known(Shares(Known([j \in 0..n - 1 |-> SoftWeight(values, row[j])]), n))

SoftmaxRows(x) == Rows(SoftmaxRow, x)

NormRow(row, n, gamma, eps) ==
    LET v == Known(row)
        mean == Times(SumOf([j \in 1..n |-> v[j - 1]], n), Inv(n % P))
        off == Known([j \in 0..n - 1 |-> Plus(v[j], Neg(mean))])
        rs == RSqrt(Plus(Times(Dot(off, off, n), Inv(n % P)), eps))
    IN Known([j \in 0..n - 1 |-> Times(Times(off[j], rs), gamma[j])])

LayerNorm(x, gamma, eps) == Rows(LAMBDA row, n : NormRow(row, n, gamma.data, eps), x)

-----------------------------------------------------------------------------
(* Rotary angles: cos and sin of what position, frequency and theta make.  *)

\* frequency i of half of them; any function that tells them apart.
CosOf(theta, i, pos) == (theta * 7 + (i + 2) * pos * 11 + pos * pos * theta + 3) % P
SinOf(theta, i, pos) == (theta * 5 + (i + 3) * pos * 19 + pos * pos * (theta + 1) + 8) % P

=============================================================================
