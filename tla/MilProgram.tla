------------------------------ MODULE MilProgram ------------------------------
(***************************************************************************)
(* A MIL program: how src/coreml_export/mil.rs builds one, how blob.rs     *)
(* lays out the weights it refers to, and what Core ML makes of both: the  *)
(* operations a kohagi graph uses, run on an input (external, after the    *)
(* MIL operations the emitter names).                                      *)
(*                                                                         *)
(* A graph is requested from the Builder as a sequence: immediate          *)
(* constants, constants in the weight file, and operations on the outputs  *)
(* of earlier requests.                                                    *)
(***************************************************************************)
EXTENDS Tensors, FiniteSets

-----------------------------------------------------------------------------
(* blob.rs: the weight file.                                               *)

ALIGN == 64
META_SIZE == 64

BytesPer(dtype) == CASE dtype = "fp16" -> 2 [] dtype = "int8" -> 1

Aligned(size) == ((size + ALIGN - 1) \div ALIGN) * ALIGN

\* Where the metadata of a blob appended to a file of this size goes.
Start(size) == Aligned(size)

EndOf(offset, dtype, values) == offset + META_SIZE + BytesPer(dtype) * Cardinality(DOMAIN values)

\* Writer::append, one blob after another: writes is a sequence of
\* [dtype, values], and the n-th is found at the n-th offset.
OffsetsIn(writes) ==
    LET size[n \in 0..Len(writes)] ==
            IF n = 0 THEN ALIGN ELSE EndOf(Start(size[n - 1]), writes[n].dtype, writes[n].values)
    IN Known([n \in 1..Len(writes) |-> Start(size[n - 1])])

\* Writer::finish: the blobs of the file, by their metadata offsets.
FileOf(writes) ==
    LET at == OffsetsIn(writes)
    IN {[offset |-> at[n], dtype |-> writes[n].dtype, values |-> writes[n].values] : n \in DOMAIN writes}

\* No blob runs into the next, and each is found by an aligned offset.
FileIsWhole(file) ==
    \A b \in file : /\ b.offset % ALIGN = 0 /\ b.offset >= ALIGN
                    /\ \A c \in file : b.offset < c.offset => EndOf(b.offset, b.dtype, b.values) <= c.offset

BlobAt(file, offset) == CHOOSE b \in file : b.offset = offset

-----------------------------------------------------------------------------
(* mil.rs: the Builder.                                                    *)

T(name, dtype, shape) == [name |-> name, dtype |-> dtype, shape |-> shape]

\* const_i32, const_fp16, const_bools, const_str: an immediate.
Const(t, values) == [kind |-> "const", outs |-> <<t>>, args |-> <<>>, source |-> "immediate", val |-> values]

\* const_blob, and dequantize_int8 with one scale per row.
Blob(t, offset) == [kind |-> "const", outs |-> <<t>>, args |-> <<>>, source |-> "blob", val |-> offset]
Dequantize(t, offset, scales) ==
    [kind |-> "constexpr_affine_dequantize", outs |-> <<t>>, args |-> <<>>, source |-> "blob",
     val |-> offset, scales |-> scales]

\* op, op_variadic and op_multi_output: args takes a parameter to the names bound to it.
OpMulti(kind, outs, args) == [kind |-> kind, outs |-> outs, args |-> args, source |-> "none"]
Op(kind, t, args) == OpMulti(kind, <<t>>, args)

\* check_count
CountIsRight(r) == r.source = "immediate" => Len(r.val) = Product(r.outs[1].shape)

\* Mutant: a constant is looked up by its values, whatever its shape.
InternKeyOfValues(r) == <<r.outs[1].dtype, r.val>>

\* An immediate is its type and payload; its name is not part of it.
InternKey(r) == <<r.outs[1].dtype, r.outs[1].shape, r.val>>

\* push_const: the request each stands for, which for an immediate is the first
\* of its key.
FirstOf(requests) ==
    LET key == Known([i \in {i \in DOMAIN requests : requests[i].source = "immediate"} |-> InternKey(requests[i])])
        same(i) == {j \in DOMAIN key : j <= i /\ key[j] = key[i]}
    IN Known([i \in DOMAIN requests |-> IF i \notin DOMAIN key THEN i
                                        ELSE CHOOSE j \in same(i) : \A k \in same(i) : j <= k])

\* What is bound by the names of the immediates asked for again: the one there is.
HandlesOf(requests, first) ==
    LET again == {i \in DOMAIN requests : first[i] # i}
        nameOf(i) == requests[i].outs[1].name
    IN Known([name \in {nameOf(i) : i \in again} |-> nameOf(first[CHOOSE i \in again : nameOf(i) = name])])

BoundBy(handle, name) == IF name \in DOMAIN handle THEN handle[name] ELSE name

\* push_op
Placed(r, handle) ==
    [r EXCEPT !.args = [p \in DOMAIN r.args |-> [k \in DOMAIN r.args[p] |-> BoundBy(handle, r.args[p][k])]]]

PushedOf(requests, first) ==
    LET pushed[n \in 0..Len(requests)] ==
            IF n = 0 THEN <<>> ELSE IF first[n] = n THEN Append(pushed[n - 1], n) ELSE pushed[n - 1]
    IN pushed[Len(requests)]

Build(inputs, requests, output) ==
    LET first == FirstOf(requests)
        handle == HandlesOf(requests, first)
        kept == PushedOf(requests, first)
    IN [inputs |-> inputs, outputs |-> <<output>>,
        ops |-> Known([k \in DOMAIN kept |-> Placed(requests[kept[k]], handle)])]

-----------------------------------------------------------------------------
(* What Core ML computes. A value is a tensor with its element type.       *)

Val(dtype, t) == [dtype |-> dtype, shape |-> t.shape, data |-> t.data]

\* Integers are integers, and fp16 is a number of Tensors.
IntSum(a, b) == a + b

ListOf(v) == [k \in 1..Product(v.shape) |-> v.data[k - 1]]
One(v) == v.data[0]

InsertOne(shape, a) == SubSeq(shape, 1, a) \o <<1>> \o SubSeq(shape, a + 1, Len(shape))

\* The shape with its -1 replaced by what is left over.
Inferred(shape, elements) ==
    LET rest == Product([k \in DOMAIN shape |-> IF shape[k] = -1 THEN 1 ELSE shape[k]])
    IN [k \in DOMAIN shape |-> IF shape[k] = -1 THEN elements \div rest ELSE shape[k]]

\* split: the parts of x along an axis.
PartsOf(x, a, sizes) ==
    LET start[k \in 1..Len(sizes)] == IF k = 1 THEN 0 ELSE start[k - 1] + sizes[k - 1]
    IN [k \in DOMAIN sizes |-> Val(x.dtype, Narrow(x, a, start[k], sizes[k]))]

\* slice_by_index: a masked end is the end of the axis.
Slice(x, begin, end, endMask) ==
    LET to(k) == IF endMask[k] THEN x.shape[k] ELSE end[k]
        cut[k \in 0..Len(begin)] ==
            IF k = 0 THEN x ELSE Narrow(cut[k - 1], k - 1, begin[k], to(k) - begin[k])
    IN cut[Len(begin)]

\* The outputs of an operation on the values of env, with weights from file.
Outputs(op, env, file) ==
    LET v(p) == env[op.args[p][1]]
        list(p) == ListOf(v(p))
        one(r) == <<r>>
        num(t) == one(Val(v("x").dtype, t))
        declared == op.outs[1]
    IN CASE op.kind = "const" /\ op.source = "immediate" ->
              one(Val(declared.dtype, Tensor(declared.shape, [i \in 0..Len(op.val) - 1 |-> op.val[i + 1]])))
         [] op.kind = "const" /\ op.source = "blob" ->
              LET b == BlobAt(file, op.val) IN one(Val(b.dtype, Tensor(declared.shape, b.values)))
         [] op.kind = "constexpr_affine_dequantize" ->
              LET b == BlobAt(file, op.val)
                  width == Product(declared.shape) \div Len(op.scales)
              IN one(Val("fp16", Tensor(declared.shape,
                    [i \in DOMAIN b.values |-> Times(b.values[i], op.scales[(i \div width) + 1])])))
         [] op.kind = "expand_dims" -> num(Reshape(v("x"), InsertOne(v("x").shape, list("axes")[1])))
         [] op.kind = "squeeze" ->
              LET a == list("axes")[1] + 1
                  s == v("x").shape
              IN num(Reshape(v("x"), SubSeq(s, 1, a - 1) \o SubSeq(s, a + 1, Len(s))))
         [] op.kind = "tile" ->
              num(Broadcast(v("x"), [k \in DOMAIN v("x").shape |-> v("x").shape[k] * list("reps")[k]]))
         [] op.kind = "cast" ->
              one(Val(One(v("dtype")), IF One(v("dtype")) = "bool" THEN Map1(LAMBDA a : a # 0, v("x")) ELSE v("x")))
         [] op.kind = "greater_equal" -> one(Val("bool", Map2(LAMBDA a, b : a >= b, v("x"), v("y"))))
         [] op.kind = "select" -> one(Val(v("a").dtype, Select(v("cond"), v("a"), v("b"))))
         [] op.kind = "sub" -> num(Map2(LAMBDA a, b : Plus(a, Neg(b)), v("x"), v("y")))
         [] op.kind = "add" /\ v("x").dtype = "int32" -> num(Map2(IntSum, v("x"), v("y")))
         [] op.kind = "add" /\ v("x").dtype # "int32" -> num(Add(v("x"), v("y")))
         [] op.kind = "mul" -> num(Mul(v("x"), v("y")))
         [] op.kind = "gather" -> num(GatherRows(v("x"), v("indices")))
         [] op.kind = "layer_norm" -> num(LayerNorm(v("x"), v("gamma"), One(v("epsilon"))))
         [] op.kind = "linear" -> num(Add(Linear(v("x"), v("weight")), v("bias")))
         [] op.kind = "reshape" -> num(Reshape(v("x"), Inferred(list("shape"), Elements(v("x")))))
         [] op.kind = "transpose" -> num(Transpose(v("x"), list("perm")))
         [] op.kind = "split" -> PartsOf(v("x"), One(v("axis")), list("split_sizes"))
         [] op.kind = "slice_by_index" -> num(Slice(v("x"), list("begin"), list("end"), list("end_mask")))
         [] op.kind = "concat" ->
              LET x == env[op.args.values[1]]
              IN one(Val(x.dtype, Concat(x, env[op.args.values[2]], One(v("axis")))))
         [] op.kind = "matmul" ->
              num(IF One(v("transpose_y")) THEN MatMulT(v("x"), v("y")) ELSE MatMul(v("x"), v("y")))
         [] op.kind = "softmax" -> num(SoftmaxRows(v("x")))
         [] op.kind = "gelu" -> num(Map1(Gelu, v("x")))
         [] op.kind = "silu" -> num(Map1(Silu, v("x")))

\* Step over 1..n from init on. Sixteen at a time, and each sixteen only when
\* the ones before are there: a fold this long would be as deep as it is long.
Through(Step(_, _), init, n) ==
    LET some(before, from) ==
            LET s[k \in 0..16] == IF k = 0 \/ from + k > n THEN (IF k = 0 THEN before ELSE s[k - 1])
                                  ELSE Step(s[k - 1], from + k)
            IN s[16]
        all[c \in 0..((n + 15) \div 16)] ==
            IF c = 0 THEN init
            ELSE LET before == all[c - 1]
                 IN IF DOMAIN before = {} THEN before ELSE some(before, (c - 1) * 16)
    IN all[(n + 15) \div 16]

\* The values of a function's names, given those of its inputs.
Values(function, inputs, file) ==
    LET ops == function.ops
        step(env, n) ==
            LET outs == Known(Outputs(ops[n], env, file))
            IN Known([name \in {ops[n].outs[k].name : k \in DOMAIN outs} |->
                         outs[CHOOSE k \in DOMAIN outs : ops[n].outs[k].name = name]] @@ env)
    IN Through(step, inputs, Len(ops))

-----------------------------------------------------------------------------
(* What Core ML asks of a program before it runs it.                       *)

OutNames(op) == {op.outs[k].name : k \in DOMAIN op.outs}
Uses(op) == UNION {{op.args[p][k] : k \in DOMAIN op.args[p]} : p \in DOMAIN op.args}

\* Every name is given once, and before it is used.
DefinesBeforeUse(function) ==
    LET ops == function.ops
        inputs == {function.inputs[k].name : k \in DOMAIN function.inputs}
        upTo == Known([n \in 0..Len(ops) |-> inputs \union UNION {OutNames(ops[m]) : m \in 1..n}])
    IN /\ \A n \in DOMAIN ops : /\ Uses(ops[n]) \subseteq upTo[n - 1]
                                /\ OutNames(ops[n]) \cap upTo[n - 1] = {}
       /\ {function.outputs[k] : k \in DOMAIN function.outputs} \subseteq upTo[Len(ops)]

\* What every request is made of.
IsRequest(r) == /\ {"outs", "args", "source"} \subseteq DOMAIN r
                /\ r.source = "immediate" => "val" \in DOMAIN r

\* Requests made in order, before any of them is interned: of an immediate, one
\* name, which is not the output's, and as many values as its shape says.
AreSound(inputs, requests, output) ==
    /\ Len(requests) \in Nat /\ DOMAIN requests = 1..Len(requests)
    /\ DefinesBeforeUse([inputs |-> inputs, outputs |-> <<output>>, ops |-> requests])
    /\ \A n \in DOMAIN requests :
          /\ IsRequest(requests[n])
          /\ requests[n].source = "immediate" =>
                /\ DOMAIN requests[n].outs = {1} /\ requests[n].outs[1].name # output
                /\ CountIsRight(requests[n])

\* axis and batch_dims are scalars, lists of axes and sizes are vectors.
RankOf(param) ==
    CASE param \in {"axis", "batch_dims", "epsilon", "dtype", "mode", "transpose_x", "transpose_y",
                    "interleave", "validate_indices"} -> 0
      [] param \in {"axes", "shape", "perm", "split_sizes", "reps", "begin", "end", "end_mask", "gamma", "bias"} -> 1
      [] OTHER -> -1

\* The operations whose outputs are not of the type they declare, or whose
\* parameters are not of the rank they should be.
Misdeclared(function, env) ==
    {n \in DOMAIN function.ops :
        LET op == function.ops[n]
        IN \/ \E k \in DOMAIN op.outs :
                 LET v == env[op.outs[k].name]
                 IN \/ v.dtype # op.outs[k].dtype \/ v.shape # op.outs[k].shape
                    \/ Cardinality(DOMAIN v.data) # Product(v.shape)
           \/ \E p \in DOMAIN op.args : RankOf(p) >= 0 /\ Len(env[op.args[p][1]].shape) # RankOf(p)}

=============================================================================
