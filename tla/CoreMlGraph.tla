------------------------------ MODULE CoreMlGraph ------------------------------
(***************************************************************************)
(* The graph kohagi emits for Core ML: src/coreml_export/modernbert.rs (a  *)
(* block) and encoder.rs (the weights, the prologue, the functions), as    *)
(* requests to the Builder of MilProgram. Names and their order are those  *)
(* of the code.                                                            *)
(*                                                                         *)
(* cfg is the EncoderConfig, ckpt the tensors of a safetensors file by     *)
(* their names. A checkpoint's numbers are finite.                         *)
(***************************************************************************)
EXTENDS MilProgram, ModernBert

-----------------------------------------------------------------------------
(* EncoderConfig::from_json and check_lengths: what is refused.            *)

HeadDimOk(cfg) ==
    /\ cfg.heads # 0 /\ cfg.hidden % cfg.heads = 0
    /\ (cfg.hidden \div cfg.heads) % 2 = 0

\* graph_assumptions: no biases, no scaled rope, and the layers the interval
\* says are global are those layer_types says are.
GraphAssumptions(cfg) ==
    /\ ~cfg.biases /\ cfg.rope_type = "default"
    /\ \A l \in DOMAIN cfg.layer_types :
          (cfg.layer_types[l] = "full_attention") <=> (cfg.global_every # 0 /\ (l - 1) % cfg.global_every = 0)

Supported(cfg) == /\ HeadDimOk(cfg) /\ cfg.global_every # 0 /\ GraphAssumptions(cfg)
                  /\ cfg.activation \in {"gelu", "silu"}

\* MAX_SEQUENCE_LENGTH, past what any instance has.
MaxSequenceLength == 4096

LengthsOk(cfg, lengths) ==
    /\ lengths # <<>>
    /\ \A k \in DOMAIN lengths : lengths[k] <= cfg.max_positions /\ lengths[k] <= MaxSequenceLength

-----------------------------------------------------------------------------
(* Checkpoint::get, quantize_rows, store, write_shared, write_rope_tables. *)

StoredUnder(ckpt, name) == IF name \in DOMAIN ckpt THEN name ELSE "model." \o name

Gettable(ckpt, name, shape) ==
    StoredUnder(ckpt, name) \in DOMAIN ckpt /\ ckpt[StoredUnder(ckpt, name)].shape = shape

Get(ckpt, name) == ckpt[StoredUnder(ckpt, name)]

\* Rounding to fp16; and to one of 255 steps, of a number of Tensors.
Fp16(a) == a - (a % 2)
Step127(a) == a - (a % 3)

\* max / 127 of a row, or 1 for a row of zeros: a number that is not 0.
RowScale(row) ==
    LET n == Cardinality(DOMAIN row)
    IN IF \A j \in DOMAIN row : row[j] = 0 THEN 1
       ELSE 1 + (SumOf([j \in 1..n |-> row[j - 1]], n) % (P - 1))

QuantizeRows(values, rows) ==
    LET width == Cardinality(DOMAIN values) \div rows
        row(r) == [j \in 0..width - 1 |-> values[r * width + j]]
        scale == Known([r \in 1..rows |-> RowScale(row(r - 1))])
    IN [scales |-> scale,
        values |-> Known([i \in DOMAIN values |-> Step127(Times(values[i], Inv(scale[(i \div width) + 1])))])]

\* store: the tensor under a tag, int8 with its scales or fp16.
Store(tag, x, quantize) ==
    LET q == QuantizeRows(x.data, x.shape[1])
    IN IF quantize THEN [tag |-> tag, dtype |-> "int8", values |-> q.values, scales |-> q.scales]
                   ELSE [tag |-> tag, dtype |-> "fp16", values |-> Map1(Fp16, x).data]

Plain(tag, values) == [tag |-> tag, dtype |-> "fp16", values |-> values]

Tag(l, what) == "l" \o ToString(l) \o "_" \o what

\* The tensors of a layer that write_shared reads.
LayerReads(cfg, l) ==
    LET h == cfg.hidden
        at(what, tag, shape, kind) == [name |-> LayerName(l, what), tag |-> Tag(l, tag), shape |-> shape, kind |-> kind]
    IN (IF l > 0 THEN <<at("attn_norm", "attn_norm", <<h>>, "norm")>> ELSE <<>>)
       \o <<at("attn.Wqkv", "wqkv", <<3 * h, h>>, "projection"), at("attn.Wo", "wo", <<h, h>>, "projection"),
            at("mlp_norm", "mlp_norm", <<h>>, "norm"),
            at("mlp.Wi", "mlp_wi", <<2 * cfg.inter, h>>, "projection"),
            at("mlp.Wo", "mlp_wo", <<h, cfg.inter>>, "projection")>>

OuterRead(cfg, name, tag, shape, kind) == [name |-> name, tag |-> tag, shape |-> shape, kind |-> kind]

Reads(cfg) ==
    LET layers[l \in 0..cfg.layers] == IF l = 0 THEN <<>> ELSE layers[l - 1] \o LayerReads(cfg, l - 1)
    IN <<OuterRead(cfg, "embeddings.tok_embeddings.weight", "tok_embeddings", <<cfg.vocab, cfg.hidden>>, "embeddings"),
         OuterRead(cfg, "embeddings.norm.weight", "embeddings_norm", <<cfg.hidden>>, "norm")>>
       \o layers[cfg.layers]
       \o <<OuterRead(cfg, "final_norm.weight", "final_norm", <<cfg.hidden>>, "norm")>>

\* "?" of every get.
AllGettable(cfg, ckpt) == \A k \in DOMAIN Reads(cfg) : Gettable(ckpt, Reads(cfg)[k].name, Reads(cfg)[k].shape)

Zeros(tag, n) == Plain(tag, [i \in 0..n - 1 |-> 0])

\* write_shared. The biases ModernBERT has not got are zeros, one blob a width.
WriteShared(cfg, ckpt, opts) ==
    LET reads == Reads(cfg)
        quantized(kind) == CASE kind = "embeddings" -> opts.quantize_embeddings
                             [] kind = "projection" -> opts.quantize_projections
                             [] OTHER -> FALSE
        stored == [k \in DOMAIN reads |-> Store(reads[k].tag, Get(ckpt, reads[k].name), quantized(reads[k].kind))]
        zeros == <<Zeros("zeros_3h", 3 * cfg.hidden), Zeros("zeros_h", cfg.hidden),
                   Zeros("zeros_2i", 2 * cfg.inter)>>
    IN SubSeq(stored, 1, 2) \o zeros \o SubSeq(stored, 3, Len(stored))

RopeTag(seq, global, what) == ToString(seq) \o (IF global THEN "_global_" ELSE "_local_") \o what

\* rope_tables and write_rope: the angles of a head's first half, twice.
WriteRope(cfg, seq, global) ==
    LET d == HeadDim(cfg)
        theta == IF global THEN cfg.global_theta ELSE cfg.local_theta
        freq(i) == (i % d) % (d \div 2)
        cos == Known([i \in 0..seq * d - 1 |-> CosOf(theta, freq(i), i \div d)])
        sin == Known([i \in 0..seq * d - 1 |-> SinOf(theta, freq(i), i \div d)])
    IN <<Plain(RopeTag(seq, global, "cos"), cos), Plain(RopeTag(seq, global, "sin"), sin)>>

\* Everything that goes into weight.bin for these lengths, which are sorted.
Writes(cfg, ckpt, lengths, opts) ==
    LET ropes[k \in 0..Len(lengths)] ==
            IF k = 0 THEN <<>> ELSE ropes[k - 1] \o (WriteRope(cfg, lengths[k], FALSE) \o WriteRope(cfg, lengths[k], TRUE))
    IN WriteShared(cfg, ckpt, opts) \o ropes[Len(lengths)]

\* The offsets and scales of what was written, by tag.
Offsets(writes) ==
    LET at == OffsetsIn(writes)
        index(tag) == CHOOSE n \in DOMAIN writes : writes[n].tag = tag
    IN Known([tag \in {writes[n].tag : n \in DOMAIN writes} |-> [offset |-> at[index(tag)], written |-> writes[index(tag)]]])

\* Stored::bind_in.
BindIn(off, tag, t) ==
    LET s == off[tag]
    IN IF s.written.dtype = "int8" THEN Dequantize(t, s.offset, s.written.scales) ELSE Blob(t, s.offset)

-----------------------------------------------------------------------------
(* encoder.rs, prologue; window_condition and BLOCKED of modernbert.rs.    *)

\* Mutant: minus infinity.
BlockedInfinitely == NegInf

BLOCKED == Floor

WindowCondition(seq, window) ==
    LET reach == window \div 2
        i(k) == k \div seq
        j(k) == k % seq
    IN [n \in 1..seq * seq |-> i(n - 1) - j(n - 1) \notin -reach..reach]

I(name, shape, values) == Const(T(name, "int32", shape), values)
H(name, shape) == T(name, "fp16", shape)
Axes(name, a) == I(name, <<1>>, <<a>>)

Prologue(cfg, off, seq) ==
    LET square == <<1, 1, seq, seq>>
    IN << Axes("m_ax1", 1),
          Op("expand_dims", T("m3", "int32", <<1, 1, seq>>), [x |-> <<"attention_mask">>, axes |-> <<"m_ax1">>]),
          Axes("m_ax2", 2),
          Op("expand_dims", T("m4", "int32", <<1, 1, 1, seq>>), [x |-> <<"m3">>, axes |-> <<"m_ax2">>]),
          I("m_reps", <<4>>, <<1, 1, seq, 1>>),
          Op("tile", T("m_tiled", "int32", square), [x |-> <<"m4">>, reps |-> <<"m_reps">>]),
          Const(T("m_dtype_fp16", "string", <<>>), <<"fp16">>),
          Op("cast", H("m_fp16", square), [x |-> <<"m_tiled">>, dtype |-> <<"m_dtype_fp16">>]),
          Const(H("m_one", <<>>), <<1>>),
          Op("sub", H("m_inverted", square), [x |-> <<"m_one">>, y |-> <<"m_fp16">>]),
          Const(T("m_dtype_bool", "string", <<>>), <<"bool">>),
          Op("cast", T("m_is_padding", "bool", square), [x |-> <<"m_inverted">>, dtype |-> <<"m_dtype_bool">>]),
          Const(H("m_blocked", <<>>), <<BLOCKED>>),
          Op("select", H("global_mask", square),
             [cond |-> <<"m_is_padding">>, a |-> <<"m_blocked">>, b |-> <<"m_inverted">>]),
          Const(T("m_outside", "bool", square), WindowCondition(seq, cfg.local_attention)),
          Op("select", H("local_mask", square),
             [cond |-> <<"m_outside">>, a |-> <<"m_blocked">>, b |-> <<"global_mask">>]),
          I("id_zero", <<>>, <<0>>),
          Op("greater_equal", T("id_ok", "bool", <<1, seq>>), [x |-> <<"input_ids">>, y |-> <<"id_zero">>]),
          I("id_vocab", <<>>, <<cfg.vocab>>),
          Op("add", T("id_wrapped", "int32", <<1, seq>>), [x |-> <<"input_ids">>, y |-> <<"id_vocab">>]),
          Op("select", T("id_safe", "int32", <<1, seq>>),
             [cond |-> <<"id_ok">>, a |-> <<"input_ids">>, b |-> <<"id_wrapped">>]),
          BindIn(off, "tok_embeddings", H("tok_embeddings", <<cfg.vocab, cfg.hidden>>)),
          I("emb_axis", <<>>, <<0>>), I("emb_batch_dims", <<>>, <<0>>),
          Const(T("emb_validate", "bool", <<>>), <<FALSE>>),
          Op("gather", H("embedded", <<1, seq, cfg.hidden>>),
             [x |-> <<"tok_embeddings">>, indices |-> <<"id_safe">>, axis |-> <<"emb_axis">>,
              batch_dims |-> <<"emb_batch_dims">>, validate_indices |-> <<"emb_validate">>]) >>

-----------------------------------------------------------------------------
(* modernbert.rs: rotate_half, attention, feed_forward, block.             *)

Norming(out, shape, x, gamma, axes) ==
    Op("layer_norm", H(out, shape), [x |-> <<x>>, axes |-> <<axes>>, epsilon |-> <<"eps">>, gamma |-> <<gamma>>])

\* The requests that turn x, tagged tag, by the tables cos and sin.
RotateHalf(cfg, seq, tag, x, cos, sin) ==
    LET d == HeadDim(cfg)
        half == d \div 2
        t(what) == tag \o "_" \o what
        full == <<1, cfg.heads, seq, d>>
        halved == <<1, cfg.heads, seq, half>>
        slice(what, out, begin, end, mask) ==
            << I(t(what \o "_begin"), <<4>>, begin), I(t(what \o "_end"), <<4>>, end),
               Const(T(t(what \o "_mask"), "bool", <<4>>), mask),
               Op("slice_by_index", H(t(out), halved),
                  [x |-> <<x>>, begin |-> <<t(what \o "_begin")>>, end |-> <<t(what \o "_end")>>,
                   end_mask |-> <<t(what \o "_mask")>>]) >>
    IN << Op("mul", H(t("cos"), full), [x |-> <<x>>, y |-> <<cos>>]) >>
       \o slice("lo", "x1", <<0, 0, 0, 0>>, <<1, cfg.heads, seq, half>>, <<TRUE, TRUE, TRUE, FALSE>>)
       \o slice("hi", "x2", <<0, 0, 0, half>>, <<1, cfg.heads, seq, d>>, <<TRUE, TRUE, TRUE, TRUE>>)
       \o << Const(H(t("neg1"), <<>>), <<Neg(1)>>),
             Op("mul", H(t("negx2"), halved), [x |-> <<t("x2")>>, y |-> <<t("neg1")>>]),
             I(t("cat_axis"), <<>>, <<-1>>), Const(T(t("interleave"), "bool", <<>>), <<FALSE>>),
             Op("concat", H(t("rot"), full),
                [axis |-> <<t("cat_axis")>>, interleave |-> <<t("interleave")>>, values |-> <<t("negx2"), t("x1")>>]),
             Op("mul", H(t("sin"), full), [x |-> <<t("rot")>>, y |-> <<sin>>]),
             Op("add", H(t("rope"), full), [x |-> <<t("cos")>>, y |-> <<t("sin")>>]) >>

\* linear and the weights it takes: the weight under its tag, zeros for a bias.
Linearly(off, l, out, shape, x, weight, rows, cols, zeros) ==
    << BindIn(off, Tag(l, weight), H(Tag(l, weight), <<rows, cols>>)),
       Blob(H(Tag(l, weight \o "_bias"), <<rows>>), off[zeros].offset),
       Op("linear", H(Tag(l, out), shape),
          [x |-> <<x>>, weight |-> <<Tag(l, weight)>>, bias |-> <<Tag(l, weight \o "_bias")>>]) >>

AttentionOf(cfg, off, seq, l, input, mask) ==
    LET h == cfg.hidden
        heads == cfg.heads
        d == HeadDim(cfg)
        t(what) == Tag(l, what)
        hidden == <<1, seq, h>>
        perHead == <<1, heads, seq, d>>
        onePart == <<1, heads, 1, seq, d>>
        square == <<1, heads, seq, seq>>
        hasNorm == t("attn_norm") \in DOMAIN off
        normed == IF hasNorm THEN t("attn_normed") ELSE input
        rope(what) == off[RopeTag(seq, IsGlobal(cfg, l), what)].offset
        squeeze(part) == << Axes(t(part \o "_sq_axes"), 2),
                            Op("squeeze", H(t(part), perHead), [x |-> <<t("qkv_" \o part)>>, axes |-> <<t(part \o "_sq_axes")>>]) >>
    IN (IF hasNorm
        THEN << Blob(H(t("attn_norm"), <<h>>), off[t("attn_norm")].offset), Axes(t("attn_norm_axes"), -1),
                Norming(t("attn_normed"), hidden, input, t("attn_norm"), t("attn_norm_axes")) >>
        ELSE <<>>)
       \o Linearly(off, l, "qkv", <<1, seq, 3 * h>>, normed, "wqkv", 3 * h, h, "zeros_3h")
       \o << I(t("qkv_shape"), <<5>>, <<1, -1, 3, heads, d>>),
             Op("reshape", H(t("qkv5"), <<1, seq, 3, heads, d>>), [x |-> <<t("qkv")>>, shape |-> <<t("qkv_shape")>>]),
             I(t("qkv_perm"), <<5>>, <<0, 3, 2, 1, 4>>),
             Op("transpose", H(t("qkvt"), <<1, heads, 3, seq, d>>), [x |-> <<t("qkv5")>>, perm |-> <<t("qkv_perm")>>]),
             I(t("qkv_split_axis"), <<>>, <<2>>), I(t("qkv_split_sizes"), <<3>>, <<1, 1, 1>>),
             OpMulti("split", <<H(t("qkv_q"), onePart), H(t("qkv_k"), onePart), H(t("qkv_v"), onePart)>>,
                     [x |-> <<t("qkvt")>>, axis |-> <<t("qkv_split_axis")>>, split_sizes |-> <<t("qkv_split_sizes")>>]) >>
       \o squeeze("q") \o squeeze("k") \o squeeze("v")
       \o << Blob(H(t("rope_cos"), <<1, 1, seq, d>>), rope("cos")), Blob(H(t("rope_sin"), <<1, 1, seq, d>>), rope("sin")) >>
       \o RotateHalf(cfg, seq, t("q"), t("q"), t("rope_cos"), t("rope_sin"))
       \o RotateHalf(cfg, seq, t("k"), t("k"), t("rope_cos"), t("rope_sin"))
       \o << Const(T(t("false"), "bool", <<>>), <<FALSE>>), Const(T(t("true"), "bool", <<>>), <<TRUE>>),
             Op("matmul", H(t("scores"), square),
                [x |-> <<t("q_rope")>>, y |-> <<t("k_rope")>>, transpose_x |-> <<t("false")>>, transpose_y |-> <<t("true")>>]),
             Const(H(t("scale"), <<>>), <<ScaleOf(cfg)>>),
             Op("mul", H(t("scaled"), square), [x |-> <<t("scores")>>, y |-> <<t("scale")>>]),
             Op("add", H(t("masked"), square), [x |-> <<t("scaled")>>, y |-> <<mask>>]),
             I(t("sm_axis"), <<>>, <<-1>>),
             Op("softmax", H(t("probs"), square), [x |-> <<t("masked")>>, axis |-> <<t("sm_axis")>>]),
             Op("matmul", H(t("context"), perHead),
                [x |-> <<t("probs")>>, y |-> <<t("v")>>, transpose_x |-> <<t("false")>>, transpose_y |-> <<t("false")>>]),
             I(t("out_perm"), <<4>>, <<0, 2, 1, 3>>),
             Op("transpose", H(t("merged"), <<1, seq, heads, d>>), [x |-> <<t("context")>>, perm |-> <<t("out_perm")>>]),
             I(t("flat_shape"), <<3>>, <<1, -1, h>>),
             Op("reshape", H(t("flat"), hidden), [x |-> <<t("merged")>>, shape |-> <<t("flat_shape")>>]) >>
       \o Linearly(off, l, "attn_out", hidden, t("flat"), "wo", h, h, "zeros_h")
       \o << Op("add", H(t("attn_residual"), hidden), [x |-> <<input>>, y |-> <<t("attn_out")>>]) >>

FeedForwardOf(cfg, off, seq, l, input) ==
    LET h == cfg.hidden
        inter == cfg.inter
        t(what) == Tag(l, what)
        half == <<1, seq, inter>>
        gate == IF cfg.activation = "gelu"
                THEN << Const(T(t("gelu_mode"), "string", <<>>), <<"EXACT">>),
                        Op("gelu", H(t("gate"), half), [x |-> <<t("gate_in")>>, mode |-> <<t("gelu_mode")>>]) >>
                ELSE << Op("silu", H(t("gate"), half), [x |-> <<t("gate_in")>>]) >>
    IN << Blob(H(t("mlp_norm"), <<h>>), off[t("mlp_norm")].offset), Axes(t("mlp_norm_axes"), -1),
          Norming(t("mlp_normed"), <<1, seq, h>>, input, t("mlp_norm"), t("mlp_norm_axes")) >>
       \o Linearly(off, l, "mlp_wide", <<1, seq, 2 * inter>>, t("mlp_normed"), "mlp_wi", 2 * inter, h, "zeros_2i")
       \o << I(t("geglu_axis"), <<>>, <<-1>>), I(t("geglu_sizes"), <<2>>, <<inter, inter>>),
             OpMulti("split", <<H(t("gate_in"), half), H(t("up"), half)>>,
                     [x |-> <<t("mlp_wide")>>, axis |-> <<t("geglu_axis")>>, split_sizes |-> <<t("geglu_sizes")>>]) >>
       \o gate
       \o << Op("mul", H(t("gated"), half), [x |-> <<t("gate")>>, y |-> <<t("up")>>]) >>
       \o Linearly(off, l, "mlp_out", <<1, seq, h>>, t("gated"), "mlp_wo", h, inter, "zeros_h")
       \o << Op("add", H(t("out"), <<1, seq, h>>), [x |-> <<input>>, y |-> <<t("mlp_out")>>]) >>

BlockOfLayer(cfg, off, seq, l, input) ==
    AttentionOf(cfg, off, seq, l, input, IF IsGlobal(cfg, l) THEN "global_mask" ELSE "local_mask")
    \o FeedForwardOf(cfg, off, seq, l, Tag(l, "attn_residual"))

\* encoder.rs, graph and build: what is asked of the Builder for one length.
Requests(cfg, off, seq) ==
    LET h == cfg.hidden
        hidden == <<1, seq, h>>
        into(l) == IF l = 0 THEN "embeddings_normed" ELSE Tag(l - 1, "out")
        blocks[l \in 0..cfg.layers] ==
            IF l = 0 THEN <<>> ELSE blocks[l - 1] \o BlockOfLayer(cfg, off, seq, l - 1, into(l - 1))
        embNorm == << Const(H("eps", <<>>), <<cfg.eps>>),
                      Blob(H("embeddings_norm", <<h>>), off["embeddings_norm"].offset), Axes("emb_norm_axes", -1),
                      Norming("embeddings_normed", hidden, "embedded", "embeddings_norm", "emb_norm_axes") >>
        finalNorm == << Blob(H("final_norm", <<h>>), off["final_norm"].offset), Axes("final_axes", -1),
                        Norming("hidden", hidden, into(cfg.layers), "final_norm", "final_axes") >>
    IN Prologue(cfg, off, seq) \o embNorm \o blocks[cfg.layers] \o finalNorm

Inputs(seq) == <<T("input_ids", "int32", <<1, seq>>), T("attention_mask", "int32", <<1, seq>>)>>

Graph(cfg, off, seq) == Build(Inputs(seq), Requests(cfg, off, seq), "hidden")

-----------------------------------------------------------------------------
(* emit_with: one function per length, the smallest the default.           *)

SortedSet(S) ==
    LET rank(s) == Cardinality({t \in S : t <= s})
    IN [k \in 1..Cardinality(S) |-> CHOOSE s \in S : rank(s) = k]

EmitWith(cfg, ckpt, lengths, opts) ==
    LET sorted == SortedSet({lengths[k] : k \in DOMAIN lengths})
        writes == Known(Writes(cfg, ckpt, sorted, opts))
        off == Offsets(writes)
    IN [functions |-> Known([seq \in {sorted[k] : k \in DOMAIN sorted} |-> Graph(cfg, off, seq)]),
        default |-> sorted[1], file |-> FileOf(writes)]

\* What a function makes of a row of ids and its mask, each on 0..seq-1, as a
\* function of all its names.
Predicted(package, seq, ids, mask) ==
    LET input(data) == Val("int32", Tensor(<<1, seq>>, data))
    IN Values(package.functions[seq], [input_ids |-> input(ids), attention_mask |-> input(mask)], package.file)

=============================================================================
