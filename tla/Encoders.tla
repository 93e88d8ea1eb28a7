------------------------------- MODULE Encoders -------------------------------
(***************************************************************************)
(* The encoders kohagi runs a checkpoint with: src/encoder.rs, in f32 on   *)
(* the CPU and on CUDA (attention in blocks) and on Metal (one fused       *)
(* kernel and its dense mask), and src/bf16/modernbert.rs on the CPU. Each *)
(* is loaded from a safetensors checkpoint, is given a batch of texts that *)
(* are padded to one length, and takes it through its layers.              *)
(*                                                                         *)
(* Which keys a block of attention sees is AttentionPlan's; numbers are    *)
(* those of Tensors. The bf16 matrix product is that of Bf16Kernels.       *)
(***************************************************************************)
EXTENDS ModernBert, AttentionPlan, Bf16Kernels

CONSTANTS Deployments,  \* <<backend, config>>: "cpu-f32", "cuda", "metal" or
                        \* "cpu-bf16", and what config.json says
          Checkpoints,  \* tensors by name, as model.safetensors has them
          Batches,      \* the texts of one forward, each a sequence of token ids
          CpuBudget, GpuBudget

\* What candle reshapes and rotates: heads of one even size. The bf16 encoder
\* rotates them with the same tables.
IsConfig(c) ==
    /\ c.vocab \in Nat \ {0} /\ c.heads \in Nat \ {0} /\ c.inter \in Nat \ {0}
    /\ c.hidden \in Nat /\ \E half \in 1..c.hidden : c.hidden = c.heads * (2 * half)
    /\ c.layers \in Nat /\ c.global_every \in Nat \ {0} /\ c.local_attention \in Nat
    /\ c.local_theta \in Nat /\ c.global_theta \in Nat /\ c.eps \in Numbers

ASSUME DeploymentsAreSound ==
    \A d \in Deployments : /\ d[1] \in {"cpu-f32", "cuda", "metal", "cpu-bf16"}
                           /\ IsConfig(d[2])

\* No tensor of a checkpoint holds a NaN or an infinity.
ASSUME CheckpointsAreNumbers ==
    \A c \in Checkpoints : \A name \in DOMAIN c :
        /\ c[name].shape \in Seq(Nat)
        /\ c[name].data \in [0..Product(c[name].shape) - 1 -> Numbers]

\* The tokenizer gives every text a token, and only ids the table has a row for.
ASSUME TextsAreTokens ==
    \A batch \in Batches :
        /\ batch \in Seq(Seq(Nat)) /\ Len(batch) > 0
        /\ \A r \in DOMAIN batch :
              /\ Len(batch[r]) > 0
              /\ \A k \in DOMAIN batch[r] : \A d \in Deployments : batch[r][k] < d[2].vocab

ASSUME BudgetsAreNumbers == CpuBudget \in Nat /\ GpuBudget \in Nat

VARIABLES backend, config, checkpoint,
          pc,      \* "load", "ready", "work", "done", "failed"
          texts, layers, xs

vars == <<backend, config, checkpoint, pc, texts, layers, xs>>

Init == /\ \E d \in Deployments : backend = d[1] /\ config = d[2]
        /\ checkpoint \in Checkpoints
        /\ pc = "load"
        /\ texts = <<>> /\ layers = 0 /\ xs = Scalar(0)

-----------------------------------------------------------------------------
(* load_weights, ModernBert::load, Bf16ModernBert::load.                   *)

Wrapped == "model.embeddings.tok_embeddings.weight" \in DOMAIN checkpoint

StoredName(name) == IF Wrapped THEN "model." \o name ELSE name

Has(name, shape) == /\ StoredName(name) \in DOMAIN checkpoint
                    /\ checkpoint[StoredName(name)].shape = shape

Weight(name) == checkpoint[StoredName(name)]

\* The tensors a layer cannot do without, and the one it can.
LayerTensors(l) ==
    LET h == config.hidden
    IN {<<LayerName(l, "attn.Wqkv"), <<3 * h, h>>>>, <<LayerName(l, "attn.Wo"), <<h, h>>>>,
        <<LayerName(l, "mlp.Wi"), <<2 * config.inter, h>>>>, <<LayerName(l, "mlp.Wo"), <<h, config.inter>>>>,
        <<LayerName(l, "mlp_norm"), <<h>>>>}

HasAttnNorm(l) == Has(LayerName(l, "attn_norm"), <<config.hidden>>)

Required ==
    {<<"embeddings.tok_embeddings.weight", <<config.vocab, config.hidden>>>>,
     <<"embeddings.norm.weight", <<config.hidden>>>>, <<"final_norm.weight", <<config.hidden>>>>}
    \union UNION {LayerTensors(l) : l \in 0..config.layers - 1}

Load == /\ pc = "load"
        /\ pc' = IF \A t \in Required : Has(t[1], t[2]) THEN "ready" ELSE "failed"
        /\ UNCHANGED <<backend, config, checkpoint, texts, layers, xs>>

-----------------------------------------------------------------------------
(* The masks, and which of them a layer sees.                              *)

Path == CASE backend \in {"cpu-f32", "cuda"} -> "f32"
          [] backend = "cpu-bf16" -> "bf16"
          [] backend = "metal" -> "dense"

Budget == IF backend = "cuda" THEN GpuBudget ELSE CpuBudget

\* id % global_every, and local_attention / 2.
UsesLocalAttention(l) == l % config.global_every # 0
WindowOf(l) == IF UsesLocalAttention(l) THEN config.local_attention \div 2 ELSE NoWindow

\* Mutant: the thetas of the two kinds exchanged.
RopeThetaSwapped(l) == IF UsesLocalAttention(l) THEN config.global_theta ELSE config.local_theta

RopeTheta(l) == IF UsesLocalAttention(l) THEN config.local_theta ELSE config.global_theta

Longest(batch) == CHOOSE n \in {Len(batch[r]) : r \in DOMAIN batch} :
                      \A r \in DOMAIN batch : Len(batch[r]) <= n
SeqLen == Longest(texts)

\* padding_mask, prepare_4d_attention_mask, padding_bias: (1 - mask) * f32::MIN
Padding(r, k) == Times(IF k < Len(texts[r + 1]) THEN 0 ELSE 1, Floor)

\* What is added to the score of query i and key j of a block, in row r of the
\* batch: the padding, and minus infinity out of the window.
Bias(block, window, r, i, j) ==
    Plus(IF Open(Path, block, SeqLen, window, i, j) THEN 0 ELSE NegInf, Padding(r, block.k0 + j))

\* Mutant: sdpa is given the sum as it is, where f32::MIN is out of its range.
ScoreMaskUnclamped(block, window, r, i, j) ==
    LET bias == Bias(block, window, r, i, j)
    IN IF Path = "dense" /\ bias = Floor THEN NegInf ELSE bias

\* The fused kernel of Metal is given it clamped to a floor it can take: f32::MIN
\* is minus infinity to it, and a row of padding would be all minus infinity.
ScoreMask(block, window, r, i, j) ==
    LET bias == Bias(block, window, r, i, j)
    IN IF Path = "dense" /\ bias = NegInf THEN Floor ELSE bias

-----------------------------------------------------------------------------
(* ModernBertAttention::forward, Attention::forward of bf16.               *)

\* A projection: candle's matmul, and apply of bf16 with its packed weight.
Projection(x, weight) ==
    LET k == Dim(x, -1)
        m == Elements(x) \div k
    IN IF Path # "bf16" THEN Linear(x, weight)
       ELSE Tensor([x.shape EXCEPT ![Len(x.shape)] = Dim(weight, 0)],
                   Bf16Linear(x.data, m, weight.data, Dim(weight, 0), k))

\* candle_nn's rope and rope_thd, which differ in the axis of the positions:
\* the first half of a head's vector is turned against the second.
Rope(x, theta, axis) ==
    LET d == Dim(x, -1)
        half == d \div 2
        own == Strides(x.shape)
        pos(i) == (i \div own[Axis(x, axis)]) % Dim(x, axis)
        angle(i) == (i % d) % half
        cos(i) == CosOf(theta, angle(i), pos(i))
        sin(i) == SinOf(theta, angle(i), pos(i))
    IN Tensor(x.shape, [i \in DOMAIN x.data |->
          IF i % d < half THEN Plus(Times(x.data[i], cos(i)), Neg(Times(x.data[i + half], sin(i))))
                          ELSE Plus(Times(x.data[i], cos(i)), Times(x.data[i - half], sin(i)))])

\* Query, key and value, [batch, heads, seq, head_dim] each. Metal keeps three
\* weights and rotates before it transposes; the others cut one product.
Qkv(l, input) ==
    LET h == config.hidden
        b == Dim(input, 0)
        perHead == <<b, SeqLen, config.heads, HeadDim(config)>>
        wqkv == Weight(LayerName(l, "attn.Wqkv"))
        split(p) == Reshape(Linear(input, Narrow(wqkv, 0, p * h, h)), perHead)
        fused == Transpose(Reshape(Projection(input, wqkv), <<b, SeqLen, 3, config.heads, HeadDim(config)>>),
                           <<2, 0, 3, 1, 4>>)
        cut(p) == Reshape(Narrow(fused, 0, p, 1), <<b, config.heads, SeqLen, HeadDim(config)>>)
        bhsd(x) == Transpose(x, <<0, 2, 1, 3>>)
    IN IF Path = "dense"
       THEN [q |-> bhsd(Rope(split(0), RopeTheta(l), 1)), k |-> bhsd(Rope(split(1), RopeTheta(l), 1)),
             v |-> bhsd(split(2))]
       ELSE [q |-> Rope(cut(0), RopeTheta(l), 2), k |-> Rope(cut(1), RopeTheta(l), 2), v |-> cut(2)]

\* Vector x of z, whose last axis is of d.
At(z, x, d) == [c \in 0..d - 1 |-> z.data[x * d + c]]

\* What query s, in row bh of the batch's heads, gives each key of its block.
Scores(q, k, block, bh, s) ==
    LET d == Dim(q, -1)
    IN Known([j \in 0..block.keys - 1 |-> Dot(At(q, bh * SeqLen + s, d), At(k, bh * SeqLen + block.k0 + j, d), d)])

MaskRow(block, window, bh, s) ==
    Known([j \in 0..block.keys - 1 |-> ScoreMask(block, window, bh \div config.heads, s - block.q0, j)])

Probs(score, mask, keys) ==
    Known(IF Path = "bf16" THEN RowAvx512(score, mask)
          ELSE SoftmaxRow([j \in 0..keys - 1 |-> Plus(score[j], mask[j])], keys))

\* attend_block, attend of bf16, sdpa
AttendBlock(q, k, v, window, block, bh, s) ==
    LET d == Dim(q, -1)
        probs == Probs(Scores(q, k, block, bh, s), MaskRow(block, window, bh, s), block.keys)
        value(c) == [j \in 0..block.keys - 1 |-> v.data[(bh * SeqLen + block.k0 + j) * d + c]]
    IN Known([c \in 0..d - 1 |-> Dot(probs, value(c), block.keys)])

\* attend_blocked and banded: the block a query is in says which keys it is
\* scored against. A row of q is one head of one row of the batch.
AttendBlocked(q, k, v, window) ==
    LET d == Dim(q, -1)
        plan == Plan(Path, SeqLen, window, Budget)
        context(bh, s) == AttendBlock(q, k, v, window, BlockOf(plan, s), bh, s)
        rows == Known([x \in 0..Elements(q) \div d - 1 |-> context(x \div SeqLen, x % SeqLen)])
    IN Tensor(q.shape, [i \in DOMAIN q.data |-> rows[i \div d][i % d]])

Attention(l, input) ==
    LET qkv == Qkv(l, input)
        context == AttendBlocked(Scaled(qkv.q, ScaleOf(config)), qkv.k, qkv.v, WindowOf(l))
    IN Projection(Reshape(Transpose(context, <<0, 2, 1, 3>>), input.shape), Weight(LayerName(l, "attn.Wo")))

-----------------------------------------------------------------------------
(* The feed-forward: ModernBertMLP, fused::gated, Mlp of bf16 and geglu.   *)

\* Gate and up in one row of 2 * inter, gate first.
GatedWide(wide) ==
    Mul(Map1(LAMBDA a : Act(config, a), Narrow(wide, -1, 0, config.inter)), Narrow(wide, -1, config.inter, config.inter))

Mlp(l, x) ==
    LET wi == Weight(LayerName(l, "mlp.Wi"))
        gate == Linear(x, Narrow(wi, 0, 0, config.inter))
        up == Linear(x, Narrow(wi, 0, config.inter, config.inter))
        activated(a) == Act(config, a)
        gated == CASE Path = "f32" -> Mul(Map1(activated, gate), up)
                   [] Path = "dense" -> GatedWide(Linear(x, wi))
                   [] Path = "bf16" ->
                        LET rows == Elements(x) \div config.hidden
                        IN Tensor([x.shape EXCEPT ![Len(x.shape)] = config.inter],
                                  Geglu(Projection(x, wi).data, rows, config.inter))
    IN Projection(gated, Weight(LayerName(l, "mlp.Wo")))

-----------------------------------------------------------------------------
(* ModernBertLayer::forward, ModernBert::forward, forward_batch.           *)

Norm(name, x) == LayerNorm(x, Weight(name), config.eps)

Layer(l, x) ==
    LET h == IF HasAttnNorm(l) THEN Norm(LayerName(l, "attn_norm"), x) ELSE x
        mid == Add(x, Attention(l, h))
    IN Add(mid, Mlp(l, Norm(LayerName(l, "mlp_norm"), mid)))

\* The texts of a batch, padded to the longest with zeros.
Ids(batch) ==
    LET seq == Longest(batch)
        id(r, q) == IF q < Len(batch[r]) THEN batch[r][q + 1] ELSE 0
    IN Tensor(<<Len(batch), seq>>,
              [i \in 0..Len(batch) * seq - 1 |-> id(i \div seq + 1, i % seq)])

Embed == /\ pc = "ready"
         /\ texts' \in Batches
         /\ xs' = Norm("embeddings.norm.weight",
                       GatherRows(Weight("embeddings.tok_embeddings.weight"), Ids(texts')))
         /\ pc' = "work"
         /\ UNCHANGED <<backend, config, checkpoint, layers>>

RunLayer == /\ pc = "work" /\ layers < config.layers
            /\ xs' = Layer(layers, xs)
            /\ layers' = layers + 1
            /\ UNCHANGED <<backend, config, checkpoint, pc, texts>>

Finish == /\ pc = "work" /\ layers = config.layers
          /\ xs' = Norm("final_norm.weight", xs)
          /\ pc' = "done"
          /\ UNCHANGED <<backend, config, checkpoint, texts, layers>>

Next == Load \/ Embed \/ RunLayer \/ Finish

Spec == Init /\ [][Next]_vars

-----------------------------------------------------------------------------
(* Properties.                                                             *)

\* A forward never makes a NaN or an infinity, in the rows of padding neither:
\* pooling would skip those, but the next layer multiplies them by the zeros
\* of its softmax, and 0 * NaN is NaN (encoder.rs, on the clamp).
NoNaN == \A i \in DOMAIN xs.data : IsNumber(xs.data[i])

\* The vector at position q of row r of the batch.
VectorAt(r, q) ==
    Known([c \in 0..config.hidden - 1 |-> xs.data[((r - 1) * SeqLen + q) * config.hidden + c]])

\* What the batch holds of each text, its padding left out.
Vectors == [r \in DOMAIN texts |-> Known([q \in 0..Len(texts[r]) - 1 |-> VectorAt(r, q)])]

\* The tensors under the names the model's definition has for them.
Weights ==
    LET names == {t[1] : t \in Required} \union
                 {LayerName(l, "attn_norm") : l \in {l \in 0..config.layers - 1 : HasAttnNorm(l)}}
    IN [name \in {n \in names : StoredName(n) \in DOMAIN checkpoint} |-> Weight(name)]

Promised == config @@ [precision |-> IF Path = "bf16" THEN "bf16" ELSE "f32"]

Promise == INSTANCE LayerByLayer WITH config <- Promised, weights <- Weights,
                                      hidden <- Vectors, finished <- (pc = "done")

\* Every encoder is the model, layer by layer, whatever it is batched with and
\* however it was padded: "f32 is f32 everywhere" (fused.rs), "every split
\* point is invisible in the result" (batch.rs). bf16 does not look at the
\* activation, so this is of the checkpoints whose activation is gelu.
IsTheModel == Promise!Spec

\* "Err rather than a fallback to gelu: the wrong nonlinearity still produces
\* plausible-looking vectors" (encoder.rs:77), of the activations it reads.
ActivationIsTheConfigs ==
    pc = "done" => \A r \in DOMAIN texts : Vectors[r] = VectorsOf(Promised, Weights, texts[r])

=============================================================================
