------------------------------ MODULE ModernBert ------------------------------
(***************************************************************************)
(* What a ModernBERT encoder computes, said once: each text on its own,    *)
(* token by token and layer by layer. There is no padding here, no batch,  *)
(* no mask and no block. The encoders of src/encoder.rs and src/bf16, and  *)
(* the graph src/coreml_export emits, are shown to implement this.         *)
(*                                                                         *)
(* cfg is the Config of src/encoder.rs and the precision it is run in, w   *)
(* the checkpoint's tensors by their names. A vector is a function on      *)
(* 0..hidden-1, a text's vectors a function of the position, from 0.       *)
(***************************************************************************)
EXTENDS Tensors, FiniteSets

HeadDim(cfg) == cfg.hidden \div cfg.heads
IsGlobal(cfg, l) == l % cfg.global_every = 0
Theta(cfg, l) == IF IsGlobal(cfg, l) THEN cfg.global_theta ELSE cfg.local_theta

LayerName(l, what) == "layers." \o ToString(l) \o "." \o what \o ".weight"

\* 1/sqrt(head_dim), a number like another.
ScaleOf(cfg) == RSqrt(HeadDim(cfg))

Act(cfg, a) == IF cfg.activation = "gelu" THEN Gelu(a) ELSE Silu(a)

-----------------------------------------------------------------------------
(* One token's vector.                                                     *)

\* n rows of a weight, from row from on, applied to v. In bf16 the operands
\* of a projection are rounded, and nothing else is.
Apply(cfg, weight, from, n, v) ==
    LET k == weight.shape[2]
        operand(a) == IF cfg.precision = "bf16" THEN Bf16(a) ELSE a
        u == Known([j \in 0..k - 1 |-> operand(v[j])])
    IN Known([o \in 0..n - 1 |-> Dot([j \in 0..k - 1 |-> operand(weight.data[(from + o) * k + j])], u, k)])

Sum2(u, v) == Known([j \in DOMAIN u |-> Plus(u[j], v[j])])

Normed(cfg, gamma, v) == NormRow(v, cfg.hidden, gamma.data, cfg.eps)

\* The first half of a head's vector turned against the second.
Turned(v, half, theta, pos) ==
    Known([c \in DOMAIN v |->
        LET cos == CosOf(theta, c % half, pos)
            sin == SinOf(theta, c % half, pos)
        IN IF c < half THEN Plus(Times(v[c], cos), Neg(Times(v[c + half], sin)))
                       ELSE Plus(Times(v[c], cos), Times(v[c - half], sin))])

\* wo(act(gate) * up)
FeedForward(cfg, w, l, v) ==
    LET gate == Apply(cfg, w[LayerName(l, "mlp.Wi")], 0, cfg.inter, v)
        up == Apply(cfg, w[LayerName(l, "mlp.Wi")], cfg.inter, cfg.inter, v)
    IN Apply(cfg, w[LayerName(l, "mlp.Wo")], 0, cfg.hidden,
             Known([j \in 0..cfg.inter - 1 |-> Times(Act(cfg, gate[j]), up[j])]))

-----------------------------------------------------------------------------
(* One text's vectors, a function of the position.                         *)

\* What all heads make of the normed vectors xs, for the query at q.
Attended(cfg, w, l, xs) ==
    LET n == Cardinality(DOMAIN xs)
        d == HeadDim(cfg)
        wqkv == w[LayerName(l, "attn.Wqkv")]
        \* part 0, 1, 2: query, key, value
        part(p, head, q) == Apply(cfg, wqkv, p * cfg.hidden + head * d, d, xs[q])
        turned(p, head, q) == Turned(part(p, head, q), d \div 2, Theta(cfg, l), q)
        each == (0..cfg.heads - 1) \X (0..n - 1)
        query == Known([at \in each |-> turned(0, at[1], at[2])])
        key == Known([at \in each |-> turned(1, at[1], at[2])])
        value == Known([at \in each |-> part(2, at[1], at[2])])
        reach == IF IsGlobal(cfg, l) THEN n ELSE cfg.local_attention \div 2
        lo(q) == IF q < reach THEN 0 ELSE q - reach
        hi(q) == IF q + reach > n - 1 THEN n - 1 ELSE q + reach
        seen(q) == hi(q) - lo(q) + 1
        probs(head, q) ==
            SoftmaxRow([j \in 0..seen(q) - 1 |->
                           Times(Dot(query[<<head, q>>], key[<<head, lo(q) + j>>], d), ScaleOf(cfg))], seen(q))
        context(head, q) ==
            LET p == probs(head, q)
            IN Known([c \in 0..d - 1 |-> Dot(p, [j \in 0..seen(q) - 1 |-> value[<<head, lo(q) + j>>][c]], seen(q))])
        merged(q) == LET ctx == Known([head \in 0..cfg.heads - 1 |-> context(head, q)])
                     IN Known([i \in 0..cfg.hidden - 1 |-> ctx[i \div d][i % d]])
    IN Known([q \in 0..n - 1 |-> Apply(cfg, w[LayerName(l, "attn.Wo")], 0, cfg.hidden, merged(q))])

\* The first layer's attention norm is the identity.
AttnNormed(cfg, w, l, v) ==
    IF LayerName(l, "attn_norm") \in DOMAIN w
    THEN Normed(cfg, w[LayerName(l, "attn_norm")], v) ELSE v

LayerOf(cfg, w, l, xs) ==
    LET out == Attended(cfg, w, l, Known([q \in DOMAIN xs |-> AttnNormed(cfg, w, l, xs[q])]))
        mid == Known([q \in DOMAIN xs |-> Sum2(xs[q], out[q])])
        norm == w[LayerName(l, "mlp_norm")]
    IN Known([q \in DOMAIN xs |-> Sum2(mid[q], FeedForward(cfg, w, l, Normed(cfg, norm, mid[q])))])

Embedded(cfg, w, text) ==
    LET table == w["embeddings.tok_embeddings.weight"]
        row(id) == [j \in 0..cfg.hidden - 1 |-> table.data[id * cfg.hidden + j]]
    IN Known([q \in 0..Len(text) - 1 |-> Normed(cfg, w["embeddings.norm.weight"], row(text[q + 1]))])

Final(cfg, w, xs) == Known([q \in DOMAIN xs |-> Normed(cfg, w["final_norm.weight"], xs[q])])

\* The vectors of one text, through every layer.
VectorsOf(cfg, w, text) ==
    LET after[l \in 0..cfg.layers] ==
            IF l = 0 THEN Embedded(cfg, w, text) ELSE LayerOf(cfg, w, l - 1, after[l - 1])
    IN Final(cfg, w, after[cfg.layers])

=============================================================================
