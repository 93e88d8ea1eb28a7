---------------------------- MODULE MCCoreMlConvert ----------------------------
(* CoreMlConvert for TLC: models of two heads of two, and buckets of 3 and 6. *)
EXTENDS CoreMlConvert

CONSTANTS ckpt1, ckpt2, ckpt3

Sizes == [vocab |-> 3, hidden |-> 4, heads |-> 2, inter |-> 3, eps |-> 2, local_attention |-> 2,
          local_theta |-> 10, global_theta |-> 16, global_every |-> 2, max_positions |-> 8,
          layers |-> 3, precision |-> "f32", biases |-> FALSE, rope_type |-> "default",
          layer_types |-> <<"full_attention", "sliding_attention", "full_attention">>]
Gelu3 == [activation |-> "gelu"] @@ Sizes
Silu3 == [activation |-> "silu"] @@ Sizes

\* Numbers that are in no relation to one another.
Drawn(shape, seed) ==
    Tensor(shape, [i \in 0..Product(shape) - 1 |-> (seed * seed + 3 * i * i * seed + 7 * i + 11) % P])

Weights(prefix, seed) ==
    LET reads == Reads(Gelu3)
        the(name) == CHOOSE k \in DOMAIN reads : prefix \o reads[k].name = name
    IN [name \in {prefix \o reads[k].name : k \in DOMAIN reads} |-> Drawn(reads[the(name)].shape, the(name) + seed)]

Without(ckpt, name) == [n \in DOMAIN ckpt \ {name} |-> ckpt[n]]

Of(config, w, pooling, head) == [config |-> config, weights |-> w, pooling |-> pooling, head |-> head]

\* Two models of one kind, and one that is refused for a tensor it has not got.
TwoAlike == ckpt1 :> Of(Gelu3, Weights("", 12), TRUE, "whole") @@ ckpt2 :> Of(Silu3, Weights("model.", 31), FALSE, "none")
Alike == TwoAlike @@ ckpt3 :> Of(Gelu3, Without(Weights("", 12), "layers.2.attn_norm.weight"), TRUE, "whole")

Ask(lengths, embeddings, all, compiled) ==
    [lengths |-> lengths, quantize_embeddings |-> embeddings, quantize_all |-> all, compiled |-> compiled]

SomeOrders == {Ask(<<6, 3, 3>>, FALSE, FALSE, FALSE), Ask(<<3, 6>>, TRUE, FALSE, TRUE), Ask(<<3, 6>>, FALSE, TRUE, FALSE),
               Ask(<<6>>, FALSE, FALSE, FALSE), Ask(<<9>>, FALSE, FALSE, FALSE)}

SomeForeign == {[seq |-> 6, id |-> ckpt1]}
SomeTexts == {<<0, 1>>, <<2, 0, 1, 1, 2>>}
=============================================================================
