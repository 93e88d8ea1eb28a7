------------------------------ MODULE MCEncoders ------------------------------
(* Encoders for TLC: a model of two heads of four, and texts of 1 to 7 tokens. *)
EXTENDS Encoders

Sizes == [vocab |-> 3, hidden |-> 8, heads |-> 2, inter |-> 5, eps |-> 2, local_attention |-> 3,
          local_theta |-> 10, global_theta |-> 16]

ConfigOf(layers_, every, act) ==
    [layers |-> layers_, global_every |-> every, activation |-> act] @@ Sizes

\* bf16 does not look at the activation: its deployments are of gelu models.
SomeDeployments ==
    ({"cpu-f32", "cuda", "metal", "cpu-bf16"} \X {ConfigOf(3, 2, "gelu")})
    \union ({"cpu-f32", "cuda", "metal"} \X {ConfigOf(1, 1, "silu")})
SiluOnBf16 == {<<"cpu-bf16", ConfigOf(1, 1, "silu")>>}

\* Numbers that are in no relation to one another.
Drawn(shape, seed) ==
    Tensor(shape, [i \in 0..Product(shape) - 1 |-> (seed * seed + 3 * i * i * seed + 7 * i + 11) % P])

LayerParts == <<"attn.Wqkv", "attn.Wo", "mlp.Wi", "mlp.Wo", "mlp_norm", "attn_norm">>
ShapeOf(what) ==
    CASE what = "attn.Wqkv" -> <<24, 8>> [] what = "attn.Wo" -> <<8, 8>> [] what = "mlp.Wi" -> <<10, 8>>
      [] what = "mlp.Wo" -> <<8, 5>> [] OTHER -> <<8>>

\* The first layer has no attention norm.
CheckpointOf(prefix) ==
    LET layer(l) == {<<LayerName(l, LayerParts[k]), ShapeOf(LayerParts[k]), 7 * l + k + 20>> :
                        k \in IF l = 0 THEN 1..5 ELSE 1..6}
        all == {<<"embeddings.tok_embeddings.weight", <<3, 8>>, 13>>, <<"embeddings.norm.weight", <<8>>, 17>>,
                <<"final_norm.weight", <<8>>, 19>>} \union UNION {layer(l) : l \in 0..2}
        the(name) == CHOOSE t \in all : prefix \o t[1] = name
    IN [name \in {prefix \o t[1] : t \in all} |-> Drawn(the(name)[2], the(name)[3])]

AtTheRoot == CheckpointOf("")
Without(ckpt, name) == [n \in DOMAIN ckpt \ {name} |-> ckpt[n]]

\* At the root, wrapped, and one file with a tensor missing.
SomeCheckpoints == {AtTheRoot, CheckpointOf("model."), Without(AtTheRoot, "layers.1.mlp_norm.weight")}
OneCheckpoint == {AtTheRoot}

Long == <<0, 1, 2, 2, 1, 0, 1>>
SomeBatches == {<<Long>>, <<<<1>>, Long>>, <<<<2, 1, 0>>, <<1, 2>>>>}
=============================================================================
