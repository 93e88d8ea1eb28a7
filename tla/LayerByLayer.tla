----------------------------- MODULE LayerByLayer -----------------------------
(***************************************************************************)
(* What an encoder promises: given texts it turns them into vectors, one   *)
(* layer at a time, each text as if it were alone (see ModernBert). An     *)
(* encoder may also fail to load, and is then never given a text.          *)
(***************************************************************************)
EXTENDS ModernBert

VARIABLES config, weights,
          texts,    \* the token ids of each text
          layers,   \* how many layers they have been through
          hidden,   \* hidden[r]: the vectors of text r
          finished  \* and the final norm

vars == <<config, weights, texts, layers, hidden, finished>>

Start == texts = <<>> /\ layers = 0 /\ hidden = <<>> /\ finished = FALSE

Embed == /\ texts = <<>> /\ texts' # <<>>
         /\ hidden' = [r \in DOMAIN texts' |-> Embedded(config, weights, texts'[r])]
         /\ UNCHANGED <<config, weights, layers, finished>>

RunLayer == /\ texts # <<>> /\ layers < config.layers
            /\ layers' = layers + 1
            /\ hidden' = [r \in DOMAIN texts |-> LayerOf(config, weights, layers, hidden[r])]
            /\ UNCHANGED <<config, weights, texts, finished>>

Finish == /\ texts # <<>> /\ layers = config.layers /\ ~finished
          /\ finished' = TRUE
          /\ hidden' = [r \in DOMAIN texts |-> Final(config, weights, hidden[r])]
          /\ UNCHANGED <<config, weights, texts, layers>>

Spec == Start /\ [][Embed \/ RunLayer \/ Finish]_vars

=============================================================================
