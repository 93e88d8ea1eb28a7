------------------------------- MODULE Embedder -------------------------------
(***************************************************************************)
(* One run of kohagi or kohagi-rerank, from loading its model to the       *)
(* results of one call: Embedder::load and embed_with_tokens (src/model.rs)*)
(* or Reranker::load and score (src/rerank/mod.rs), the thread that hashes *)
(* the weights (src/fingerprint.rs), and the check of --expect-sha256      *)
(* (src/cli.rs).                                                           *)
(*                                                                         *)
(* The checkpoint may be replaced at any time, by a rename, with a version *)
(* that was never at the path before: what is open stays what it was. A    *)
(* version stands for its bytes, its digest, and the length and time that  *)
(* stat reports. A CoreML bundle is of one version, and knows it or not.   *)
(***************************************************************************)
EXTENDS Batching

CONSTANTS MaxVersions,  \* how many checkpoints are put at the path in turn
          Positions,    \* max_position_embeddings
          Lengths,      \* how many tokens a text may have before truncation
          MaxRows,      \* texts of one call
          BatchSizes,   \* --batch-size
          MaxSeqs,      \* --max-seq-length
          Tasks         \* "embed", "rerank"

ASSUME TasksAreTheTwo == Tasks \subseteq {"embed", "rerank"}
ASSUME CountsArePositive ==
    /\ {MaxVersions, Positions, MaxRows} \subseteq Nat \ {0}
    /\ Lengths \union MaxSeqs \union BatchSizes \subseteq Nat \ {0}

VARIABLES task, backend, max_seq, batch_size,   \* the options
          expect,    \* the version --expect-sha256 names, or NoVersion
          recorded,  \* a CoreML bundle records the version it was made from
          file,      \* the version at the path
          pc,        \* where the run stands, see Stages
          taken,     \* the version the hashing thread has open
          hash,      \* "none", "running", "read", "unread", "forgotten"
          weights,   \* the version the encoder was loaded from
          head,      \* ... and the re-ranker's classifier head
          texts,     \* the lengths of this call's texts, truncated
          left,      \* the forwards of this call that have not run
          answers,   \* the results that came out of the others
          broken     \* a forward has failed

options == <<task, backend, max_seq, batch_size, expect, recorded>>
model == <<file, taken, hash, weights, head>>
call == <<texts, left, answers, broken>>
vars == <<options, model, pc, call>>

Versions == 1..MaxVersions
NoVersion == 0

\* spawn ... verify: the steps of load. ready: before the call; work: in it.
\* refused is exit 3, failed is exit 1; lost and too_long are the errors the
\* code calls unreachable.
Stages == {"spawn", "weights", "confirm", "head", "tokenizer", "verify", "ready", "work", "done",
           "refused", "failed", "lost", "too_long"}
Serving == {"ready", "work", "done"}

Init == /\ task \in Tasks /\ backend \in Backends
        /\ max_seq \in MaxSeqs /\ batch_size \in BatchSizes
        /\ expect \in {NoVersion} \union Versions /\ recorded \in BOOLEAN
        /\ recorded => backend = "coreml"
        /\ file = 1
        /\ pc = "spawn"
        /\ taken = NoVersion /\ hash = "none"
        /\ weights = NoVersion /\ head = NoVersion
        /\ texts = <<>> /\ left = {} /\ answers = {} /\ broken = FALSE

Goto(stage) == pc' = stage

-----------------------------------------------------------------------------
(* Embedder::load, Reranker::load, ModelArgs::load.                        *)

CheckMaxSeq == max_seq <= Positions

\* The checks before anything is opened, and Fingerprint::spawn, whose open
\* of the path may fail.
SpawnHash ==
    /\ pc = "spawn" /\ backend # "coreml"
    /\ IF CheckMaxSeq
       THEN /\ Goto("weights")
            /\ \/ taken' = file /\ hash' = "running"
               \/ taken' = NoVersion /\ hash' = "unread"
       ELSE /\ Goto("failed")
            /\ UNCHANGED <<taken, hash>>
    /\ UNCHANGED <<options, call, file, weights, head>>

\* load_weights opens the path for itself.
LoadWeights ==
    /\ pc = "weights"
    /\ \/ Goto("confirm") /\ weights' = file
       \/ Goto("failed") /\ UNCHANGED weights
    /\ UNCHANGED <<options, call, file, taken, hash, head>>

AfterConfirm == IF task = "rerank" THEN "head" ELSE "tokenizer"

\* Mutant: the path is not looked at again.
ConfirmNothing ==
    /\ pc = "confirm"
    /\ Goto(AfterConfirm)
    /\ UNCHANGED <<options, call, model>>

\* Fingerprint::confirm, by what stat says of the path now.
Confirm ==
    /\ pc = "confirm"
    /\ Goto(AfterConfirm)
    /\ hash' = IF file = taken THEN hash ELSE "forgotten"
    /\ UNCHANGED <<options, call, file, taken, weights, head>>

\* Head::load opens the path a third time.
LoadHead ==
    /\ pc = "head"
    /\ \/ Goto("tokenizer") /\ head' = file
       \/ Goto("failed") /\ UNCHANGED head
    /\ UNCHANGED <<options, call, file, taken, hash, weights>>

LoadTokenizer ==
    /\ pc = "tokenizer"
    /\ Goto("verify") \/ Goto("failed")
    /\ UNCHANGED <<options, call, model>>

\* load_coreml: the bundle and, of the same conversion, the head.
LoadCoreMl ==
    /\ pc = "spawn" /\ backend = "coreml"
    /\ \/ /\ max_seq <= Max(Buckets)
          /\ Goto("verify")
          /\ weights' = 1
          /\ head' = IF task = "rerank" THEN 1 ELSE NoVersion
       \/ /\ Goto("failed") \/ (Goto("refused") /\ max_seq > Max(Buckets))
          /\ UNCHANGED <<weights, head>>
    /\ UNCHANGED <<options, call, file, taken, hash>>

\* ModelInfo::digest: the hash of the weights, or what the bundle records.
Digest == CASE hash = "read" -> taken
            [] hash # "read" /\ backend = "coreml" /\ recorded -> weights
            [] OTHER -> NoVersion

\* Mutant: an expectation that cannot be checked is waved through.
ExpectedIfKnown == expect \in {NoVersion, Digest} \/ Digest = NoVersion

Expected == expect \in {NoVersion, Digest}

\* Fingerprint::get returns once the hashing thread has ended, or was given up.
Settled == hash # "running"

\* verify_fingerprint, whose second argument is info(), which asks for the
\* digest whether or not one is expected.
Verify ==
    /\ pc = "verify" /\ Settled
    /\ Goto(IF Expected THEN "ready" ELSE "failed")
    /\ UNCHANGED <<options, call, model>>

\* The thread reads on, also when nobody asks for its digest any more.
HashFile ==
    /\ hash = "running"
    /\ hash' \in {"read", "unread"}
    /\ UNCHANGED <<options, call, pc, file, taken, weights, head>>

\* Somebody replaces the checkpoint. Nothing reads the path after the load.
Replace ==
    /\ file < MaxVersions /\ pc \notin Serving
    /\ file' = file + 1
    /\ UNCHANGED <<options, call, pc, taken, hash, weights, head>>

-----------------------------------------------------------------------------
(* embed_with_tokens, score, run_batches, run_rows.                        *)

Truncated(len) == AtMost(len, max_seq)

\* The tokenizer truncates; the rows are put into batches and units. That a
\* row has no bucket is decided here, though run_rows finds out at that row.
Tokenize ==
    /\ pc = "ready"
    /\ \E raw \in UNION {[1..n -> Lengths] : n \in 1..MaxRows} :
          texts' = [i \in DOMAIN raw |-> Truncated(raw[i])]
    /\ IF backend = "coreml" /\ \E i \in DOMAIN texts' : Fits(texts'[i]) = {}
       THEN Goto("too_long") /\ UNCHANGED left
       ELSE /\ Goto("work")
            /\ left' = IF backend = "coreml" THEN RowUnits(texts')
                       ELSE Units(Bucket(texts', batch_size), backend)
    /\ UNCHANGED <<options, model, answers, broken>>

\* The CPU runs forwards in any order, and every one of them; a GPU in order,
\* and every one of them; CoreML in order until one fails.
Runnable == CASE backend \in {"cpu-f32", "cpu-bf16"} -> left
              [] backend \in {"cuda", "metal"} -> First(left)
              [] backend = "coreml" -> IF broken THEN {} ELSE First(left)

\* One forward, which a length past the rotary tables makes fail.
RunUnit ==
    /\ pc = "work"
    /\ \E u \in Runnable :
          /\ left' = left \ {u}
          /\ \/ answers' = answers \union Run(backend, u) /\ UNCHANGED broken
             \/ broken' = TRUE /\ UNCHANGED answers
          /\ Goto(IF backend # "coreml" /\ u.batch.seq > Positions THEN "too_long" ELSE pc)
    /\ UNCHANGED <<options, model, texts>>

\* The results, each in its place; a place without one is an error.
Collect ==
    /\ pc = "work" /\ Runnable = {}
    /\ Goto(CASE broken -> "failed"
              [] ~broken /\ {a[1] : a \in answers} # DOMAIN texts -> "lost"
              [] OTHER -> "done")
    /\ UNCHANGED <<options, model, call>>

LoadStep == \/ SpawnHash \/ LoadWeights \/ Confirm \/ LoadHead \/ LoadTokenizer
            \/ LoadCoreMl \/ Verify
CallStep == Tokenize \/ RunUnit \/ Collect
Next == LoadStep \/ CallStep \/ HashFile \/ Replace

Spec == Init /\ [][Next]_vars

-----------------------------------------------------------------------------
(* Properties.                                                             *)

\* "The failure worth avoiding is a digest that names weights other than the
\* ones that answered" (Fingerprint::confirm): whatever was replaced while
\* they loaded, a digest that is known is the loaded weights' own.
DigestIsTrue == pc \in Serving /\ Digest # NoVersion => weights = Digest

\* --expect-sha256 "refuses to embed anything" with other weights (README.md).
ExpectationHolds == pc \in Serving /\ expect # NoVersion => weights = expect

\* "Every split point is invisible in the result" (batch.rs): each text's
\* result is at its place, and made of its own tokens, each of which attended
\* to what the model's windows say, as if the text had gone through alone.
RowsAreTheirOwn ==
    pc = "done" => \A a \in answers : a[2] = Alone(a[1], texts[a[1]])

\* "row came back from no batch", "tokens exceed the largest CoreML bucket"
\* and a length past the rotary tables are errors that never happen.
NothingIsLost == pc \notin {"lost", "too_long"}

\* "Neither regime holds more than ATTN_BUDGET scores per head" (model.rs), of
\* every forward the f32 encoder is given, on the CPU and on CUDA.
ScratchWithinBudget ==
    Path(backend) = "f32" =>
        \A u \in left : \A window \in {NoWindow, Window} :
            \A size \in Scratch("f32", u.rows, u.batch.seq, window, BudgetOf(backend)) :
                size <= BudgetOf(backend)

\* "It is never a wrong fingerprint" (Fingerprint::get), of all the weights a
\* score is computed with: the head is read from the path once more.
DigestNamesTheHead ==
    pc \in Serving /\ task = "rerank" /\ Digest # NoVersion => head = Digest

=============================================================================
