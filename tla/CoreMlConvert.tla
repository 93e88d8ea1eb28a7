----------------------------- MODULE CoreMlConvert -----------------------------
(***************************************************************************)
(* coreml-convert into one output directory, again and again, and what     *)
(* `--device coreml` then makes of that directory: run of                  *)
(* src/bin/coreml-convert.rs, convert of src/coreml_export/mod.rs,         *)
(* collect_buckets of src/coreml/provision.rs, CoreMlEncoder of            *)
(* src/coreml.rs. A conversion can be interrupted between any two of its   *)
(* files. Only one runs at a time, and nothing is loaded while it does.    *)
(*                                                                         *)
(* A bundle's graph and weights are those CoreMlGraph emits. They are      *)
(* worked out once for each bundle there can be, and the state holds what  *)
(* they were emitted from.                                                 *)
(***************************************************************************)
EXTENDS CoreMlGraph

CONSTANTS Sources,      \* what can be at the path: id -> [config, weights, pooling, head]
          Orders,       \* what can be asked for: [lengths, quantize_embeddings, quantize_all, compiled]
          Foreign,      \* what scripts/convert_coreml.py may have left in the directory
          Texts,        \* sequences of ids
          Paddings,     \* how far Core ML pads a row of its output
          MaxConversions,
          Swaps,        \* pcs at which the checkpoint may be replaced
          None          \* no checkpoint, no bundle, no answer

Ids == DOMAIN Sources

\* head: "none", "whole", or "partial" for one without all of head::REQUIRED.
ASSUME SourcesAssumption ==
    \A id \in Ids :
        LET cfg == Sources[id].config
            w == Sources[id].weights
        IN /\ Sources[id].pooling \in BOOLEAN
           /\ Sources[id].head \in {"none", "whole", "partial"}
           /\ {cfg.vocab, cfg.hidden, cfg.heads, cfg.inter, cfg.layers} \subseteq Nat
           /\ \A name \in DOMAIN w : IsFiniteSet(DOMAIN w[name].data)

ASSUME OrdersAssumption ==
    \A o \in Orders : /\ o.lengths \in Seq(Nat)
                      /\ {o.quantize_embeddings, o.quantize_all, o.compiled} \subseteq BOOLEAN

ASSUME InputsAssumption ==
    /\ \A f \in Foreign : f.seq \in Nat
    /\ Texts \subseteq Seq(Nat) /\ Paddings \subseteq Nat

VARIABLES
    source,    \* the id of the checkpoint at the path
    order,     \* what the conversion under way was asked, or the last one
    pc,        \* "idle", or what the conversion does next
    sha,       \* the id hashed
    opened,   \* the id opened
    dir,       \* the output directory: [bundles, config, pooling, head]
    last,      \* what the last conversion emitted, if it has ended and was not interrupted
    conversions,
    buckets,   \* a loaded directory: length -> the bundle it runs, <<>> when none is
    answer        \* one text's [text, seq, hidden, misdeclared], through a bucket

vars == <<source, order, pc, sha, opened, dir, last, conversions, buckets, answer>>

-----------------------------------------------------------------------------
(* What a conversion emits.                                                *)

\* run: sorted, without duplicates; --quantize-all implies --quantize-embeddings.
LengthsOf(o) == SortedSet({o.lengths[k] : k \in DOMAIN o.lengths})
OptionsOf(o) == [quantize_embeddings |-> o.quantize_embeddings \/ o.quantize_all,
                 quantize_projections |-> o.quantize_all]

\* Mutant: only a bundle that is int8 throughout says so.
QuantizationIfAll(opts) == IF opts.quantize_projections THEN "all-int8" ELSE "none"

\* Provenance::entries, the quantization entry.
Quantization(opts) ==
    CASE opts.quantize_embeddings /\ opts.quantize_projections -> "all-int8"
      [] opts.quantize_embeddings /\ ~opts.quantize_projections -> "embeddings-int8"
      [] OTHER -> "none"

ProvenanceOf(sha_, id, lengths, opts) ==
    [source_sha256 |-> sha_, lengths |-> lengths, quantization |-> Quantization(opts),
     activation |-> IF Sources[id].config.activation = "gelu" THEN "none" ELSE Sources[id].config.activation]

\* "--sequence-lengths must be positive", and what from_json and check_lengths ask.
Accepted(id, lengths) ==
    /\ \A k \in DOMAIN lengths : lengths[k] > 0
    /\ Supported(Sources[id].config) /\ LengthsOk(Sources[id].config, lengths)
Emittable(id) == AllGettable(Sources[id].config, Sources[id].weights)

Emissions == {e \in {[id |-> id, lengths |-> LengthsOf(o), opts |-> OptionsOf(o)] : id \in Ids, o \in Orders} :
                 Accepted(e.id, e.lengths) /\ Emittable(e.id)}

Emitted == Known([e \in Emissions |->
    EmitWith(Sources[e.id].config, Sources[e.id].weights, e.lengths, e.opts)])

-----------------------------------------------------------------------------
(* The directory. A bundle's name is its kind, its lengths and its form.   *)

BundleName(lengths) == [kind |-> "buckets", lengths |-> lengths, ext |-> "mlpackage", compiled |-> FALSE]
CompiledName(name) == [name EXCEPT !.ext = "mlmodelc", !.compiled = TRUE]
SeqName(seq) == [kind |-> "seq", lengths |-> <<seq>>, ext |-> "mlpackage", compiled |-> FALSE]

Put(bundles, name, bundle) == [n \in DOMAIN bundles \union {name} |-> IF n = name THEN bundle ELSE bundles[n]]

\* function_name: a bundle of one length is loaded by its default function.
HasFunction(name) == Len(name.lengths) > 1

\* Mutant: whatever bundle is listed first.
HeldFirst(listed) == listed

\* What collect_buckets holds of the bundles listed for one length and form:
\* the first of those without a function, else the first. Which of several is
\* first is the file system's choice.
Held(listed) ==
    LET dedicated == {name \in listed : ~HasFunction(name)}
    IN IF dedicated # {} THEN dedicated ELSE listed

\* The directory itself is scanned before its compiled/.
Scanned(bundles, seq, ext) ==
    LET of(compiled) == {n \in DOMAIN bundles : n.ext = ext /\ n.compiled = compiled /\ seq \in {n.lengths[k] : k \in DOMAIN n.lengths}}
        top == Held(of(FALSE))
    IN IF top = {} THEN Held(of(TRUE))
       ELSE IF \E n \in top : ~HasFunction(n) \/ (\A m \in of(TRUE) : HasFunction(m)) THEN top
       ELSE Held(of(TRUE))

\* load_bucket: the compiled form when there is one.
Resolutions(bundles, seq) ==
    LET compiled == Scanned(bundles, seq, "mlmodelc")
    IN IF compiled # {} THEN compiled ELSE Scanned(bundles, seq, "mlpackage")

SeqsIn(bundles) == UNION {{n.lengths[k] : k \in DOMAIN n.lengths} : n \in DOMAIN bundles}

-----------------------------------------------------------------------------
(* Core ML's answer, and read_f32.                                         *)

\* run_rows: ids and mask padded with zeros to the bucket's length.
PaddedIds(text, seq) == [q \in 0..seq - 1 |-> IF q < Len(text) THEN text[q + 1] ELSE 0]
PaddedMask(text, seq) == [q \in 0..seq - 1 |-> IF q < Len(text) THEN 1 ELSE 0]

\* What can be run: a text, through a bucket of a bundle that it fits.
Passes == UNION {{<<e, e.lengths[k], text>> : k \in {k \in DOMAIN e.lengths : e.lengths[k] >= Len(text)}} :
                    e \in Emissions, text \in Texts}

Outcome(function, env) == [hidden |-> env["hidden"], misdeclared |-> Misdeclared(function, env)]

OutcomeOf(package, text, seq) ==
    Outcome(package.functions[seq], Predicted(package, seq, PaddedIds(text, seq), PaddedMask(text, seq)))

\* What becomes of each text in each bundle, by its length: the hidden states,
\* and the operations that are not of the type they say.
Computed == Known([p \in Passes |-> OutcomeOf(Emitted[p[1]], p[3], p[2])])

\* (external) A MultiArray whose rows are padded.
MultiArray(hidden, padding) ==
    LET seq == hidden.shape[2]
        dim == hidden.shape[3]
        width == dim + padding
    IN [dims |-> hidden.shape, strides |-> <<seq * width, width, 1>>,
        buffer |-> [i \in 0..seq * width - 1 |-> IF i % width < dim THEN hidden.data[(i \div width) * dim + (i % width)] ELSE 0]]

StridesArePacked(dims, strides) ==
    /\ Len(dims) = Len(strides)
    /\ \A k \in DOMAIN dims : strides[k] = Product(SubSeq(dims, k + 1, Len(dims)))

\* The offset of the i-th element, row-major.
StridedOffset(dims, strides, i) ==
    LET index(k) == (i \div Product(SubSeq(dims, k + 1, Len(dims)))) % dims[k]
        sum[k \in 0..Len(dims)] == IF k = 0 THEN 0 ELSE sum[k - 1] + index(k) * strides[k]
    IN sum[Len(dims)]

ReadF32(array) ==
    [i \in 0..Product(array.dims) - 1 |->
        array.buffer[IF StridesArePacked(array.dims, array.strides) THEN i
                     ELSE StridedOffset(array.dims, array.strides, i)]]

Answered(text, seq, outcome, padding) ==
    [text |-> text, seq |-> seq, misdeclared |-> outcome.misdeclared,
     hidden |-> ReadF32(MultiArray(outcome.hidden, padding))]

FirstBucket == buckets[CHOOSE seq \in DOMAIN buckets : \A other \in DOMAIN buckets : seq <= other]

\* CoreMlEncoder::provenance: the first bucket's, if it has any.
Provenance == FirstBucket.provenance

\* bucket_for: the smallest bucket of at least len.
BucketFor(len) == LET fits == {seq \in DOMAIN buckets : seq >= len}
                  IN CHOOSE seq \in fits : \A other \in fits : seq <= other

-----------------------------------------------------------------------------
(* The conversion.                                                         *)

Init ==
    /\ source \in Ids
    /\ order \in Orders
    /\ pc = "idle" /\ sha = None /\ opened = None /\ last = None
    /\ \E left \in SUBSET Foreign :
          dir = [bundles |-> [n \in {SeqName(f.seq) : f \in left} |-> [foreign |-> CHOOSE f \in left : SeqName(f.seq) = n]],
                 config |-> IF left = {} THEN None ELSE (CHOOSE f \in left : TRUE).id, pooling |-> None, head |-> None]
    /\ conversions = 0 /\ buckets = <<>> /\ answer = None

Give(next) == pc' = next
Fail == Give("idle")

\* run, and convert up to the config: a refusal comes before anything is read.
Begin(o) ==
    /\ pc = "idle" /\ conversions < MaxConversions
    /\ order' = o /\ last' = None /\ conversions' = conversions + 1
    /\ buckets' = <<>> /\ answer' = None
    /\ sha' = None /\ opened' = None
    /\ IF Accepted(source, LengthsOf(o)) THEN Give("hash") ELSE Fail
    /\ UNCHANGED <<source, dir>>

Hash ==
    /\ pc = "hash"
    /\ sha' = source /\ Give("open")
    /\ UNCHANGED <<source, order, opened, dir, last, conversions, buckets, answer>>

Open ==
    /\ pc = "open"
    /\ opened' = source
    /\ IF Emittable(source) THEN Give("write") ELSE Fail
    /\ UNCHANGED <<source, order, sha, dir, last, conversions, buckets, answer>>

Lengths == LengthsOf(order)
Emission == [id |-> opened, lengths |-> Lengths, opts |-> OptionsOf(order)]
Bundle == [emission |-> Emission, provenance |-> ProvenanceOf(sha, opened, Lengths, OptionsOf(order))]

\* Mutant: a package already there is kept.
KeepPackage(bundles, name, bundle) == IF name \in DOMAIN bundles THEN bundles ELSE Put(bundles, name, bundle)

\* write_package: whatever was at the path is removed first.
PutPackage(bundles, name, bundle) == Put(bundles, name, bundle)

WritePackage ==
    /\ pc = "write"
    /\ dir' = [dir EXCEPT !.bundles = PutPackage(dir.bundles, BundleName(Lengths), Bundle)]
    /\ Give("head")
    /\ UNCHANGED <<source, order, sha, opened, last, conversions, buckets, answer>>

\* write_head: nothing is written of a checkpoint without one, and part of one
\* is an error.
WriteHead ==
    /\ pc = "head"
    /\ IF Sources[opened].head = "partial" THEN Fail ELSE Give("copy")
    /\ dir' = IF Sources[opened].head = "whole" THEN [dir EXCEPT !.head = opened] ELSE dir
    /\ UNCHANGED <<source, order, sha, opened, last, conversions, buckets, answer>>

\* config.json and tokenizer.json, and 1_Pooling/config.json and
\* sentence_bert_config.json when there are any.
CopyMetadata ==
    /\ pc = "copy"
    /\ dir' = [dir EXCEPT !.config = source, !.pooling = IF Sources[source].pooling THEN source ELSE @]
    /\ IF order.compiled THEN Give("compile") /\ UNCHANGED last
       ELSE Fail /\ last' = Bundle
    /\ UNCHANGED <<source, order, sha, opened, conversions, buckets, answer>>

\* compile_beside
Compile ==
    /\ pc = "compile"
    /\ dir' = [dir EXCEPT !.bundles = Put(@, CompiledName(BundleName(Lengths)), @[BundleName(Lengths)])]
    /\ last' = Bundle /\ Give("idle")
    /\ UNCHANGED <<source, order, sha, opened, conversions, buckets, answer>>

\* Interrupted, or an error of the file system.
Interrupt ==
    /\ pc # "idle" /\ Fail
    /\ UNCHANGED <<source, order, sha, opened, dir, last, conversions, buckets, answer>>

\* (external) Another checkpoint comes to be at the path.
Swap(id) ==
    /\ pc \in Swaps /\ id # source
    /\ source' = id
    /\ UNCHANGED <<order, pc, sha, opened, dir, last, conversions, buckets, answer>>

-----------------------------------------------------------------------------
(* CoreMlEncoder::load, forward and run_rows.                              *)

\* check_io: the length of the name and the width of config.json.
ChecksOut(bundle, seq) ==
    LET hidden(id) == Sources[id].config.hidden
    IN IF "foreign" \in DOMAIN bundle THEN hidden(bundle.foreign.id) = hidden(dir.config)
       ELSE hidden(bundle.emission.id) = hidden(dir.config)

\* A directory without a config.json, or with a bucket that does not check out,
\* does not load. Core ML may refuse a compiled bundle (external), and the
\* package beside it is used.
Load ==
    /\ pc = "idle" /\ dir.config # None
    /\ \E refused \in SUBSET {n \in DOMAIN dir.bundles : n.compiled},
          resolved \in [SeqsIn(dir.bundles) -> DOMAIN dir.bundles] :
          /\ \A seq \in DOMAIN resolved :
                resolved[seq] \in Resolutions([n \in DOMAIN dir.bundles \ refused |-> dir.bundles[n]], seq)
          /\ \A seq \in DOMAIN resolved : ChecksOut(dir.bundles[resolved[seq]], seq)
          /\ buckets' = [seq \in DOMAIN resolved |-> dir.bundles[resolved[seq]]]
    /\ answer' = None
    /\ UNCHANGED <<source, order, pc, sha, opened, dir, last, conversions>>

\* One row through the smallest bucket it fits.
Run(text, padding) ==
    /\ pc = "idle" /\ \E seq \in DOMAIN buckets : Len(text) <= seq
    /\ LET seq == BucketFor(Len(text))
           bundle == buckets[seq]
       IN /\ "foreign" \notin DOMAIN bundle
          /\ answer' = Answered(text, seq, Computed[<<bundle.emission, seq, text>>], padding)
    /\ UNCHANGED <<source, order, pc, sha, opened, dir, last, conversions, buckets>>

Next ==
    \/ \E o \in Orders : Begin(o)
    \/ Hash
    \/ Open
    \/ WritePackage
    \/ WriteHead
    \/ CopyMetadata
    \/ Compile
    \/ Interrupt
    \/ \E id \in Ids : Swap(id)
    \/ Load
    \/ \E text \in {t \in Texts : DOMAIN buckets # {}}, padding \in Paddings : Run(text, padding)

Spec == Init /\ [][Next]_vars

-----------------------------------------------------------------------------
(* Properties.                                                             *)

\* A checkpoint's tensors as a bundle of that quantization holds them.
AsStored(id, quantization) ==
    LET cfg == Sources[id].config
        ckpt == Sources[id].weights
        first == {n \in {LayerName(0, "attn_norm")} : StoredUnder(ckpt, n) \in DOMAIN ckpt}
        kind(name) == IF \E k \in DOMAIN Reads(cfg) : Reads(cfg)[k].name = name
                      THEN Reads(cfg)[CHOOSE k \in DOMAIN Reads(cfg) : Reads(cfg)[k].name = name].kind ELSE "norm"
        int8(name) == \/ quantization = "all-int8" /\ kind(name) = "projection"
                      \/ quantization # "none" /\ kind(name) = "embeddings"
        dequantized(x) == LET q == QuantizeRows(x.data, x.shape[1])
                          IN Tensor(x.shape, [i \in DOMAIN x.data |-> Times(q.values[i], q.scales[(i \div x.shape[2]) + 1])])
    IN Known([name \in {Reads(cfg)[k].name : k \in DOMAIN Reads(cfg)} \union first |->
                 IF int8(name) THEN dequantized(Get(ckpt, name)) ELSE Map1(Fp16, Get(ckpt, name))])

\* What the model makes of each text, by checkpoint and quantization.
Reference == Known([r \in {e.id : e \in Emissions} \X {Quantization(e.opts) : e \in Emissions} \X Texts |->
    VectorsOf(Sources[r[1]].config, AsStored(r[1], r[2]), r[3])])

\* What the emitted graphs compute, whatever becomes of them: of every text, in
\* every bucket, the model's vectors, row by row, and what each operation says
\* it gives.
ComputesTheModel(p) ==
    LET e == p[1]
        text == p[3]
        width == Sources[e.id].config.hidden
        hidden == Computed[p].hidden
    IN /\ hidden.shape = <<1, p[2], width>> /\ DOMAIN hidden.data = 0..p[2] * width - 1
       /\ \A q \in 0..Len(text) - 1 :
             [j \in 0..width - 1 |-> hidden.data[q * width + j]] = Reference[<<e.id, Quantization(e.opts), text>>][q]
       /\ Computed[p].misdeclared = {}

GraphsComputeTheModel == \A p \in Passes : ComputesTheModel(p)

Width == Sources[buckets[answer.seq].emission.id].config.hidden

\* "one conversion writes the same metadata into all of them" (provenance of
\* coreml.rs): true of one conversion, not of a directory that has bundles of two.
OneProvenance ==
    /\ "foreign" \notin DOMAIN FirstBucket
    /\ \A seq, other \in {s \in DOMAIN buckets : "foreign" \notin DOMAIN buckets[s]} :
          buckets[seq].provenance = buckets[other].provenance

\* The vectors a text gets are those ModernBERT gives it with the weights the
\* directory's provenance names, stored as it says they are, whichever bucket
\* the text lands in and however Core ML pads its output: two indexes built
\* under one provenance can be searched together (warn_if_quantized). So it is
\* as long as the buckets are of one provenance, whatever was there before.
VectorsAreAsLabelled ==
    (answer # None /\ OneProvenance) =>
        LET label == Provenance
        IN \A q \in 0..Len(answer.text) - 1 :
              [j \in 0..Width - 1 |-> answer.hidden[q * Width + j]] = Reference[<<label.source_sha256, label.quantization, answer.text>>][q]

\* The length of the bucket a text lands in shows nowhere in its vectors,
\* however much of it is padding and however few keys a query has in reach:
\* every function of the bundle that was run agrees on the text.
BucketLengthsDoNotShow ==
    answer # None =>
        LET e == buckets[answer.seq].emission
        IN \A k \in DOMAIN e.lengths :
              e.lengths[k] >= Len(answer.text) =>
                 \A i \in 0..Len(answer.text) * Width - 1 :
                    Computed[<<e, e.lengths[k], answer.text>>].hidden.data[i] = answer.hidden[i]

IsSound(function) ==
    /\ DefinesBeforeUse(function)
    /\ \A n \in DOMAIN function.ops : CountIsRight(function.ops[n])

PackageIsSound(package) == /\ \A seq \in DOMAIN package.functions : IsSound(package.functions[seq])
                           /\ FileIsWhole(package.file)

Sound == Known([e \in Emissions |-> PackageIsSound(Emitted[e])])

\* What the emitter sees to, whatever is emitted: the requests it makes of the
\* Builder, as they are made.
RequestsAreSound ==
    \A e \in Emissions :
        LET cfg == Sources[e.id].config
            sorted == SortedSet({e.lengths[k] : k \in DOMAIN e.lengths})
            off == Offsets(Known(Writes(cfg, Sources[e.id].weights, sorted, e.opts)))
        IN \A k \in DOMAIN sorted : AreSound(Inputs(sorted[k]), Requests(cfg, off, sorted[k]), "hidden")

\* What is emitted is a program Core ML takes: every name is given once and
\* before it is used, an immediate holds as many values as its shape says, each
\* operation's output is of the type it declares and each parameter of its rank,
\* and no weight in the file runs into the next.
ProgramIsSound ==
    answer # None =>
        answer.misdeclared = {} /\ Sound[buckets[answer.seq].emission]

\* What a bundle of another name has over bundle b for a length of both: a
\* compiled form is taken before a package, and of two of a form one of a single
\* length, if only one of them is.
Outranks(n, b, seq) ==
    LET name == BundleName(b.emission.lengths)
    IN /\ n \notin {name, CompiledName(name)} /\ \E k \in DOMAIN n.lengths : n.lengths[k] = seq
       /\ n.compiled \/ (HasFunction(n) => HasFunction(name))

\* A compiled form of b's name that the conversion was not asked to make.
StaysCompiled(b) == ~order.compiled /\ CompiledName(BundleName(b.emission.lengths)) \in DOMAIN dir.bundles

\* What is served by a conversion that ran to its end, and by what else. Its
\* config.json is served, and its head and pooling file if its checkpoint has
\* them; if not, those that an earlier conversion wrote there are served as if
\* they were this checkpoint's. For each of its lengths its bundle is served,
\* unless a bundle of another name outranks it or an earlier compiled form of
\* its own name is there: --compile alone replaces that, though --out-dir of
\* coreml-convert says "an existing bundle of the same name is replaced". No
\* interruption, no other checkpoint and no other way of asking comes between.
EndedConversionIsServed ==
    (last # None /\ DOMAIN buckets # {}) =>
        LET id == last.emission.id
        IN /\ dir.config = last.provenance.source_sha256
           /\ Sources[id].head = "whole" => dir.head = id
           /\ Sources[id].pooling => dir.pooling = id
           /\ \A k \in DOMAIN last.emission.lengths :
                 LET seq == last.emission.lengths[k]
                 IN \/ buckets[seq] = last
                    \/ StaysCompiled(last)
                    \/ \E n \in DOMAIN dir.bundles : Outranks(n, last, seq)

\* "a directory holding both resolves the same way whatever order the
\* filesystem lists it in": for every length some bundle is loaded, and the
\* order decides between bundles of one form and place, all of a single length
\* or all of several (collect_buckets of provision.rs).
ResolvesTheSameWay ==
    \A seq \in SeqsIn(dir.bundles) :
        /\ Resolutions(dir.bundles, seq) # {}
        /\ \A n, m \in Resolutions(dir.bundles, seq) :
              n.ext = m.ext /\ n.compiled = m.compiled /\ (HasFunction(n) <=> HasFunction(m))
=============================================================================
