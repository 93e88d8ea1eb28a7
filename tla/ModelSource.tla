------------------------------ MODULE ModelSource ------------------------------
(***************************************************************************)
(* Which files a start of kohagi, kohagi-rerank or kohagi-serve loads, and *)
(* which settings it runs them with: cli.rs (the flags), source.rs and     *)
(* coreml/provision.rs (a checkpoint, or a CoreML bundle, in a directory   *)
(* or on the Hugging Face Hub), model.rs and rerank/mod.rs (the load).     *)
(*                                                                         *)
(* Programs are started one after another over one cache of the Hub, which *)
(* publishes new commits and is within reach or not at each call; a start  *)
(* can be killed. A directory is modelled as a repository with a single commit.   *)
(* How the cached conversions are written is BundleCache's, what is in     *)
(* them CoreMlConvert's, and the weights replaced during a load Embedder's.*)
(***************************************************************************)
EXTENDS Integers, Sequences, FiniteSets

CONSTANTS Published,  \* by repository, the sequence of its commits; a commit
                      \* is a function from the names of files to what they say
          Local,      \* the repositories that are directories of this machine
          Bundles,    \* by file name of a bundle: its lengths, and mlmodelc or mlpackage
          Built,      \* the cargo features of the binaries, and "avx512bf16" if the CPU has it
          Machines,   \* sets of starts: a program, and the flags of its models. The
                      \* callers of a machine run those of one of them
          MaxBucket,  \* the longest length the converter emits (4096)
          None

VARIABLES machine,             \* the set of starts of this machine
          hub,                 \* the Hub: the commit main is at, by repository
          cache,               \* hf_hub's: refs/main and the snapshots
          conversions,         \* the bundles made of checkpoints, by what they are of
          start, pc, at,       \* the program run, its stage, and the model it loads
          todo, got,           \* files to fetch, and the commit each came from
          loaded, exit,        \* ModelInfo of each model, and the exit code
          lost, promised       \* history: see Fetch and Loads

hubVars == <<machine, hub>>
fetchVars == <<todo, got, lost>>
sourceVars == <<hubVars, cache, conversions, start, pc, at, fetchVars, loaded, exit, promised>>

Remote == DOMAIN Published \ Local
WEIGHTS == "model.safetensors"
CONFIG == "config.json"
TOKENIZER == "tokenizer.json"
POOLING == "1_Pooling/config.json"
SENTENCE_CONFIG == "sentence_bert_config.json"
COREML_HEAD_FILE == "head.safetensors"
Metadata == {CONFIG, TOKENIZER, POOLING, SENTENCE_CONFIG}

ASSUME NoneIsNoValue == None \notin Nat /\ None \notin {"cls", "mean"}
ASSUME PublishedIsSound ==
    \A r \in DOMAIN Published :
        /\ Len(Published[r]) \in Nat \ {0} /\ DOMAIN Published[r] = 1..Len(Published[r])
        /\ \A c \in DOMAIN Published[r] :
              LET commit == Published[r][c]
              IN /\ IsFiniteSet(DOMAIN commit)
                 /\ CONFIG \in DOMAIN commit => commit[CONFIG].hidden \in Nat /\ commit[CONFIG].positions \in Nat
ASSUME LocalIsPublished == Local \subseteq DOMAIN Published
ASSUME BundlesAreSound ==
    /\ (Metadata \union {WEIGHTS, COREML_HEAD_FILE}) \intersect DOMAIN Bundles = {}
    /\ \A f \in DOMAIN Bundles : Bundles[f].seqs \subseteq Nat /\ Bundles[f].seqs # {}

SourceInit ==
    /\ machine \in Machines
    /\ hub = [r \in Remote |-> 1]
    /\ cache = [r \in Remote |-> [ref |-> 0, snaps |-> [c \in DOMAIN Published[r] |-> {}]]]
    /\ conversions = <<>>
    /\ start = None /\ pc = "idle" /\ at = 0
    /\ todo = <<>> /\ got = <<>> /\ loaded = <<>> /\ exit = None
    /\ lost = FALSE /\ promised = {}

-----------------------------------------------------------------------------
(* The Hub, and hf_hub's cache of it.                                      *)

\* What was promised of a model whose every file is here holds all the same.
\* Only a fetch reads the Hub: a commit published at another time is as good as
\* one published before or after.
Publish(r) == /\ pc \in {"idle", "fetch", "check"}
              /\ hub[r] < Len(Published[r])
              /\ hub' = [hub EXCEPT ![r] = @ + 1]
              /\ promised' = {p \in promised : p.whole}
              /\ UNCHANGED <<machine, cache, conversions, start, pc, at, fetchVars, loaded, exit>>

Cached(r, f) == cache[r].ref # 0 /\ f \in cache[r].snaps[cache[r].ref]
OnHub(r, f, reachable) == reachable /\ f \in DOMAIN Published[r][hub[r]]

\* The commit whose file `get` returns the path of: the one refs/main names, if
\* its snapshot has the file, or else what main is now. 0 is an error.
Get(r, f, reachable) ==
    IF Cached(r, f) THEN cache[r].ref ELSE IF OnHub(r, f, reachable) THEN hub[r] ELSE 0

\* A download goes into the snapshot of main's commit, and moves refs/main there.
GetInto(r, f, reachable) ==
    IF Cached(r, f) \/ ~OnHub(r, f, reachable) THEN cache
    ELSE [cache EXCEPT ![r] = [ref |-> hub[r], snaps |-> [cache[r].snaps EXCEPT ![hub[r]] = @ \union {f}]]]

\* What a directory holds, or the snapshot of a commit.
Directory(r, c) ==
    [f \in IF r \in Local THEN DOMAIN Published[r][1] ELSE cache[r].snaps[c] |-> Published[r][c][f]]

-----------------------------------------------------------------------------
(* The flags.                                                              *)

\* The models a start loads, in that order. kohagi-serve's reranker runs where
\* its embedder does; a reranker is never quantized.
Models(s) ==
    LET rerank == [s.rerank EXCEPT !.coreml_quantize = "fp16"]
        beside == [rerank EXCEPT !.device = s.model.device, !.precision = s.model.precision,
                                 !.coreml_prefer = s.model.coreml_prefer, !.sigmoid = TRUE]
    IN IF s.program = "kohagi-rerank" THEN <<rerank>>
       ELSE IF s.program = "kohagi-serve" /\ s.rerank # None THEN <<s.model, beside>>
       ELSE <<s.model>>

\* --coreml-dir wins over --coreml-model-id, and either over a conversion.
SourceOf(m) ==
    IF m.device # "coreml" THEN [kind |-> "checkpoint", repo |-> m.repo]
    ELSE IF m.coreml_dir # None THEN [kind |-> "bundle", repo |-> m.coreml_dir]
    ELSE IF m.coreml_model_id # None THEN [kind |-> "bundle", repo |-> m.coreml_model_id]
    ELSE [kind |-> "convert", repo |-> m.repo]

NothingToConvert(m) == SourceOf(m).kind = "convert" /\ m.coreml_buckets = {}

\* What clap admits: numbers where numbers are asked for, and no --dims for a
\* reranker; an embedder and a reranker are flags of two kinds. A source that does
\* not exist is one of no files.
ASSUME FlagsAreSound ==
    \A starts \in Machines : \A s \in starts : \A i \in DOMAIN Models(s) :
        LET m == Models(s)[i]
        IN /\ SourceOf(m).repo \in DOMAIN Published
           /\ m.max_seq_length \in Nat /\ m.coreml_buckets \subseteq Nat
           /\ m.dims \in Nat \union {None} /\ (m.kind = "rerank" => m.dims = None)
           /\ m.kind \in {"embed", "rerank"}
           /\ \A j \in DOMAIN Models(s) \ {i} : Models(s)[j].kind # m.kind

Model == Models(start)[at]
Source == SourceOf(Model)

Over(code) == /\ pc' = "over" /\ exit' = code
              /\ todo' = <<>> /\ got' = <<>> /\ loaded' = <<>>

\* Every source is named before any model is loaded; then kohagi refuses token
\* counts in a format that has no place for them.
Run(s) ==
    /\ pc = "idle"
    /\ start' = s /\ lost' = FALSE
    /\ IF \/ \E i \in DOMAIN Models(s) : NothingToConvert(Models(s)[i])
          \/ s.program = "kohagi" /\ s.report_tokens /\ s.format = "openai"
       THEN at' = 0 /\ Over(3)
       ELSE at' = 1 /\ pc' = "load" /\ UNCHANGED <<todo, got, loaded, exit>>
    /\ UNCHANGED <<hubVars, cache, conversions, promised>>

-----------------------------------------------------------------------------
(* fetch_checkpoint, fetch_from_hub.                                       *)

\* A file to fetch. `listed` is the commit whose listing named it, if one did.
Required(f) == [file |-> f, required |-> TRUE, listed |-> None]
Optional(f) == [file |-> f, required |-> FALSE, listed |-> None]

CheckpointFiles ==
    <<Required(WEIGHTS), Required(CONFIG), Required(TOKENIZER), Optional(POOLING),
      Optional(SENTENCE_CONFIG)>>

\* Which forms the files listed have of a length.
Forms(names, seq) == {Bundles[f].form : f \in {g \in names \intersect DOMAIN Bundles : seq \in Bundles[g].seqs}}

\* Metadata, and of each bundle the form asked for, or the other if that is all
\* there is. The first of its lengths stands for all of them.
Wanted(f, prefer, names) ==
    IF f \in DOMAIN Bundles
    THEN LET seqs == Bundles[f].seqs
             forms == Forms(names, CHOOSE n \in seqs : \A k \in seqs : n <= k)
         IN Bundles[f].form = IF prefer \in forms THEN prefer
                              ELSE IF prefer = "mlmodelc" THEN "mlpackage" ELSE "mlmodelc"
    ELSE f \in Metadata

\* The files of a repository of bundles, in the order of the listing.
Listing(s) == CHOOSE q \in [1..Cardinality(s) -> s] : \A i, j \in DOMAIN q : i # j => q[i] # q[j]

BundleFiles(r, prefer) ==
    LET names == DOMAIN Published[r][hub[r]]
        listing == Append(Listing({f \in names : Wanted(f, prefer, names)}), CONFIG)
    IN [i \in DOMAIN listing |-> [Required(listing[i]) EXCEPT !.listed = hub[r]]]

\* What is refused before any file is touched, with its exit code, or 0.
RefusedEarly(m) ==
    IF m.kind = "embed" /\ m.dims # None /\ ~m.normalize THEN 1
    ELSE IF m.device = "coreml" /\ "coreml" \notin Built THEN 3
    ELSE IF SourceOf(m).kind = "convert" /\ "coreml-export" \notin Built THEN 3
    ELSE 0

\* Mutant: fetch_checkpoint, too, first asks the Hub what there is.
AlwaysListsFirst == TRUE

\* fetch_from_hub asks the Hub which files there are, cached or not.
ListsFirst == Source.kind = "bundle"

Begin(reachable) ==
    /\ pc = "load"
    /\ IF RefusedEarly(Model) # 0 THEN Over(RefusedEarly(Model))
       ELSE IF Source.repo \in Local
       THEN /\ pc' = "fetch" /\ todo' = <<>>
            /\ got' = [f \in DOMAIN Published[Source.repo][1] |-> 1]
            /\ UNCHANGED <<loaded, exit>>
       ELSE IF ListsFirst /\ ~reachable THEN Over(1)
       ELSE /\ pc' = "fetch" /\ got' = <<>>
            /\ todo' = IF Source.kind = "bundle" THEN BundleFiles(Source.repo, Model.coreml_prefer)
                       ELSE CheckpointFiles
            /\ UNCHANGED <<loaded, exit>>
    /\ UNCHANGED <<hubVars, cache, conversions, start, at, lost, promised>>

\* The value of g at f is c, and g is as it was elsewhere.
With(g, f, c) == [x \in DOMAIN g \union {f} |-> IF x = f THEN c ELSE g[x]]

\* One file. An optional one that does not come, for whatever reason, is taken
\* to be one that the model does not have; `lost` notes that it may have had it,
\* or that a file is not of the commit that was listed. The self-check after a
\* conversion gives up instead. A bundle's files may come from a newer commit, and
\* refs/main goes there for the checkpoint of that repository, too.
Fetch(reachable) ==
    /\ pc \in {"fetch", "check"} /\ todo # <<>>
    /\ LET f == Head(todo).file
           c == Get(Source.repo, f, reachable)
           failed == c = 0 /\ Head(todo).required
       IN /\ cache' = GetInto(Source.repo, f, reachable)
          /\ IF failed /\ pc = "fetch" THEN Over(1) /\ UNCHANGED lost
             ELSE /\ todo' = IF failed THEN <<>> ELSE Tail(todo)
                  /\ got' = IF c = 0 THEN got ELSE With(got, f, c)
                  /\ lost' = \/ lost
                             \/ /\ pc = "fetch" /\ c = 0
                                /\ ~(reachable /\ hub[Source.repo] = got[WEIGHTS])
                             \/ pc = "fetch" /\ c # 0 /\ Head(todo).listed \notin {None, c}
                  /\ UNCHANGED <<pc, loaded, exit>>
    /\ promised' = {p \in promised : Source.kind = "bundle" => SourceOf(p.model).repo # Source.repo}
    /\ UNCHANGED <<hubVars, conversions, start, at>>

-----------------------------------------------------------------------------
(* The load.                                                               *)

\* All of one commit, and nothing missed.
Clean == ~lost /\ \A f, g \in DOMAIN got : got[f] = got[g]

\* Where a file is from; a directory need not have it.
From(f) == IF Source.repo \in Local THEN 1 ELSE got[f]

\* Mutant: config.json is read where `get` put it.
CheckpointHereAsGot ==
    [f \in DOMAIN got |-> Published[Source.repo][got[f]][f]]

\* The files of a checkpoint: config.json is the one beside the weights, if any.
CheckpointHere ==
    LET beside == Directory(Source.repo, From(WEIGHTS))
    IN [f \in (DOMAIN got \ {CONFIG}) \union ({CONFIG} \intersect DOMAIN beside) |->
            IF f = CONFIG THEN beside[CONFIG] ELSE Published[Source.repo][got[f]][f]]

BundlesIn(files) == DOMAIN files \intersect DOMAIN Bundles

\* A directory to load on the Neural Engine: its files, the lengths of its
\* bundles, and what those were made of.
BundleHere ==
    LET files == Directory(Source.repo, From(CONFIG))
    IN [files |-> files, clean |-> Clean,
        buckets |-> UNION {Bundles[f].seqs : f \in BundlesIn(files)},
        weights |-> {files[f] : f \in BundlesIn(files)}]

Refused(m, c) ==
    IF m.kind = "embed" THEN m.dims # None /\ m.dims \notin 1..c.hidden
    ELSE c.labels # 1 \/ c.classifier_pooling \notin {None, "cls", "mean"}

CheckpointRefused(m, files) ==
    IF ~({WEIGHTS, CONFIG, TOKENIZER} \subseteq DOMAIN files) THEN 1
    ELSE LET config == files[CONFIG] IN
         IF \/ Refused(m, config)
            \/ m.max_seq_length > config.positions
            \/ m.device \in {"metal", "cuda"} /\ (m.precision = "bf16" \/ m.device \notin Built)
            \/ m.device = "cpu" /\ m.precision = "bf16" /\ "avx512bf16" \notin Built
            \/ files[WEIGHTS].hidden # config.hidden
            \/ m.kind = "rerank" /\ ~files[WEIGHTS].head
         THEN 1 ELSE 0

\* 3 is the Neural Engine's "not here, try --device cpu".
BundleRefused(m, d) ==
    IF CONFIG \notin DOMAIN d.files THEN 1
    ELSE IF Refused(m, d.files[CONFIG]) THEN 1
    ELSE IF m.kind = "rerank" /\ COREML_HEAD_FILE \notin DOMAIN d.files THEN 3
    ELSE IF d.buckets = {} THEN 3
    ELSE IF \E w \in d.weights : w.hidden # d.files[CONFIG].hidden THEN 1
    ELSE IF \A n \in d.buckets : m.max_seq_length > n THEN 3
    ELSE IF TOKENIZER \notin DOMAIN d.files THEN 1
    ELSE 0

\* The flag, else what the checkpoint declares, else the mean. A cross-encoder
\* has its own way to say it.
ResolvePooling(m, files) ==
    IF m.kind = "rerank"
    THEN IF files[CONFIG].classifier_pooling = "mean" THEN "mean" ELSE "cls"
    ELSE IF m.pooling # None THEN m.pooling
    ELSE IF POOLING \in DOMAIN files /\ files[POOLING] \in {"cls", "mean"} THEN files[POOLING]
    ELSE "mean"

Info(m, files, weights, buckets, quantization) ==
    [kind |-> m.kind, label |-> SourceOf(m).repo, weights |-> weights, config |-> files[CONFIG],
     tokenizer |-> files[TOKENIZER], pooling |-> ResolvePooling(m, files),
     dim |-> files[CONFIG].hidden,
     output_dim |-> IF m.dims = files[CONFIG].hidden THEN None ELSE m.dims,
     normalized |-> m.normalize, max_seq_length |-> m.max_seq_length,
     declared |-> IF SENTENCE_CONFIG \in DOMAIN files THEN files[SENTENCE_CONFIG] ELSE None,
     buckets |-> buckets, quantization |-> quantization, sigmoid |-> m.sigmoid]

\* The model is in. `clean` is history: the files it was made of are of one
\* commit, and none was missed. If those fetched are, too, it may be remembered
\* as what the same flags load from now on: `whole` if it has every file a load
\* ever asks for, and otherwise if main has not moved.
Loads(info, clean, fresh) ==
    LET whole == Source.repo \in Local \/ {CheckpointFiles[i].file : i \in DOMAIN CheckpointFiles} \subseteq DOMAIN got
        lasts == Source.repo \in Local \/ (Source.kind # "bundle" /\ (whole \/ hub[Source.repo] = got[WEIGHTS]))
    IN
    /\ loaded' = Append(loaded, [info |-> info, clean |-> clean])
    /\ promised' \in {promised} \union
          (IF clean /\ Clean /\ lasts THEN {{[model |-> Model, info |-> info, whole |-> whole]}} ELSE {})
    /\ got' = <<>> /\ lost' = FALSE
    /\ IF fresh /\ Model.kind = "embed"
       THEN pc' = "check" /\ todo' = (IF Source.repo \in Local THEN <<>> ELSE CheckpointFiles) /\ at' = at
       ELSE todo' = <<>> /\ IF at < Len(Models(start)) THEN at' = at + 1 /\ pc' = "load"
                            ELSE at' = at /\ pc' = "up"
    /\ UNCHANGED <<hubVars, start, exit>>

Fails(code) == /\ Over(code)
               /\ UNCHANGED <<hubVars, conversions, start, at, lost, promised>>

LoadCheckpoint ==
    /\ pc = "fetch" /\ todo = <<>> /\ Source.kind = "checkpoint"
    /\ LET files == CheckpointHere IN
       IF CheckpointRefused(Model, files) # 0 THEN Fails(CheckpointRefused(Model, files))
       ELSE Loads(Info(Model, files, {files[WEIGHTS]}, {}, None), Clean, FALSE) /\ UNCHANGED conversions
    /\ UNCHANGED cache

LoadBundle(d, made, fresh) ==
    /\ IF BundleRefused(Model, d) # 0
       THEN Over(BundleRefused(Model, d)) /\ UNCHANGED <<hubVars, start, at, lost, promised>>
       ELSE Loads(Info(Model, d.files, d.weights, d.buckets, made), d.clean, fresh)

LoadCoreMl ==
    /\ pc = "fetch" /\ todo = <<>> /\ Source.kind = "bundle"
    /\ LoadBundle(BundleHere, None, FALSE)
    /\ UNCHANGED <<cache, conversions>>

-----------------------------------------------------------------------------
(* convert_for_coreml, and autoconvert's cache.                            *)

\* snapshot_commit names a checkpoint of the Hub, the weights' size and date one
\* of a directory.
EntryOf == <<Source.repo, From(WEIGHTS), Model.coreml_buckets, Model.coreml_quantize>>

ConversionRefused(files) ==
    IF ~({WEIGHTS, CONFIG, TOKENIZER} \subseteq DOMAIN files) THEN TRUE
    ELSE \/ \E n \in Model.coreml_buckets : n > files[CONFIG].positions \/ n > MaxBucket
         \/ files[WEIGHTS].hidden # files[CONFIG].hidden

Converted(files) ==
    [files |-> LET copied == [f \in DOMAIN files \ {WEIGHTS} |-> files[f]]
               IN IF files[WEIGHTS].head THEN With(copied, COREML_HEAD_FILE, files[WEIGHTS]) ELSE copied,
     clean |-> Clean, buckets |-> Model.coreml_buckets, weights |-> {files[WEIGHTS]},
     quantization |-> Model.coreml_quantize]

\* evict_superseded: this checkpoint's other commits, for these lengths.
Superseded(entry) == {k \in DOMAIN conversions : k # entry /\ [k EXCEPT ![2] = entry[2]] = entry}

LoadConverted ==
    /\ pc = "fetch" /\ todo = <<>> /\ Source.kind = "convert"
    /\ LET files == CheckpointHere
           entry == EntryOf
           made == Converted(files)
       IN IF entry \in DOMAIN conversions
          THEN /\ LoadBundle(conversions[entry], conversions[entry].quantization, FALSE)
               /\ UNCHANGED conversions
          ELSE IF ConversionRefused(files) THEN Fails(1)
          ELSE /\ conversions' = With([k \in DOMAIN conversions \ Superseded(entry) |-> conversions[k]], entry, made)
               /\ LoadBundle(made, made.quantization, TRUE)
    /\ UNCHANGED cache

\* The self-check loaded the checkpoint once more, or could not.
Checked ==
    /\ pc = "check" /\ todo = <<>>
    /\ got' = <<>>
    /\ IF at < Len(Models(start)) THEN at' = at + 1 /\ pc' = "load" ELSE at' = at /\ pc' = "up"
    /\ UNCHANGED <<hubVars, cache, conversions, start, todo, lost, loaded, exit, promised>>

\* A signal; what was fetched stays in the cache.
Kill == /\ pc \in {"load", "fetch", "check"}
        /\ Over(143)
        /\ UNCHANGED <<hubVars, cache, conversions, start, at, lost, promised>>

\* The process is gone.
Leave == /\ pc \in {"up", "over"}
         /\ pc' = "idle" /\ start' = None /\ at' = 0 /\ exit' = None
         /\ todo' = <<>> /\ got' = <<>> /\ loaded' = <<>> /\ lost' = FALSE
         /\ UNCHANGED <<hubVars, cache, conversions, promised>>

SourceNext ==
    \/ \E r \in Remote : Publish(r)
    \/ \E s \in machine : Run(s)
    \/ \E reachable \in BOOLEAN : Begin(reachable) \/ Fetch(reachable)
    \/ LoadCheckpoint \/ LoadCoreMl \/ LoadConverted \/ Checked
    \/ Kill \/ Leave

-----------------------------------------------------------------------------
(* Properties.                                                             *)

MadeOf(files) == {files[f] : f \in ({WEIGHTS} \union DOMAIN Bundles) \intersect DOMAIN files}

Declared(files) == IF POOLING \in DOMAIN files THEN files[POOLING] ELSE None

\* One loaded model, and the flags it was loaded by.
AsFlagged(m, model) ==
    LET source == SourceOf(m)
        info == model.info
    IN \E c \in DOMAIN Published[source.repo] :
        LET said == Published[source.repo][c] IN
        /\ info.config = said[CONFIG]
        /\ info.weights # {} /\ info.weights \subseteq MadeOf(said)
        /\ info.max_seq_length = m.max_seq_length
        /\ info.output_dim \in {None, m.dims} /\ (info.output_dim # None => info.output_dim < info.dim)
        /\ source.kind = "checkpoint" => m.max_seq_length <= said[CONFIG].positions
        /\ source.kind = "bundle" => \E n \in info.buckets : m.max_seq_length <= n
        /\ source.kind = "convert" =>
             /\ info.buckets = m.coreml_buckets /\ info.quantization = m.coreml_quantize
             /\ \E n \in info.buckets : m.max_seq_length <= n /\ n <= said[CONFIG].positions
        /\ model.clean =>
             /\ info.tokenizer = said[TOKENIZER]
             /\ info.declared = IF SENTENCE_CONFIG \in DOMAIN said THEN said[SENTENCE_CONFIG] ELSE None
             /\ m.kind = "embed" =>
                  info.pooling = IF m.pooling # None THEN m.pooling
                                 ELSE IF Declared(said) \in {"cls", "mean"} THEN Declared(said)
                                 ELSE "mean"

\* A model never runs on the weights of one commit with the config.json of
\* another; when its files are all of one commit, they and the flags decide
\* everything else that changes a vector, whatever was downloaded, converted or
\* interrupted before: tokenizer, pooling, declared limit, lengths, quantization,
\* dimensions and truncation (Embedder::load and Reranker::load over
\* fetch_checkpoint, fetch_from_hub and convert_for_coreml).
LoadedAsFlagged == \A i \in DOMAIN loaded : AsFlagged(Models(start)[i], loaded[i])

\* Once a model was loaded whole, the same flags load it again with the same
\* settings, with the Hub out of reach, with a newer commit on it, and after
\* other models, other conversions and killed starts; one that lacks an optional
\* file, until the Hub changes; one of a repository with bundles, until those are
\* fetched. (Not a bundle on the Hub, whose start asks the Hub.)
RepeatableOffline ==
    \A p \in promised :
        /\ pc = "over" /\ exit \in {1, 3} /\ at # 0 => Model # p.model
        /\ \A i \in DOMAIN loaded : Models(start)[i] = p.model => loaded[i].info = p.info
================================================================================
