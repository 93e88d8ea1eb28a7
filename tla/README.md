# TLA+ models of kohagi

kohagi turns text into vectors (`kohagi`) and query-document pairs into scores
(`kohagi-rerank`) over stdin and stdout, and serves both over HTTP
(`kohagi-serve`). This directory models what is concurrent, ordered or able to
fail in it, checks the models with TLC and proves theorems about them with TLAPS.
Paths such as `serve/worker.rs` are under `src/src/` of the repository tree.

    tlc -workers 2 -config MCModelWorker.cfg MCModelWorker   # one run
    tlapm KohagiServeProofs.tla                              # one proof module

`PROJECT.json` lists the runs, which definition models which source lines
(`map`), the hazards the properties are for, and the mutants. An operator
introduced by `Mutant:` is a deliberately wrong variant of the definition after
it; no specification uses one. Each says what bug the property it is paired with
would catch.

## 1. Inventory

### The model thread: `serve/worker.rs`
*State*: the thread, its bounded mpsc queue (`--max-queue`), the job in hand, the
`Alive` sender, one oneshot per ask. *Operations*: `spawn` (load, then hand over a
`Handle`), `Handle::ask`, the loop, `run_job` with its `catch_unwind`.
*Interaction*: HTTP handlers ask through a `Handle`; `serve/mod.rs` watches
`Alive`. *Hard*: an ask is three steps of two threads, the asker may be dropped
at each, and the thread may unwind outside `catch_unwind` (`remark!` is
`eprintln!`). *Correct when*: no ask hangs, nobody gets another's answer, "busy"
and "gone" are said only when true, jobs are answered in order.

### kohagi-serve: `serve/mod.rs`, `server.rs`, `http.rs`, `counts.rs`, `reply.rs`
*State*: the accept loop, the stop `watch`, the `JoinSet` of connections, the
shutdown deadline, the counters, the exit status. *Operations*: load both models,
listen, accept, handle a request, graceful stop, abort. *Interaction*: two model
threads, hyper's connections, signals, clients that come and go. *Hard*: stop
arriving between any two polls, client hang-ups, the timeout racing the last
reply, two models that must not block each other. *Correct when*: a stop always
ends, replies in flight go out whole, no request is read after the stop, the
counters add up, the exit status tells the truth.

### The Unix listener: `serve/listen.rs`
*State*: the path, `<path>.lock` and its `flock`, the listening socket, the
recorded device and inode. *Operations*: lock, probe, unlink a stale socket,
bind, chmod, record; on `Drop` compare, unlink, close, unlock. *Interaction*: other
kohagi-serve processes and the operator, through the file system. *Hard*: every
system call goes by path, and the path can change between two of them; a killed
server leaves its socket. *Correct when*: a live server keeps its path, nothing
that is not kohagi's is removed, a crash never costs the next start.

### JSONL and OpenAI over stdio: `protocol.rs`, `stdio.rs`, `rerank/stdio.rs`
*State*: the chunk, the lazily loaded model, the counts, the open document, the
`BufWriter`. *Operations*: read a line, flush a chunk, write a boundary, finish,
exit code. *Interaction*: the caller at both pipes, who may wait for a batch's end
before sending the next. *Hard*: chunks, batches and document boundaries that do
not coincide, failures halfway, a full pipe, a reply left in the buffer.
*Correct when*: stdout is the transcript of the input, the summary is the
input's, a batch is answered without waiting for more input.

### The two bundle caches: `coreml/provision.rs`, `coreml/autoconvert.rs`
*State*: directories under one cache root, shared by every kohagi of a user: entries,
staging directories, temporary ones. *Operations*: look up, make, stage, clear,
rename, evict what is superseded, load, heal. *Interaction*: processes meet in
the file system only, without a lock. *Hard*: removing a directory is many calls, a
process is killed between any two, another one sees what is there in between.
*Correct when*: what is loaded was made from the source as it is, a run alone
succeeds whatever its predecessors left, superseded models do not pile up.

### Loading a model: `fingerprint.rs`, `load` of `model.rs`, `rerank/mod.rs`, `cli.rs`
*State*: the checkpoint at its path, the descriptor and the thread that hash it, the
encoder and the re-ranker's head, each loaded from the path. *Operations*: spawn the
hash, load, confirm that the path is what it was, wait for the digest, compare it
with `--expect-sha256`. *Interaction*: whoever updates the checkpoint, at any
moment. *Hard*: one file is opened up to three times and looked at once more, and a
thread reads it meanwhile. *Correct when*: no digest names other bytes than those
loaded, and an expectation is never passed unverified.

### Batches: `batch.rs`, `run_batches` of `model.rs`, `run_rows` of `coreml.rs`
*State*: the texts' lengths, the batches, the forwards that have not run, the results.
*Operations*: truncate, sort, chunk, pad, split under a memory budget, run, reduce, put
back. *Interaction*: a rayon pool on the CPU; one device otherwise. *Hard*: three
index spaces (caller's, batch's, forward's), forwards that end in any order, one
failing. *Correct when*: every text's result is at its place and made of that text
alone, none is missing, no forward holds more scores than the budget.

### Attention: `attention.rs`, `encoder.rs`, `bf16/`
*State*: none; a plan is a function of the length, the window and a tile.
*Operations*: plan, blocks, bands, the table of windows and the views into it.
*Hard*: off-by-ones at both ends of a band and in the last block, and two encoders
that cut differently. *Correct when*: a query attends to exactly the keys the
dense computation would give it.

### The encoders: `encoder.rs`, `bf16/`, `fused.rs`
*State*: the checkpoint's tensors; between two layers, one hidden tensor of a padded
batch. *Operations*: load under either naming, embed, a layer (norm, projection,
rotation, attention, gate), the final norm; in bf16 packing, register tiles, column
panels and the lanes past the end of a row. *Interaction*: `model.rs` gives a batch and pools
what comes out. *Hard*: four implementations of one model (blocked f32, dense on Metal, CUDA,
packed bf16), rows and queries that are masked everywhere, partial tiles of four kinds.
*Correct when*: each computes the model, text by text, and padding shows nowhere.

### The CoreML export and its bundles: `coreml_export/`, `bin/coreml-convert.rs`, `coreml.rs`
*State*: the program under construction, the weight file and its offsets, the output
directory, and, when it is loaded, the buckets. *Operations*: refuse, write weights
(quantized or not), emit one function per length, write the package, the head and the
metadata, compile beside; scan, choose a bundle per length, run a row, read the
output through its strides. *Interaction*: Core ML, and a directory other tools write to.
*Hard*: references by offset and by name, constants that are shared, a directory
that holds several conversions, an interruption between two files. *Correct
when*: a vector is the one the provenance promises, in whichever bucket.

### Where a model comes from: `source.rs`, `cli.rs`, `config.rs`, the three `main`s
*State*: hf_hub's cache (a ref and its snapshots), the converted bundles, the flags.
*Operations*: name the sources, refuse, list, fetch file by file, convert, load, self-check.
*Interaction*: a Hub that publishes and is out of reach, earlier starts of other programs,
kills. *Hard*: a download is several requests, an optional file's absence and its loss
look alike, what is loaded now is what an earlier start left. *Correct when*: the model
is the one the flags name, of one commit, and loads again without the network.

### Requests and replies: `serve/api`, `http.rs`, `reply.rs`
*State*: none but what the start fixed. *Operations*: route, read the body, validate, prefix,
ask, truncate, rank, reply. *Interaction*: clients, and the model's queue. *Hard*: boundaries
(`max_inputs`, `dimensions`, `top_n`, body lengths), ties, two paths to one
truncation. *Correct when*: a request is answered whole or refused, and a
reply is what the command line gives for the same flags.

### Not modelled
| part | why |
|---|---|
| rounding and approximation (`exp512`, `gelu16`, bf16, fp16, int8) | error bounds of floating point are out of reach; what is rounded and where is modelled |
| `fused.rs`: the Metal shader and its pipeline cache; `simd.rs` | the shader is text for another compiler; what it computes is the dense attention of `Encoders` |
| `coreml_proto`, the package's manifest | generated encoders, and fixed text |
| `slug` (`autoconvert.rs`) | one name for `a/b` and `a-b`: such models evict each other's bundles and convert again; the commit or date in the name keeps them apart |
| `tools/`, `scripts/`, benchmarks | not part of the running system |

## 2. Plan

The order is by what a failure would cost a user.

1. *Done* `ModelWorker`, `AskService`: the ask, and the abstract service it implements.
2. *Done* `KohagiServe`, which extends `ModelWorker` with everything around it.
3. *Done* `UnixSocket`.
4. *Done* `StdioProtocol`.
5. *Done* the proofs about `ModelWorker` and `UnixSocket`, in `KohagiServeProofs`.
6. *Done* `BundleCache`: both caches, with crashes and a source that is replaced.
7. *Done* `AttentionPlan`, `Batching`: pure definitions against their reference
   definitions.
8. *Done* `Embedder`: the phases of one run, the hashing thread next to them, a checkpoint
   replaced underneath, and the forward passes of `Batching` on each backend;
   `EmbedderProofs`.
9. *Done* `Tensors`, `ModernBert`, `LayerByLayer`: the model said once, as the
   specification of every encoder; `Bf16Kernels`, `Encoders` implement it.
10. *Done* `MilProgram`, `CoreMlGraph`, `CoreMlConvert`: the emitted graph run as Core ML
   would run it, against the same `ModernBert`; the output directory over several
   conversions.
11. *Done* `ModelSource`, and `HttpApi` on top of it: from flags to a reply.
12. *Done* `BundleCacheProofs`, `KohagiServeProofs`,
   `WorkerService`: the same for all constants.
13. *Done* `CollectionFacts`, `StdioProtocolProofs`, and in `EmbedderProofs` the operators of
   `AttentionPlan` and `Batching` and the rows of a call: the transcript and the results for
   all inputs.
14. *Done* `HttpApiProofs`: which model a start loads, and what a request is answered, for all
   repositories, flags and requests.
15. *Done* `CoreMlConvertProofs`: which bundle of a directory is served, after any conversions,
   what a text is given through it, and that what is emitted is a program Core ML takes.
16. *Done* `EncodersProofs`: no encoder makes a NaN or an infinity, for all configs,
   checkpoints, texts, budgets and tile sizes.
17. Open: two processes at one hf_hub cache; `slug`.

## 3. Modules

| module | models | correspondence |
|---|---|---|
| `ModelWorker` | `serve/worker.rs` | `thread`, `queue`, `current`, `alive`, `open` are the thread's locals; `asked`, `reply`, `call` an ask's oneshot and its two ends. `Ask` is `try_send`, `Receive` the `.await`, `Leave` the drop of a handler's future; `Take`, `RunJob`, `Send` the loop; `LogPanics`, `DropAlive`, `DropQueue` an unwinding, in drop order |
| `AskService` | what a model promises | a line of bounded length, answered in order, closed once |
| `WorkerService` | one of `ModelWorker`'s models, as `AskService` | the refinement mapping: `Line` is the job in hand and the queue behind it, `Up` whether the thread lives |
| `KohagiServe` | the rest of `serve/` | `main` is where `run` stands, `stop` the `watch`, `conn[c]` a task of the `JoinSet`. One step is what a future does between two awaits of the single-threaded runtime |
| `UnixSocket` | `serve/listen.rs` | `pc[p]` is the next system call, a file is an inode, `Meddle` is everybody else, allowed only while every process is at a stage of `Meddling` |
| `StdioProtocol` | the stdio protocol | `pc` is where `drive` stands; a piece of output is one write into the `BufWriter` |
| `BundleCache` | `coreml/provision.rs`, `coreml/autoconvert.rs` | `dirs` is the cache, `pc[p]` where a process stands between two calls that touch it; `kind` says which of the two caches, chosen once |
| `AttentionPlan` | `attention.rs` and the masks of `encoder.rs`, `bf16/` | operators of the names of the functions; a path is one of the three encoders' attentions: blocked f32, bf16, or dense (Metal's kernel, a CoreML graph) |
| `Batching` | `batch.rs`, `run_batches`, `run_rows` | a text is its length, a token `<<text, position>>`; a hidden state is what went into it: the token and the sets of tokens it attended to |
| `Embedder` | loading a model, and one call of it | `pc` is where `load` or the call stands, `file` the version at the path, `taken`, `weights`, `head` what the three opens saw, `left` the forwards that have not run |
| `Tensors` | candle's and Core ML's operations | a tensor is its shape and a flat function of residues; see its header for what a number is |
| `ModernBert`, `LayerByLayer` | what an encoder promises | one text, one token, one layer; `LayerByLayer` gives it steps |
| `Bf16Kernels` | `bf16/gemm.rs`, `softmax.rs`, `geglu.rs` | flat buffers as in the code; `Tiles` are the calls of `micro`, in panels |
| `Encoders` | `encoder.rs`, `bf16/modernbert.rs`, `load_weights` | a step is a load, an embedding, a layer, the final norm, on each of four backends |
| `MilProgram` | `coreml_export/mil.rs`, `blob.rs` | a function is the sequence of requests made to the `Builder`; `Values` runs it |
| `CoreMlGraph` | `coreml_export/encoder.rs`, `modernbert.rs`, `safetensors.rs` | operators of the functions' names, operations in the order and under the names of the code |
| `CoreMlConvert` | `bin/coreml-convert.rs`, `coreml_export/mod.rs`, `coreml.rs`, scanning in `coreml/provision.rs` | `pc` is the file `convert` writes next, `dir` the output directory, `buckets` what a loaded encoder holds, `answer` one row through it |
| `ModelSource` | `source.rs`, `cli.rs`, `fetch_from_hub`, `provision`, the loads' refusals, the three `main`s | `pc` is the stage of the program running (`at`: of which of its models), a `Fetch` is one `get` of hf_hub, `loaded` each model's `info()`; `lost`, `clean` and `promised` are history |
| `HttpApi` | `serve/api`, `http.rs`, `reply.rs` | operators of the functions' names; `Handle` is one request to a server that is up |
| `KohagiServeProofs`, `BundleCacheProofs`, `CoreMlConvertProofs`, `EmbedderProofs`, `StdioProtocolProofs`, `HttpApiProofs`, `EncodersProofs` | | theorems of the modules they extend; `KohagiServeProofs` also those about `ModelWorker` and `UnixSocket`, `EmbedderProofs` also those about `AttentionPlan` and `Batching`, `HttpApiProofs` those about `ModelSource`, `EncodersProofs` those about `Tensors` and `Bf16Kernels` |
| `CollectionFacts` | | least elements, sorting, `FlattenSeq`: what several proofs need |
| `MCModelWorker`, `MCKohagiServe`, `MCUnixSocket`, `MCBundleCache`, `MCEncoders`, `MCCoreMlConvert`, `MCHttpApi` | | constants and symmetry for TLC |

## 4. What each run checks and shows

**model_worker** (one thread, four handlers, a queue of two). With four handlers a
job runs, two wait and one is refused at once; it is the smallest instance in
which the order of the queue and its limit both matter. `NoOneForgotten`: a
waiting handler's job is still with its model or its oneshot is resolved.
`GoneIsTrue`: the 500 "the model's thread is gone" is sent only of a thread on
its way out. `EveryAskReturns` is liveness. `ModelIsAService` is refinement of
`AskService`: order, at most once, "busy" only at `MaxQueue`, no answer after the
first "gone". A second thread adds nothing here, for threads share no state; the
server's runs have two.

**serve** (two models, two connections, two requests, a queue of one). `CountsAddUp`: every
request that arrived is counted once, in a handler's hands, or abandoned.
`ExitCodeIsTrue`, `ReplyInFlightFinishes`, `NoRequestAfterStop`,
`HandlersAndAsksAgree`. Two connections are needed for a full queue (one runs, one
waits) and for a stop that finds connections in different phases; two requests for
keep-alive after a failed one. The fairness is the runtime's, and what else a property
needs stands in front of it. `StopEnds` needs the timer only: both models may hang and
clients may stall for ever. `EmbeddingNeverWaitsForReranker` needs the embedder's thread
only. `DrainEnds` needs threads that answer and clients that read, and *not* the timer:
the timeout is never what an orderly stop depends on.

**unix_socket** (two processes, four files, restarts without bound). Four files:
a stale socket, a server's own, one put in its place, one more start.
`LiveSocketStays`, `RemovesOnlyItsOwnOrStale`, `NoRefusalWithoutCause`, `StopsClean`.
Others may touch the path when no start or `Drop` is between two system calls.

**stdio** (five lines, chunks of two, a buffer of three pieces, pipes of two). Five
lines hold a full chunk, a record over, a boundary and a line after it; a buffer of
three spills in the middle of a record of either format. `OutputIsTheTranscript`
compares stdout with a definition computed from the input alone, in both formats
and after every failure, and says that JSONL is cut within a line only while a chunk is being
written or when a write failed, which is less than `PROTOCOL.md` promises (section 8); `SummaryIsTrue`; `BatchIsAnswered`:
a caller that waits for its boundary, with stdin open and nothing more to send,
gets it.

**bundle_cache** (two processes, bundles of two files, a source in three states, two
crashes). Of a checkpoint's states the second has the weights of the first and another file
beside them, the third has new weights: `Revision` gives the first two one key, and all three
to a package. Two files make removal and writing interruptible in the middle; two
processes stage, clear, rename and evict at once in the compile cache, and
one after the other in the other one. A second crash hits the process that cleans up
after the first. `NeverStale`: a compiled form that is loaded was made from the package as it was when
the process started, or from a later state; a converted one from weights no older than those at the start,
as its key covers no more (section 8); and what is about to be put in place is whole; `AloneSucceeds`: a process that had
the cache to itself fails only if the model cannot be made, whatever crashes
left behind; `SupersededGone`: after a run alone its entry is the only one.

**bundle_cache_hit** expects a violation: the comment on `provision` says a second
converter "cannot leave a half-written bundle looking like a cache hit". Eviction
takes other processes' `.partial` directories too: one process removes the files the
other has written, its `rmdir` fails as a file is added, and the
other completes and renames a bundle that lacks the first ones.

**embedder** (five backends, both tasks, up to three texts of 2, 6 or 9 tokens, batches
of 2 and 3, `--max-seq-length` of 8 and of 9, buckets of 4 and 8, a checkpoint replaced
once). With windows of 1 and blocks of 2 a local layer is banded from 7 tokens on. Under a
budget of 32 a batch of length 8 is one row a forward, banded in local layers and tiled
in global ones; of length 6, one row in two tiles, unbanded; of length 2, all its
rows in one forward. 9 tokens are truncated to 8, and a maximum of 9 is past the model's
positions and its largest bucket. `DigestIsTrue`: a known digest is that of the weights
that answer; `ExpectationHolds`; `RowsAreTheirOwn`: when the call returns, each result
is made of what its text alone would be made of, in every layer and at every
position; `NothingIsLost`: the errors the code has for rows that no batch returned and
for rows no bucket takes never come up; `ScratchWithinBudget`: the split of rows in
`model.rs` and that of queries in `encoder.rs` keep to the budget together.

**embedder_head** expects a violation: `Reranker::load` reads the classifier head from the
path after `confirm`, so a checkpoint replaced in between gives scores from two
checkpoints under the digest of one; `fingerprint.rs` calls a wrong fingerprint "the
failure that would matter".

**encoders** (two heads of four, windows of one, blocks of two, registers of two lanes; texts of
one to seven tokens, alone and in batches; a checkpoint of either naming and one that lacks a
tensor). Seven tokens make banded layers with a partial last block, hidden sizes of 8
and 5 leave partial tiles and lanes, a text of one token beside one of seven is
mostly padding, and three layers with a global one in the middle tell the two rotary
bases and the two kinds of mask apart. `IsTheModel` is refinement of
`LayerByLayer`: after each step the batch holds, of each text, what `ModernBert` says of
that text alone. `NoNaN`: not even a row of padding becomes a NaN or an infinity.

**encoders_silu** expects a violation: in bf16 the gate is gelu whatever the checkpoint names.
`encoder.rs` reads the activation so that this cannot happen silently, and CHANGELOG.md
says silu is supported on every device.

**coreml_convert** (two conversions of two checkpoints and one that is refused; five ways of
asking, one of them for the 6 alone; buckets of 3 and 6, and a `seq-6` package from elsewhere; texts of 2 and 5 tokens;
an interruption between any two files; output rows padded or not). A text of two lands in the
bucket of 3 and, padded, in that of 6; five tokens with windows of one leave
queries with nothing but padding in reach. `VectorsAreAsLabelled`: the vector is
`ModernBert`'s with the weights the provenance names, stored as it says, as long as the
buckets loaded are of one provenance (section 8).
`BucketLengthsDoNotShow`, `ProgramIsSound` (names, shapes, ranks, offsets),
`EndedConversionIsServed`: of a conversion that ended, each length is served by what it
emitted, unless an older compiled form of its name is there or a bundle of another name outranks it (`Outranks`);
its config, and its head and pooling file if its checkpoint has them. One checkpoint has both and the
other neither, so the run contains the case in which the first one's are served with the second (section 8).
`ResolvesTheSameWay`.

**answers** (five machines that each run a set of starts, in any order and number: one
model of the Hub in four ways over two commits; the same repository as a checkpoint and for the
bundles in it; bundles on the Hub and in a directory; three
servers of local models; ten ways to be refused). Two commits are the least that can be
mixed; the second has a file the first lacks and another pooling, so every mixture shows.
Each server is asked each of about eighty requests, at most one a start, since a request
changes nothing. `LoadedAsFlagged`: weights and `config.json` are of one commit always, and
the rest too unless a download was disturbed; dimensions, limits, lengths and
quantization are the flags'. `RepeatableOffline`: what was once loaded whole loads again with the
same settings, whatever was fetched, converted or killed since, and without the network.
`RepliesAreAsAsked`: a 200 exactly for a request that is taken and answered, and its vectors are
those the command line gives with `--dims`. `RankedAsAsked`: lists of two and three documents, two of
them equal in three of the four, asked for none to three results and so for more than there are; the best come first,
equal ones in the order they came.

## 5. Fairness

`UnixSocket`, `BundleCache`, `Embedder`, `CoreMlConvert`, `ModelSource` and `HttpApi` are
checked for safety only and have none; nor has `LayerByLayer`, as an encoder may fail to load
and a refinement of steps is all that is claimed.

* `RuntimeSpec`: a tokio future that was woken is polled (`Receive`, `Handler`,
  `MainStep`). Accepting a connection is not fair, and neither are clients.
* `TimerFires` (`tokio::time::timeout`), `EmbedderRuns` (a thread that can run does; a
  forward pass ends) and `AllAnswer` (every thread runs; a client that asked
  sends its body and reads its reply) are hypotheses of the one property each
  that needs them. Load and `Spawned` are never fair: nothing checked depends on a
  model that loads.
* `Process` and `Hear` in stdio: the process runs, and the caller reads stdout while it
  writes stdin, as `PROTOCOL.md` asks of it. `Send` and `CloseStdin` are not fair:
  the caller may fall silent.

## 6. What is proved

The proof modules hold for every value of the constants, under the named
assumptions of the modules they extend.

`KohagiServeProofs`, of the model threads: `WorkerTypeCorrect` (with it: never more than `MaxQueue` jobs
wait), `NoHandlerIsForgotten`, `GoneMeansDying`, for any number of models and
handlers. Neither of the last two is inductive. A thread that unwinds resolves
the oneshot of the job in hand; to know that this overwrites nobody's answer one
needs that the job's handler asked *this* model and has no answer yet
(`JobsStand`), that a job is in one place only (`NoJobTwice`), that a thread
has a job in hand exactly in three of its stages (`StageHoldsJob`), that a oneshot is filled
only for someone who waits (`RepliesAwaited`), and that a closed queue means a
dying thread (`ClosedIsDying`). `WorkerInv` is their conjunction.

`WorkerImplementsService`: `ModelIsAService` for each of any number of
models. Every step of `ModelWorker` is mapped to the step of `AskService` it is, or to
none: an ask of this model joins the line, an ask of another is a caller that goes off,
`Send` answers the head, `LogPanics` closes it. Besides `WorkerInv` this takes
that nobody asks before the model is loaded (`NobodyAsksTooEarly`), or `LoadFails` would
close a line with somebody in it, and that the receiver of the queue is the last thing a
thread drops (`ClosedIsDead`).

Of the server around them: `ServerRunsWorkers`, a server's behaviour is one of its model threads,
so that what is proved of them alone holds in it; this is the composition argument
and needs only that a request whose body is read is for a model. With it,
`ServerKeepsItsServices`: the two refinements compose, and each model of a running server is an
`AskService`. On top of it the
invariants `HandlersAgree`, `EveryRequestIsCounted` (with `CallersAreFinite`: counting is by
cardinality, and a stop at its timeout abandons many at once) and `ExitStatusIsTrue`,
and the action properties `RepliesInFlightFinish` and `ToldReadNoMore`. `ServeInv` adds to
them that a connection told of the stop is past its last request (`ToldIsLast`)
and that the outcome is settled when the drain begins (`OutcomeStands`).

`BundleCacheProofs`: `CacheIsNeverStale`. The argument is about names alone: what is in a
directory was made from a state with the revision its name stands for or from a later one
(`NamesAreKept`). What a revision covers is `WeightsAreKept`: weights that were replaced do not come back,
so states of one revision have the same weights, and those of a later one newer weights. And
a directory with a process's id in its name is touched by that process only, which is why its own staged copy is whole when `compile_cached` renames it (`KnowsItsDirs`).

In the same module, `OneEntryRemains` (`SupersededGone`) and, under `TakingTurns`,
`NothingLeftBehindFails` (`AloneSucceeds`). A process that nobody has disturbed is the only
one that runs (`UndisturbedIsAlone`), so each of its steps finds what its last one left: a listing
covers the directory, so `rmdir` succeeds, so the rename does (`HasItsWay`). For a
conversion that is not enough, as a hit is loaded as it is: an entry must stay
whole. Only the eviction of a later entry tears one (`EntriesStand`), and by then nobody looks for
it, since the source never goes back (`Supersedes`). Without `TakingTurns` it fails: two
converters at once can leave an entry that is not whole, which bundle_cache_hit shows.

In the same module, of the Unix listener: `SocketTypeCorrect`, whose last conjunct is what the lock is for:
every step between lock and unlock is made by its holder; `LiveSocketIsKept`, from
it alone, *whatever others do and when*; and, under `OthersKeepOut` (others do
not touch the path between a call that looks at it and the call that relies on what
was seen), `NothingElseIsRemoved` and `OrderedStopIsClean`. `OthersKeepOut` cannot be
dropped: a socket put at the path between `bind` and the call that records the inode
is recorded, and later removed, as the server's own. Their invariant, `SocketInv`, adds
to the types what each process knows of the path at each stage. `CrashCostsNoStart`
(`NoRefusalWithoutCause`) needs besides whose sockets still listen: one that listens
belongs to one process, and to none that is over (`Owns`, `OwnershipInv`), so that a refusal
can be laid at somebody's door. It assumes `OthersLeaveStartsAlone`, that is
`OthersKeepOut` and nobody else making a file where a start is about to bind: there `bind`
fails with no kohagi-serve to blame. The run's `Meddling` satisfies it.

`EmbedderProofs`: `DigestNamesTheWeights` and `ExpectationIsEnforced`, for any number of
versions. `DigestIsTrue` says nothing before the load is over, so `DigestInv` adds why
`confirm` is enough: the hashing thread, the loader and `confirm` look at the path in
this order and a version never comes back (`LookedInOrder`), so where the
first and the last look saw the same, the one between did (`Confirmed`); after
`verify_fingerprint` the digest no longer changes (`Verified`).

In the same module, of one forward: `AttentionIsDense`, for every length, window, budget, block width and
number of tokens: a query is in exactly one block (`OneBlock`, from division with
remainder), the block's keys include the query's window (`BandHasTheWindow`), and the
mask or the view into the table opens that window and nothing else (`MaskIsTheWindow`).
`ForwardStaysInBudget`: rows per forward times a block's scores is within the budget,
provided one row of scores and one band are. Then the three index spaces: sorting is a permutation
(`OrderIsSorted`), chunks of it are pieces (`ChunksArePieces`), so every row of a call is in
exactly one unit on every backend (`UnitsHaveEveryRow`, `RowUnitsAreRows`); the flat buffers of a
unit hold its rows' tokens and mask (`IdsAreTheRows`, `MaskIsTheTokens`); and what comes out of
a forward of padded rows is, row by row, what the row alone gives (`RunIsAlone`).

And for the call: `ResultsAreTheirOwn` and `NoTextIsLost`. Their invariant is
`CallInv`: texts are truncated to the maximum (`TextsInv`), which is checked against the model's
positions or its largest bucket before there is a call (`LengthsInv`, so a bucket takes each text);
what has not run is forwards of this call, what has run and did not fail has
answered, and nothing else did (`UnitsInv`). With what was said of one forward and
of all of them, both properties follow when no forward is left.
`ForwardsStayInBudget` is `ScratchWithinBudget` under `BudgetsHoldARow`: a row of
`Positions` scores, and one band, fit both budgets. In the code they are 2 and 16 times 512 by 512
(`model.rs`), against 8192 positions and a band of 32 by 160.

`StdioProtocolProofs`: `SummaryIsTheInputs`, where `CountInv` relates the counts to the lines
taken: a record is in the count or in the chunk. `OutputIsATranscript` says of runs
of any length that stdout is a prefix of a text defined from the input. Neither the chunk nor the buffers
have a place in that text, so the invariant (`OutInv`) looks for a line `r` up to
which everything is produced: `Produced`, what is written, buffered or pending, is exactly the answer
to the first `r` lines; the open document is the one these lines leave open
(`DocIs`); and what the lines after `r` still need is the rest of the chunk, in order, and the
boundary that is due (`Ahead`). A record written moves `r` over the silent lines in
between (`SilentLines`). That the transcript only ever grows at its end
(`AnsweredBegins`) is what makes a failure's output a prefix as well. Where it may be cut is `LineInv`:
what the `BufWriter` is handed at once ends a line, and nothing is left in it when the process reads, computes
or gives up (`LinesAreWhole`).

`HttpApiProofs`, on where a model comes from: `ModelsAreAsFlagged` (`LoadedAsFlagged`). Its
invariant, `SourceInv`, is that hf_hub's cache holds files of commits that were published
(`CacheIsSound`); that the stages of a start count the models loaded (`StageIsSound`); that of what a load
has got so far the weights came first, and a bundle was listed at one commit whose every wanted file
is got or still to come, unless the history notes a loss (`FetchIsSound`); and that each conversion
kept is of one commit, as its key says, and of the lengths it was made for
(`ConversionsAreSound`). The last is why a later start, with another source of the same files,
may load it. A checkpoint's `config.json` is read beside its weights, a bundle's files beside
its `config.json`, hence one commit for both (`CheckpointIsOfACommit`, `BundleIsOfACommit`).

`WholeModelsLoadAgain` (`RepeatableOffline`) needs to know what a later start will find. A promised
model's files stay in the snapshot `refs/main` names, all that the plan of a checkpoint asks for and that commit
has, and either the plan is complete there or main has not moved (`FilesAreKept`); so a `get` of one
returns it, and a `get` of what is not there neither fails the load nor moves the ref (`GetKeepsFiles`). A load on
its way has got, of a promised repository, only files of that commit (`FetchKeepsPromises`), so that in the end it
has exactly the files of the promise (`GotIsKept`) and makes the same of them (`PromisedLoads`). A
conversion that was promised is evicted only by one of the same checkpoint at another commit, which
is what these rule out (`ConversionStays`). The attempt at this proof found what TLC then confirmed
on an instance made for it: a bundle fetched from the repository of a promised checkpoint moves
`refs/main` under it. `RepeatableOffline` claims nothing of such a checkpoint (section 8).

In the same module, on what a request gets: `EmbeddingsAnswerWhatIsAsked` and
`RankingAnswersWhatIsAsked`. A server that is up has one model or two, loaded as flagged
(`ServerIsUp`, from `ModelsAreAsFlagged`); the rest is about one step, `Handle`: the checks in
the code's order refuse exactly what is not `Taken`, cutting a vector that was cut before is cutting
once (`RowIsAsAsked`), and the order of the results exists and is the only one (`RankedIsAnOrder`, from
`SortExists`), so that its first `top_n` are the best (`BestAreRanked`). The assumptions are
`PublishedIsSound` to `LimitsAreSound` of the two modules: a commit has finitely many files; what clap and
serde let through is numbers where numbers are asked for; a model's flags are of one of two kinds.

`CoreMlConvertProofs`: `EveryLengthResolves`, of any directory, and `ConversionsAreServed`, after any
number of conversions. The latter needs that a conversion has read one checkpoint
(`ReadsOneCheckpoint`, from `ReplacedBetweenOnly`), that each file is in the directory when the
next is written (`WritesInOrder`, of interrupted conversions too), and that what is loaded is what
was there, Core ML having refused some set of compiled bundles (`LoadedIsThere`).

In the same module, on what a text is given: `VectorsAreLabelled` (`VectorsAreAsLabelled`). It has
two hypotheses: `ReplacedBetweenOnly`, and
`GraphsComputeTheModel`, that each function the emitter makes computes `ModernBert` when it is run on its own,
on every text that fits it. That is a fact about one graph at a time, in which there is
no directory, no history and no bucket to choose. No run lists it: it is a hypothesis, and
what TLC checks on the constants of coreml_convert is what follows from it there, that each answer is
`ModernBert`'s. What the theorem adds is everything between: a package in the directory holds
one emission whole, under its own label (`LabelInv`, `LabelsHold`), whatever was interrupted
around it; the loaded buckets are of one label; a row is run by a function that fits it; and
the strides of the output read each row where Core ML left it and never the padding between
(`PaddingIsReadOver`, for any padding).

`ProgramsAreSound` (`ProgramIsSound`), under `GraphsComputeTheModel` and `RequestsAreSound`: the requests made
of the `Builder` use only what was made before and give every name once. `BuildIsSound` shows that sharing
immediates keeps this: a request that is dropped stands for the first one of its key,
which comes before it and has its type and its values, so every use
still finds what it meant. `WritesDoNotOverlap`, for any sequence of blobs of any sizes: the
offsets of `blob.rs` are aligned, no blob runs into the next one's header, and the file's count is right;
`WrittenAreBlobs`: what the conversion writes is such a sequence. `RequestsAreSound` is a
hypothesis because names are made by joining strings, which the provers know nothing of: that
the names of two layers differ is not proved. No run lists it either: TLC checks `ProgramIsSound`, of the programs that
run on the run's constants.

`EncodersProofs`: `NoEncoderMakesNaN` (`NoNaN`), of the four encoders. Its invariant, `NumbersInv`, is that
once a forward is under way the texts are a batch's, every weight is there in its shape, and the
hidden states are one vector of numbers for each place of each text (`Numeric`). What is computed
from numbers is a number, with two exceptions, and they are what the proof is about.

One is the softmax. A masked score may be `NegInf` or `Floor`, and a row of `NegInf` alone is NaN
in candle. The block a query is computed in holds the query's own key (`OwnBlock`, for any plan, block size
and budget), the window leaves that one open (`OwnKeyIsOpen`), and the padding mask takes no score below
`Floor` (`PaddingIs`), nor does Metal's clamped one (`ScoreMaskIs`). So one score of the row is not
`NegInf`, and all the weights are numbers (`SoftmaxStays`). The bf16 kernel needs no such key: MAXPS turns
the NaN of the differences into `EXP_FLOOR` (`RowAvx512Stays`, of a row masked in any way).

The other is an element that is not there. `NarrowStays`, `HeadsFirst` and `PartsFirst` say that a
view reads inside what it is a view of, from its strides and offset; `PackXStays` and `PackWVnniStays` that packing
reads the matrix and pads the rest; `TileIsInside`, `RowReadInside` and `WeightReadInside` that the register tiles
of all panels read inside the packed operands, for any `MR`, `NB` and `NLANE` and any sizes;
`GegluStays`, `ProjectionStays`, `AttentionStays` and `MlpStays` put these together for a layer.

The assumptions are `DeploymentsAreSound` (heads of one even size, without which candle's reshape and rotary
embedding fail), `CheckpointsAreNumbers`, `TextsAreTokens` (the tokenizer adds its special tokens, so no text is
empty, and its ids have a row in the table), `BudgetsAreNumbers`, and those on tiles, panels and bands.
Overflow and division by zero are not in it: `Tensors` has no largest number, and only residues
(section 7).

`CollectionFacts` holds what these need about data. Where a fact wants induction it is had from
the least counterexample (`LeastNat`): that a sorting permutation exists (`SortExists`), and what
the community modules' `FlattenSeq` gives for one sequence more (`FlattenOneMore`).

Assumed are only the named assumptions on constants: the bounds are natural numbers, the
`No...` values are not members, `KindsAreTheTwo` and `ModelsAreTheTwo`, `CallersAreFinite`,
`ModelIsLoaded` (the model looked at is one of the models), `Pad` is no token, and, in the
theorems that say so, `OthersKeepOut`, `OthersLeaveStartsAlone`, `TakingTurns`,
`ReplacedBetweenOnly`, `BudgetsHoldARow`, `GraphsComputeTheModel` and `RequestsAreSound`.

Only model-checked: what is about fairness (`EveryAskReturns`, `StopEnds`, `DrainEnds`,
`EmbeddingNeverWaitsForReranker`, `BatchIsAnswered`), as liveness and `ENABLED` are beyond the
proof system; `IsTheModel` of `Encoders`, an equality of sums taken in different orders, which
would want induction over them; and `BucketLengthsDoNotShow`, which is contained in what the proofs
assume of the emitted graph. The two hypotheses on that graph, `GraphsComputeTheModel` and
`RequestsAreSound`, are neither proved nor run as such; their consequences are
checked on the constants of coreml_convert (`VectorsAreAsLabelled`, `BucketLengthsDoNotShow`, `ProgramIsSound`).

## 7. What the models assume and leave out

* tokio: `try_send` and the drop of the receiver are each one step. In the library a
  send may slip in while the receiver closes; the receiver's drop then drains it.
* hyper: as the header of `KohagiServe` says. A client that hangs up drops its
  handler's future at its next await.
* A signal that arrives before its handler is registered kills the process; a second
  signal is ignored. The end of the process ends the model threads: nothing of
  `ModelWorker` moves after `exited`.
* A panic while writing to stderr is modelled where it matters to others, in the
  model thread; a handler or the main task that panics so is not modelled.
* The lock file is nobody else's business: `UnixSocket` lets others touch the socket's
  path only. A listening socket's inode is not used again while it is open. A
  full backlog, in which the probe's `connect` would wait, is not modelled.
* `Drop` compares the inode and then unlinks by path. A replacement between the two is
  removed; no check in user space can prevent that, so `Meddling` excludes it and
  says so.
* stdio: a text is one token, and a piece is one write; what JSON looks like inside,
  and the one-shot modes (`--text`, `--pair`, `--print-model-info`), are left out.
* `BundleCache`: `remove_dir_all` is a listing, unlinks, and an `rmdir` that fails on a
  directory that is not empty; a rename fails if its target is one. CoreML reads
  a bundle in one step and takes whole bundles only. An entry and the bundle in it
  are one directory. The source goes from state to state and never back, and the size and time of
the weights tell two of them apart. `contents` of
  `provision.rs` covers every file of a package.
  In the passing run converters take turns, since a concurrent one removes the
  staging directory of another, which bundle_cache_hit shows; the staging
  directories of killed compilers are nobody's to remove.
* The same holds of a replacement between `bind` and the call that records the inode:
  `Drop` then removes somebody else's socket.
* `Embedder`: a checkpoint is replaced by a rename, and no version comes back; `stat`
  (length and time) tells versions apart. One rewritten in place while it is read,
  or swapped there and back between two looks, is not covered. The prefix given
  to `--expect-sha256` names one version. A text has at least one token, as its
  tokenizer adds some. The arithmetic is abstracted to what goes into it: two results
  of the same tokens attended to in the same way are the same. Padding scores lose
  against any token's, and the reduction is over the positions the mask keeps (mean), of
  which CLS takes the first.
* The bf16 encoder computes an unbanded layer whole: its forwards keep to the budget of
  `model.rs` up to 724 tokens, where one row exceeds it. `ScratchWithinBudget` is about
  the f32 encoder, which tiles.
* The TCP listener is one `bind` and has no state of its own.
* `Tensors`: a finite number is a residue modulo 61, and exp, erf, cos, 1/sqrt and every rounding
  are fixed functions of residues (the inverse of 0 is 0): two computations that agree in all runs agree as
  formulas over unknown functions, up to coincidence. Nothing is said of how large an error is.
  `f32::MIN` counts as minus infinity for the fused softmax and as `Floor` elsewhere; the
  -60 Metal's kernel clamps to is `Floor`.
* `encoders` runs bf16 on gelu checkpoints only, as encoders_silu shows why.
* `CoreMlConvert`: the checkpoint changes only between conversions. It is hashed by its path and
  then opened by it; replaced in between, the provenance names a file the weights are
  not from.
* `ModelSource`: a directory is a repository with one commit, and its files do not change.
  One program runs at a time; what two do at once to
  the conversions is `BundleCache`'s. The stdio programs are started with at
  least one record, so they load. A conversion is one step. `--expect-sha256` is
  `Embedder`'s. `promised` remembers one model, any one, of those loaded.
* `HttpApi`: a string is a sequence of words; JSON that does not fit the request's type is one
  value; scores are numbers and never NaN.

## 8. Where code and documents part, beyond the runs above

* `Reranker::load`, `bf16::Mlp` and `evict_superseded`: the runs embedder_head,
  encoders_silu and bundle_cache_hit.
* `PROTOCOL-http.md` and `counts.rs` say that `requests` counts everything that arrived; a
  handler dropped with its connection is in no counter. `CountsAddUp` calls it abandoned.
* `PROTOCOL.md` says of exit 3 "Detected before any input is read, so no output is produced"; the
  model is loaded when the first chunk is flushed, after a boundary may have been
  written, and `kohagi` also exits 3 for `--report-tokens --format openai`.
* README.md says that hashing is "collected at the end"; `ModelArgs::load` evaluates
  `info()`, which joins the hashing thread, whether a digest is expected or not.
* `PROTOCOL.md` says of JSONL (84-86) that "every line is written whole (one `write` per record), so a
  reader never sees a partial line", and of exit 1 (184) that "output may be truncated at a line boundary
  (never mid-line)". Records go through a `BufWriter` of 8 KiB and the newline is a write of its own
  (`stdio.rs:41-50`): a chunk that is larger leaves the process in pieces that end anywhere, a reader may see
  a partial line, and when a write then fails (a full disk) the output ends there.
* `autoconvert.rs:20` says that "a stale bundle cannot be mistaken for a fresh one". `revision` of a
  checkpoint in a directory is the size and time of `model.safetensors`: when `config.json`,
  `tokenizer.json` or `1_Pooling/config.json` is edited beside it, the bundle converted before is a hit, with the
  old files in it.
* `coreml-convert` says of `--out-dir` that an existing bundle is replaced. A compiled form left
  by an earlier run stays and is preferred, and a head and a pooling file stay that the new
  checkpoint has not got.
* `provenance` of `coreml.rs` reads the first bucket: "one conversion writes the same metadata into
  all of them". A directory may hold the bundles of two, `--sequence-lengths 3,6` and then `6`
  with other quantization, and then the longer texts' vectors are not what it says, nor does
  `warn_if_quantized` see it. Two bundles for one length of one kind (`seq-6` and `buckets-6`) are
  resolved by the order of the listing.
* `fetch_checkpoint` takes any failure to get `1_Pooling/config.json` for its absence
  (`source.rs`, `.ok()`): after a timeout the model pools by the mean, with a warning on stderr, and
  a bundle converted then keeps it, as its cache key does not include the pooling.
* After an interrupted download, or one that spans a new commit, the tokenizer or pooling
  file can be of another commit than the weights. An optional file that appears upstream moves
  `refs/main`; if only it can be fetched, the next start without the network fails. A
  `config.json` that landed in another snapshot than the weights costs one failed start.
* `--coreml-model-id` lists the repository at every start: a bundle that is cached does not start
  offline. It is listed at one commit and fetched at whatever main is then, and it moves `refs/main`
  for a checkpoint in the same repository too, which may then not load offline any more.
* `kohagi-serve` describes `--rerank-coreml-model-id` as "holding that same layout, downloaded and
  cached on first use"; `wanted` fetches no `head.safetensors`, so such a reranker
  always exits 3.
* When both models have one label, `/v1/models/<label>` is the embedder; the path is
  compared as sent, without percent-decoding.
* `--device coreml --precision bf16` is not refused, and is reported as bf16.
