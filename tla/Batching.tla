------------------------------- MODULE Batching -------------------------------
(***************************************************************************)
(* Which rows go through the model together, and whose result is whose:    *)
(* bucket of src/batch.rs, run_batches of src/model.rs and run_rows of     *)
(* src/coreml.rs. A text is its number of tokens, lens[i]; its tokens are  *)
(* <<i, 0>>, <<i, 1>> and so on, and Pad is a zero of ids and mask alike.  *)
(* ids is flat and row-major, as in the source, and counts from 0.         *)
(***************************************************************************)
EXTENDS AttentionPlan, Sequences, FiniteSetsExt

CONSTANTS Window,      \* half of the config's local_attention
          CpuBudget, GpuBudget,
          Bf16Rows,    \* max_rows_per_forward of the bf16 weights
          Buckets,     \* the lengths a CoreML bundle was converted for
          Pad

ASSUME WindowIsNat == Window \in Nat
ASSUME BudgetsArePositive == CpuBudget \in Nat \ {0} /\ GpuBudget \in Nat \ {0}
ASSUME Bf16RowsIsPositive == Bf16Rows \in Nat \ {0}
ASSUME BucketsArePositive == Buckets # {} /\ IsFiniteSet(Buckets) /\ Buckets \subseteq Nat \ {0}
ASSUME PadIsNoToken == Pad \notin Nat \X Nat

Backends == {"cpu-f32", "cpu-bf16", "cuda", "metal", "coreml"}

\* Which attention a backend runs, under which budget.
Path(backend) == CASE backend \in {"cpu-f32", "cuda"} -> "f32"
                   [] backend = "cpu-bf16" -> "bf16"
                   [] backend \in {"metal", "coreml"} -> "dense"

BudgetOf(backend) == IF backend \in {"cuda", "metal"} THEN GpuBudget ELSE CpuBudget

-----------------------------------------------------------------------------
(* bucket: sorted by length, the order of equals kept, in chunks.          *)

Before(lens, i, j) == lens[i] < lens[j] \/ (lens[i] = lens[j] /\ i < j)

Order(lens) == CHOOSE order \in [DOMAIN lens -> DOMAIN lens] :
                  \A p, q \in DOMAIN lens : p < q => Before(lens, order[p], order[q])

\* Mutant: only full chunks (chunks_exact).
FullChunks(s, size) == [c \in 1..Len(s) \div size |-> SubSeq(s, (c - 1) * size + 1, c * size)]

Chunks(s, size) == [c \in 1..(Len(s) + size - 1) \div size |->
                       SubSeq(s, (c - 1) * size + 1, AtMost(c * size, Len(s)))]

\* ids and mask: each row as long as seq, its tokens first, then zeros.
Padded(lens, orig, seq) ==
    [x \in 0..Len(orig) * seq - 1 |->
        LET i == orig[x \div seq + 1]
        IN IF x % seq < lens[i] THEN <<i, x % seq>> ELSE Pad]

Longest(lens, orig) == Max({lens[orig[r]] : r \in DOMAIN orig})

Bucket(lens, batch_size) ==
    LET batch(orig) == [rows |-> Len(orig), seq |-> Longest(lens, orig), orig |-> orig,
                        ids |-> Padded(lens, orig, Longest(lens, orig))]
        chunks == Chunks(Order(lens), AtLeast(batch_size, 1))
    IN [c \in DOMAIN chunks |-> batch(chunks[c])]

-----------------------------------------------------------------------------
(* The units of run_batches: as many rows of a batch as one forward takes. *)

Cap(batch, backend) ==
    LET rows == RowsPerForward(batch.seq, BudgetOf(backend))
    IN IF backend = "cpu-bf16" THEN AtMost(rows, Bf16Rows) ELSE rows

\* nr is the place of the batch among the batches.
Units(batches, backend) ==
    LET starts(batch) == {s \in 0..batch.rows - 1 : s % Cap(batch, backend) = 0}
        unit(b, s) == [nr |-> b, batch |-> batches[b], start |-> s,
                       rows |-> AtMost(Cap(batches[b], backend), batches[b].rows - s)]
    IN UNION {{unit(b, s) : s \in starts(batches[b])} : b \in DOMAIN batches}

\* run_rows: one row at a time, in the smallest bucket that takes it.
Fits(len) == {s \in Buckets : s >= len}

BucketFor(len) == Min(Fits(len))

RowUnits(lens) ==
    LET batch(i, seq) == [rows |-> 1, seq |-> seq, orig |-> <<i>>,
                          ids |-> Padded(lens, <<i>>, seq)]
    IN {[nr |-> i, batch |-> batch(i, BucketFor(lens[i])), start |-> 0, rows |-> 1]
        : i \in DOMAIN lens}

\* The order in which one device takes them.
NotAfter(u, v) == u.nr < v.nr \/ (u.nr = v.nr /\ u.start <= v.start)

First(units) == {u \in units : \A v \in units : NotAfter(u, v)}

-----------------------------------------------------------------------------
(* One forward, and reduce. A hidden state is what went into it: the token *)
(* itself, and those its query attends to in a global and a local layer.   *)

Forward(backend, ids, rows, seq) ==
    LET token(r, k) == ids[r * seq + k]
        n(r) == Cardinality({k \in 0..seq - 1 : token(r, k) # Pad})
        attended(r, window, q) ==
            {token(r, k) : k \in Attend(Path(backend), seq, window, BudgetOf(backend), n(r), q)}
    IN [x \in 0..rows * seq - 1 |->
          LET r == x \div seq
              q == x % seq
          IN <<token(r, q), attended(r, NoWindow, q), attended(r, Window, q)>>]

\* pool_row and what follows it: the positions the mask keeps.
Reduce(hidden, mask) == {hidden[q] : q \in {q \in DOMAIN mask : mask[q]}}

Slice(f, from, to) == [x \in 0..to - from - 1 |-> f[from + x]]

OrigOf(unit, row) == unit.batch.orig[unit.start + row + 1]

\* The rows of a unit, each with the place its result goes to.
Run(backend, unit) ==
    LET seq == unit.batch.seq
        ids == Slice(unit.batch.ids, unit.start * seq, (unit.start + unit.rows) * seq)
        hidden == Forward(backend, ids, unit.rows, seq)
        mask(row) == [q \in 0..seq - 1 |-> ids[row * seq + q] # Pad]
    IN {<<OrigOf(unit, row),
          Reduce(Slice(hidden, row * seq, (row + 1) * seq), mask(row))>> : row \in 0..unit.rows - 1}

\* What text i's result is made of when it goes through alone, unpadded.
Alone(i, len) ==
    LET near(q) == {k \in 0..len - 1 : q - k \in -Window..Window}
        tokens(ks) == {<<i, k>> : k \in ks}
    IN {<<<<i, q>>, tokens(0..len - 1), tokens(near(q))>> : q \in 0..len - 1}

=============================================================================
