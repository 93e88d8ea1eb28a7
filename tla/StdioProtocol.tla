--------------------------- MODULE StdioProtocol ---------------------------
(***************************************************************************)
(* kohagi and kohagi-rerank over stdin and stdout: drive and Lazy of       *)
(* src/protocol.rs, Writer and Embed of src/stdio.rs, Score of             *)
(* src/rerank/stdio.rs, with the caller at the other end of both pipes.    *)
(*                                                                         *)
(* A line is what parse makes of it, and a record is known by its line     *)
(* number. Output is a sequence of the pieces the code hands to its        *)
(* BufWriter, which passes them on when it is full or flushed; a pipe      *)
(* holds only so much, and whoever writes to a full one waits. Every text  *)
(* is one token long.                                                      *)
(***************************************************************************)
EXTENDS Naturals, FiniteSets, SequencesExt

CONSTANTS Formats,     \* what --format may be: "jsonl", "openai"
          CHUNK_ROWS,  \* records answered in one go
          BufferSize,  \* pieces a BufWriter holds
          PipeSize,    \* lines, or pieces, a pipe holds
          MaxLines     \* how many lines the caller sends

ASSUME SizesArePositive == {CHUNK_ROWS, BufferSize, PipeSize} \subseteq Nat \ {0}
ASSUME MaxLinesIsNat == MaxLines \in Nat
ASSUME FormatsAreTheTwo == Formats \subseteq {"jsonl", "openai"}

VARIABLES format,
          sent, eof,  \* the lines the caller wrote, and that it closed stdin
          taken,      \* how many of them drive has taken
          pc,         \* what the process does next, see Stages
          after,      \* what follows the flush in hand
          chunk,      \* records, by line number, not answered yet
          at,         \* how many records of the chunk are written
          model,      \* Lazy: "none" or "loaded"
          counts,     \* drive's counts
          doc,        \* Writer: open, written, prompt_tokens, batches
          pending,    \* pieces about to be handed to the BufWriter
          buffer,     \* pieces in it
          out,        \* pieces ever written to stdout
          heard,      \* how many of them the caller has read
          code        \* the exit code, 99 before there is one

caller == <<sent, eof, heard>>
vars == <<format, caller, taken, pc, after, chunk, at, model, counts, doc,
          pending, buffer, out, code>>

\* skipped stands for malformed JSON, no id, an empty or missing text; broken
\* for a line that is not UTF-8, which lines() fails on.
LineKinds == {"record", "blank", "skipped", "broken"}

\* flush: Records::flush is called. write: its loop. emit: pieces go to the
\* BufWriter, spill: the BufWriter is full and empties. flushed: it empties
\* because it is told to. drop: it empties because run() returned an error.
Stages == {"read", "flush", "write", "emit", "spill", "flushed", "drop", "exited"}

Init == /\ format \in Formats
        /\ sent = <<>> /\ eof = FALSE /\ heard = 0
        /\ taken = 0 /\ pc = "read" /\ after = "read"
        /\ chunk = <<>> /\ at = 0 /\ model = "none"
        /\ counts = [written |-> 0, skipped |-> 0]
        /\ doc = [open |-> FALSE, written |-> 0, tokens |-> 0, batches |-> 0]
        /\ pending = <<>> /\ buffer = <<>> /\ out = <<>>
        /\ code = 99

-----------------------------------------------------------------------------
(* The caller writes lines, closes its end, and reads.                     *)

Send == /\ ~eof /\ Len(sent) < MaxLines /\ Len(sent) - taken < PipeSize
        /\ \E kind \in LineKinds : sent' = Append(sent, kind)
        /\ UNCHANGED <<format, eof, heard, taken, pc, after, chunk, at, model,
                       counts, doc, pending, buffer, out, code>>

CloseStdin == /\ ~eof /\ eof' = TRUE
              /\ UNCHANGED <<format, sent, heard, taken, pc, after, chunk, at, model,
                             counts, doc, pending, buffer, out, code>>

Hear == /\ heard < Len(out) /\ heard' = heard + 1
        /\ UNCHANGED <<format, sent, eof, taken, pc, after, chunk, at, model,
                       counts, doc, pending, buffer, out, code>>

-----------------------------------------------------------------------------
(* drive.                                                                  *)

\* An error: run() returns it, and the BufWriter is dropped, which flushes it.
Fail(c) == pc' = "drop" /\ code' = c

ReadLine ==
    /\ pc = "read" /\ taken < Len(sent)
    /\ taken' = taken + 1
    /\ LET kind == sent[taken']
       IN /\ chunk' = IF kind = "record" THEN Append(chunk, taken') ELSE chunk
          /\ counts' = IF kind = "skipped" THEN [counts EXCEPT !.skipped = @ + 1] ELSE counts
          /\ after' = IF kind = "blank" THEN "boundary" ELSE "read"
          /\ IF kind = "broken"
             THEN Fail(1)
             ELSE /\ pc' = IF kind = "blank" \/ (kind = "record" /\ Len(chunk') >= CHUNK_ROWS)
                           THEN "flush" ELSE "read"
                  /\ UNCHANGED code
    /\ UNCHANGED <<format, caller, at, model, doc, pending, buffer, out>>

ReadEnd ==
    /\ pc = "read" /\ eof /\ taken = Len(sent)
    /\ pc' = "flush" /\ after' = "finish"
    /\ UNCHANGED <<format, caller, taken, chunk, at, model, counts, doc, pending, buffer, out, code>>

\* The model is loaded for the first record, which may fail (1, or 3 when the
\* CoreML backend cannot serve the request), and so may answering the chunk.
Answer ==
    /\ pc = "flush" /\ chunk # <<>>
    /\ \/ pc' = "write" /\ model' = "loaded" /\ UNCHANGED code
       \/ \E c \in {1, 3} : model = "none" /\ Fail(c) /\ UNCHANGED model
       \/ Fail(1) /\ model' = "loaded"
    /\ at' = 0
    /\ UNCHANGED <<format, caller, taken, after, chunk, counts, doc, pending, buffer, out>>

\* write_record, or Writer::record.
RecordPieces(n) ==
    IF format = "jsonl"
    THEN <<<<"answer", 0, n>>, <<"newline", 0, 0>>>>
    ELSE <<<<IF doc.open THEN "comma" ELSE "open", 0, 0>>, <<"item", doc.written, n>>>>

WriteRecord ==
    /\ pc = "write" /\ at < Len(chunk)
    /\ at' = at + 1
    /\ pending' = RecordPieces(chunk[at'])
    /\ doc' = [doc EXCEPT !.open = format = "openai", !.written = @ + 1, !.tokens = @ + 1]
    /\ pc' = "emit"
    /\ UNCHANGED <<format, caller, taken, after, chunk, model, counts, buffer, out, code>>

\* The chunk is written: flush_output, and then clear it and count it.
FlushOutput ==
    /\ pc = "write" /\ at = Len(chunk)
    /\ pc' = "flushed"
    /\ UNCHANGED <<format, caller, taken, after, chunk, at, model, counts, doc,
                   pending, buffer, out, code>>

-----------------------------------------------------------------------------
(* Writer::boundary, finish and close_document.                            *)

\* Mutant: the next batch's items are numbered on from this one's.
CloseDocumentKeepsIndex ==
    /\ pending' = (IF doc.open THEN <<>> ELSE <<<<"open", 0, 0>>>>) \o <<<<"close", doc.tokens, 0>>>>
    /\ doc' = [doc EXCEPT !.open = FALSE, !.tokens = 0, !.batches = @ + 1]

CloseDocument ==
    /\ pending' = (IF doc.open THEN <<>> ELSE <<<<"open", 0, 0>>>>) \o <<<<"close", doc.tokens, 0>>>>
    /\ doc' = [open |-> FALSE, written |-> 0, tokens |-> 0, batches |-> doc.batches + 1]

Boundary ==
    /\ pc = "flush" /\ chunk = <<>> /\ after = "boundary"
    /\ IF format = "jsonl"
       THEN pending' = <<<<"newline", 0, 0>>>> /\ UNCHANGED doc
       ELSE CloseDocument
    /\ pc' = "emit" /\ after' = "read"
    /\ UNCHANGED <<format, caller, taken, chunk, at, model, counts, buffer, out, code>>

Finish ==
    /\ pc = "flush" /\ chunk = <<>> /\ after = "finish"
    /\ IF format = "openai" /\ (doc.open \/ doc.batches = 0)
       THEN CloseDocument
       ELSE UNCHANGED <<doc, pending>>
    /\ pc' = "emit" /\ after' = "exit"
    /\ UNCHANGED <<format, caller, taken, chunk, at, model, counts, buffer, out, code>>

-----------------------------------------------------------------------------
(* The BufWriter and the pipe.                                             *)

Emit ==
    /\ pc = "emit" /\ pending # <<>>
    /\ IF Len(buffer) < BufferSize
       THEN /\ buffer' = Append(buffer, Head(pending))
            /\ pending' = Tail(pending)
            /\ UNCHANGED pc
       ELSE pc' = "spill" /\ UNCHANGED <<buffer, pending>>
    /\ UNCHANGED <<format, caller, taken, after, chunk, at, model, counts, doc, out, code>>

\* Mutant: boundary() leaves its newline in the BufWriter.
EmittedUnflushed ==
    /\ pc = "emit" /\ pending = <<>>
    /\ pc' = CASE chunk # <<>> -> "write"
               [] chunk = <<>> /\ after = "exit" -> "flushed"
               [] OTHER -> "read"
    /\ UNCHANGED <<format, caller, taken, after, chunk, at, model, counts, doc,
                   pending, buffer, out, code>>

\* Everything is in the buffer: the next record, or the flush that ends a
\* chunk, a boundary and the run.
Emitted ==
    /\ pc = "emit" /\ pending = <<>>
    /\ pc' = IF chunk # <<>> THEN "write" ELSE "flushed"
    /\ UNCHANGED <<format, caller, taken, after, chunk, at, model, counts, doc,
                   pending, buffer, out, code>>

WriteOut ==
    /\ pc \in {"spill", "flushed", "drop"} /\ buffer # <<>>
    /\ Len(out) - heard < PipeSize
    /\ out' = Append(out, Head(buffer))
    /\ buffer' = Tail(buffer)
    /\ UNCHANGED <<format, caller, taken, pc, after, chunk, at, model, counts, doc, pending, code>>

\* The caller closed stdout, or the disk is full: the error is fatal, and the
\* BufWriter's own flush, when it is dropped, fails as well.
WriteFails ==
    /\ pc \in {"spill", "flushed", "drop"} /\ buffer # <<>>
    /\ pc' = "exited" /\ code' = IF pc = "drop" THEN code ELSE 1
    /\ buffer' = <<>> /\ pending' = <<>>
    /\ UNCHANGED <<format, caller, taken, after, chunk, at, model, counts, doc, out>>

Spilled ==
    /\ pc = "spill" /\ buffer = <<>>
    /\ pc' = "emit"
    /\ UNCHANGED <<format, caller, taken, after, chunk, at, model, counts, doc,
                   pending, buffer, out, code>>

\* Mutant: take() keeps the last chunk's count.
FlushedCountsLast ==
    /\ pc = "flushed" /\ buffer = <<>>
    /\ chunk' = <<>>
    /\ counts' = IF chunk = <<>> THEN counts ELSE [counts EXCEPT !.written = Len(chunk)]
    /\ pc' = CASE chunk # <<>> /\ after # "read" -> "flush"
               [] after = "exit" -> "exited"
               [] OTHER -> "read"
    /\ code' = IF pc' # "exited" THEN code ELSE IF counts.skipped > 0 THEN 2 ELSE 0
    /\ UNCHANGED <<format, caller, taken, after, at, model, doc, pending, buffer, out>>

\* drive goes on with what comes after the flush.
Flushed ==
    /\ pc = "flushed" /\ buffer = <<>>
    /\ chunk' = <<>>
    /\ counts' = [counts EXCEPT !.written = @ + Len(chunk)]
    /\ pc' = CASE chunk # <<>> /\ after # "read" -> "flush"
               [] after = "exit" -> "exited"
               [] OTHER -> "read"
    /\ code' = IF pc' # "exited" THEN code ELSE IF counts.skipped > 0 THEN 2 ELSE 0
    /\ UNCHANGED <<format, caller, taken, after, at, model, doc, pending, buffer, out>>

Dropped ==
    /\ pc = "drop" /\ buffer = <<>>
    /\ pc' = "exited"
    /\ UNCHANGED <<format, caller, taken, after, chunk, at, model, counts, doc,
                   pending, buffer, out, code>>

-----------------------------------------------------------------------------

Process == \/ ReadLine \/ ReadEnd \/ Answer \/ WriteRecord \/ FlushOutput
           \/ Boundary \/ Finish \/ Emit \/ Emitted \/ WriteOut \/ WriteFails
           \/ Spilled \/ Flushed \/ Dropped

Next == Send \/ CloseStdin \/ Hear \/ Process

\* The process runs, and the caller reads stdout while it writes stdin.
Spec == Init /\ [][Next]_vars /\ WF_vars(Process) /\ WF_vars(Hear)

-----------------------------------------------------------------------------
(* Properties.                                                             *)

\* What PROTOCOL.md promises on stdout, computed from the input alone: line
\* i's answer, in input order; after each blank line its boundary; and for
\* OpenAI one document per batch, its items numbered from 0, its usage its own.
Earlier(lines, i) == {j \in 1..(i - 1) : /\ lines[j] = "record"
                                         /\ \A k \in j..(i - 1) : lines[k] # "blank"}

JsonlLine(lines, i) ==
    CASE lines[i] = "record" -> <<<<"answer", 0, i>>, <<"newline", 0, 0>>>>
      [] lines[i] = "blank" -> <<<<"newline", 0, 0>>>>
      [] OTHER -> <<>>

OpenAiLine(lines, i) ==
    LET index == Cardinality(Earlier(lines, i))
        opening == <<<<"open", 0, 0>>>>
    IN CASE lines[i] = "record" ->
              (IF index = 0 THEN opening ELSE <<<<"comma", 0, 0>>>>) \o <<<<"item", index, i>>>>
         [] lines[i] = "blank" ->
              (IF index = 0 THEN opening ELSE <<>>) \o <<<<"close", index, 0>>>>
         [] OTHER -> <<>>

Line(f, lines, i) == IF f = "jsonl" THEN JsonlLine(lines, i) ELSE OpenAiLine(lines, i)

\* What the first n lines are answered with.
Answered(f, lines, n) == FlattenSeq([i \in 1..n |-> Line(f, lines, i)])

\* The last document is closed when stdin is; it is empty only in a run of no
\* records and no blank line.
LastLine(f, lines) ==
    LET index == Cardinality(Earlier(lines, Len(lines) + 1))
    IN CASE f = "jsonl" -> <<>>
         [] f = "openai" /\ index > 0 -> <<<<"close", index, 0>>>>
         [] f = "openai" /\ index = 0 /\ (\A i \in 1..Len(lines) : lines[i] # "blank") ->
              <<<<"open", 0, 0>>, <<"close", 0, 0>>>>
         [] OTHER -> <<>>

Transcript ==
    Answered(format, sent, taken)
    \o (IF eof /\ taken = Len(sent) THEN LastLine(format, sent) ELSE <<>>)

EndsALine(pieces) == pieces = <<>> \/ pieces[Len(pieces)][1] = "newline"

\* While these go on, a line may be on its way through the BufWriter.
Writing == {"write", "emit", "spill", "flushed"}

\* Whatever the chunks, the buffer and the pipe do to the pieces, the output
\* is the transcript, cut off somewhere; and all of it when the run succeeded.
\* Where it is cut: PROTOCOL.md has "every line is written whole (one `write`
\* per record), so a reader never sees a partial line" and "Output may be
\* truncated at a line boundary (never mid-line)". Neither is so of a chunk that
\* is larger than the BufWriter: it empties in the middle of a line, which the
\* caller may read, and if the next write fails, the run ends there. What does
\* hold is that no other error cuts a line: when the process reads, computes or
\* gives up for another reason, the lines out are whole.
OutputIsTheTranscript ==
    /\ IsPrefix(out \o buffer \o pending, Transcript)
    /\ code \in {0, 2} => out = Transcript
    /\ format = "jsonl" /\ ~EndsALine(out) => pc \in Writing \/ (pc = "exited" /\ code = 1)

\* The summary's numbers are the input's: `in = out + skipped`, every record
\* line is out, and the exit code is 2 exactly when lines were skipped.
Lines(kind) == Cardinality({i \in 1..Len(sent) : sent[i] = kind})

SummaryIsTrue ==
    code \in {0, 2} => /\ counts = [written |-> Lines("record"), skipped |-> Lines("skipped")]
                       /\ code = 2 <=> Lines("skipped") > 0

\* A caller that sends a batch and a blank line, and reads, hears the end of
\* the batch, while it keeps stdin open and sends nothing more: the reply
\* never waits for the next line.
Heard(k) == heard >= Len(Answered(format, sent, k))

BatchIsAnswered ==
    \A k \in 1..MaxLines :
        k =< Len(sent) /\ sent[k] = "blank" ~> pc = "exited" \/ (k =< taken /\ Heard(k))

=============================================================================
