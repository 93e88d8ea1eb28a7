------------------------- MODULE StdioProtocolProofs -------------------------
(***************************************************************************)
(* For input of any length, chunks, buffers and pipes of any size: what    *)
(* the process has written is the transcript of what it has read, cut off  *)
(* somewhere, and all of it when the run succeeds; and the numbers of the  *)
(* summary are the input's.                                                *)
(***************************************************************************)
EXTENDS StdioProtocol, CollectionFacts, SequenceTheorems

PieceKinds == {"answer", "newline", "comma", "open", "item", "close"}
Piece == PieceKinds \X Nat \X Nat

TypeInv ==
    /\ format \in {"jsonl", "openai"}
    /\ sent \in Seq(LineKinds) /\ eof \in BOOLEAN /\ taken \in 0..Len(sent)
    /\ pc \in Stages /\ after \in {"read", "boundary", "finish", "exit"}
    /\ chunk \in Seq(Nat) /\ at \in Nat
    /\ counts \in [written : Nat, skipped : Nat]
    /\ doc \in [open : BOOLEAN, written : Nat, tokens : Nat, batches : Nat]
    /\ pending \in Seq(Piece) /\ buffer \in Seq(Piece) /\ out \in Seq(Piece)
    /\ code \in {0, 1, 2, 3, 99}

\* How the stages follow each other. What comes after a flush is known until
\* it is done; at is what is written of the chunk from the answer to the flush.
StageInv ==
    /\ pc = "read" => after = "read"
    /\ after \in {"finish", "exit"} => eof /\ taken = Len(sent)
    /\ after = "exit" => pc \in {"emit", "spill", "flushed", "exited"} /\ chunk = <<>>
    /\ after \in {"boundary", "finish"} /\ pc \in {"emit", "spill", "flushed"} => chunk # <<>>
    /\ pc = "write" => chunk # <<>>
    /\ pc \in {"write", "emit", "spill"} /\ chunk # <<>> => at <= Len(chunk)
    /\ pc = "flushed" /\ chunk # <<>> => at = Len(chunk)
    /\ pc \notin {"emit", "spill"} => pending = <<>>
    /\ pc = "exited" => buffer = <<>>
    /\ code \in {0, 2} => pc = "exited" /\ after = "exit"

\* Pieces of output, one or two of them.
LEMMA PiecesAreASequence ==
    /\ \A a \in Piece : <<a>> \in Seq(Piece)
    /\ \A a, b \in Piece : <<a, b>> \in Seq(Piece)
    /\ \A x \in PieceKinds, m, n \in Nat : <<x, m, n>> \in Piece
    /\ <<>> \in Seq(Piece)
    /\ \A s, t \in Seq(Piece) : s \o t \in Seq(Piece)
<1>1. \A x \in PieceKinds, m, n \in Nat : <<x, m, n>> \in Piece
  BY DEF Piece
<1> QED
  BY <1>1

\* What is handed to the BufWriter is pieces.
LEMMA RecordPiecesType ==
    ASSUME TypeInv, NEW n \in Nat
    PROVE  RecordPieces(n) \in Seq(Piece)
<1>1. doc.written \in Nat
  BY DEF TypeInv
<1>2. /\ <<"answer", 0, n>> \in Piece /\ <<"newline", 0, 0>> \in Piece
      /\ <<IF doc.open THEN "comma" ELSE "open", 0, 0>> \in Piece /\ <<"item", doc.written, n>> \in Piece
  BY <1>1, PiecesAreASequence DEF PieceKinds
<1> QED
  BY <1>2, PiecesAreASequence DEF RecordPieces

LEMMA CloseDocumentType ==
    ASSUME TypeInv, CloseDocument
    PROVE  /\ pending' \in Seq(Piece)
           /\ doc' \in [open : BOOLEAN, written : Nat, tokens : Nat, batches : Nat]
<1>1. doc.tokens \in Nat /\ doc.batches + 1 \in Nat
  BY DEF TypeInv
<1>2. <<"open", 0, 0>> \in Piece /\ <<"close", doc.tokens, 0>> \in Piece
  BY <1>1, PiecesAreASequence DEF PieceKinds
<1>3. pending' \in Seq(Piece)
  <2>1. (IF doc.open THEN <<>> ELSE <<<<"open", 0, 0>>>>) \in Seq(Piece) /\ <<<<"close", doc.tokens, 0>>>> \in Seq(Piece)
    BY <1>2, PiecesAreASequence
  <2> QED
    BY <2>1, PiecesAreASequence DEF CloseDocument
<1> QED
  BY <1>1, <1>3 DEF CloseDocument

LEMMA TypeInvInit == Init => TypeInv
<1> SUFFICES ASSUME Init PROVE TypeInv
  OBVIOUS
<1>1. format \in {"jsonl", "openai"} /\ sent = <<>> /\ taken = 0 /\ Len(sent) = 0
  BY FormatsAreTheTwo DEF Init
<1>2. /\ sent \in Seq(LineKinds) /\ chunk \in Seq(Nat)
      /\ pending \in Seq(Piece) /\ buffer \in Seq(Piece) /\ out \in Seq(Piece)
  BY DEF Init
<1>3. /\ counts \in [written : Nat, skipped : Nat]
      /\ doc \in [open : BOOLEAN, written : Nat, tokens : Nat, batches : Nat]
  BY DEF Init
<1>4. taken \in 0..Len(sent) /\ at \in Nat
  BY <1>1 DEF Init
<1>5. pc \in Stages /\ after = "read" /\ code = 99 /\ eof \in BOOLEAN
  BY DEF Init, Stages
<1> QED
  BY <1>1, <1>2, <1>3, <1>4, <1>5 DEF TypeInv

LEMMA TypeInvStep == TypeInv /\ [Next]_vars => TypeInv'
<1> SUFFICES ASSUME TypeInv, [Next]_vars PROVE TypeInv'
  OBVIOUS
<1> USE DEF TypeInv, Stages, caller
<1>1. CASE Send
  <2>1. PICK kind \in LineKinds : sent' = Append(sent, kind)
    BY <1>1 DEF Send
  <2>2. sent' \in Seq(LineKinds) /\ Len(sent') = Len(sent) + 1
    BY <2>1
  <2> QED
    BY <1>1, <2>2 DEF Send
<1>2. CASE CloseStdin
  BY <1>2 DEF CloseStdin
<1>3. CASE Hear
  BY <1>3 DEF Hear
<1>4. CASE ReadLine
  <2>1. taken' \in 0..Len(sent) /\ taken' \in Nat
    BY <1>4 DEF ReadLine
  <2>2. chunk' \in Seq(Nat)
    BY <1>4, <2>1 DEF ReadLine
  <2>3. counts' \in [written : Nat, skipped : Nat]
    <3>1. counts' = counts \/ counts' = [counts EXCEPT !.skipped = @ + 1]
      BY <1>4 DEF ReadLine
    <3>2. counts \in [written : Nat, skipped : Nat]
      OBVIOUS
    <3> HIDE DEF TypeInv
    <3> QED
      BY <3>1, <3>2
  <2>4. pc' \in Stages /\ code' \in {0, 1, 2, 3, 99} /\ after' \in {"read", "boundary"}
    BY <1>4 DEF ReadLine, Fail
  <2> QED
    BY <1>4, <2>1, <2>2, <2>3, <2>4 DEF ReadLine
<1>5. CASE ReadEnd
  BY <1>5 DEF ReadEnd
<1>6. CASE Answer
  BY <1>6 DEF Answer, Fail
<1>7. CASE WriteRecord
  <2>1. at' \in Nat /\ chunk[at'] \in Nat
    <3>1. at' \in 1..Len(chunk)
      BY <1>7 DEF WriteRecord
    <3> QED
      BY <3>1
  <2>2. pending' \in Seq(Piece)
    BY <1>7, <2>1, RecordPiecesType DEF WriteRecord
  <2>3. doc' \in [open : BOOLEAN, written : Nat, tokens : Nat, batches : Nat]
    <3>1. doc' = [doc EXCEPT !.open = format = "openai", !.written = @ + 1, !.tokens = @ + 1]
      BY <1>7 DEF WriteRecord
    <3>2. (format = "openai") \in BOOLEAN
      OBVIOUS
    <3>3. doc \in [open : BOOLEAN, written : Nat, tokens : Nat, batches : Nat]
      OBVIOUS
    <3> HIDE DEF TypeInv
    <3>4. doc.written + 1 \in Nat /\ doc.tokens + 1 \in Nat /\ doc.batches \in Nat
      BY <3>3
    <3>5. doc' = [open |-> format = "openai", written |-> doc.written + 1, tokens |-> doc.tokens + 1,
                  batches |-> doc.batches]
      BY <3>1, <3>3
    <3> QED
      BY <3>2, <3>4, <3>5, Zenon
  <2> QED
    BY <1>7, <2>1, <2>2, <2>3 DEF WriteRecord
<1>8. CASE FlushOutput
  BY <1>8 DEF FlushOutput
<1>9. CASE Boundary
  <2>1. /\ pending' \in Seq(Piece)
        /\ doc' \in [open : BOOLEAN, written : Nat, tokens : Nat, batches : Nat]
    <3>1. CASE format = "jsonl"
      <4>1. <<"newline", 0, 0>> \in Piece
        BY PiecesAreASequence DEF PieceKinds
      <4>2. pending' = <<<<"newline", 0, 0>>>> /\ doc' = doc
        BY <1>9, <3>1 DEF Boundary
      <4>3. pending' \in Seq(Piece)
        BY <4>1, <4>2, PiecesAreASequence
      <4> QED
        BY <4>2, <4>3
    <3>2. CASE format # "jsonl"
      BY <1>9, <3>2, CloseDocumentType DEF Boundary
    <3> QED
      BY <3>1, <3>2
  <2> QED
    BY <1>9, <2>1 DEF Boundary
<1>10. CASE Finish
  <2>1. /\ pending' \in Seq(Piece)
        /\ doc' \in [open : BOOLEAN, written : Nat, tokens : Nat, batches : Nat]
    <3>1. CASE CloseDocument
      BY <3>1, CloseDocumentType
    <3>2. CASE UNCHANGED <<doc, pending>>
      BY <3>2
    <3> QED
      BY <1>10, <3>1, <3>2 DEF Finish
  <2> QED
    BY <1>10, <2>1 DEF Finish
<1>11. CASE Emit
  <2>1. pending # <<>>
    BY <1>11 DEF Emit
  <2>2. Head(pending) \in Piece /\ Tail(pending) \in Seq(Piece)
    BY <2>1
  <2>3. Append(buffer, Head(pending)) \in Seq(Piece)
    BY <2>2
  <2> QED
    BY <1>11, <2>2, <2>3 DEF Emit
<1>12. CASE Emitted
  BY <1>12 DEF Emitted
<1>13. CASE WriteOut
  <2>1. buffer # <<>>
    BY <1>13 DEF WriteOut
  <2>2. Head(buffer) \in Piece /\ Tail(buffer) \in Seq(Piece)
    BY <2>1
  <2>3. Append(out, Head(buffer)) \in Seq(Piece)
    BY <2>2
  <2> QED
    BY <1>13, <2>2, <2>3 DEF WriteOut
<1>14. CASE WriteFails
  BY <1>14 DEF WriteFails
<1>15. CASE Spilled
  BY <1>15 DEF Spilled
<1>16. CASE Flushed
  <2>1. counts' \in [written : Nat, skipped : Nat]
    <3>1. counts' = [counts EXCEPT !.written = @ + Len(chunk)]
      BY <1>16 DEF Flushed
    <3>2. counts \in [written : Nat, skipped : Nat] /\ Len(chunk) \in Nat
      OBVIOUS
    <3> HIDE DEF TypeInv
    <3> QED
      BY <3>1, <3>2
  <2>2. pc' \in Stages /\ code' \in {0, 1, 2, 3, 99} /\ chunk' \in Seq(Nat)
    BY <1>16 DEF Flushed
  <2> QED
    BY <1>16, <2>1, <2>2 DEF Flushed
<1>17. CASE Dropped
  BY <1>17 DEF Dropped
<1>18. CASE UNCHANGED vars
  BY <1>18 DEF vars
<1> QED
  BY <1>1, <1>2, <1>3, <1>4, <1>5, <1>6, <1>7, <1>8, <1>9, <1>10, <1>11, <1>12, <1>13, <1>14, <1>15,
     <1>16, <1>17, <1>18 DEF Next, Process

LEMMA StageInvInit == Init => StageInv
BY DEF Init, StageInv

LEMMA StageInvStep == TypeInv /\ StageInv /\ [Next]_vars => StageInv'
<1> SUFFICES ASSUME TypeInv, StageInv, [Next]_vars PROVE StageInv'
  OBVIOUS
<1>1. CASE Send \/ CloseStdin \/ Hear
  BY <1>1 DEF Send, CloseStdin, Hear, StageInv
<1>2. CASE ReadLine
  <2>1. taken < Len(sent) /\ pc = "read" /\ after = "read" /\ pending' = pending
    BY <1>2 DEF ReadLine, StageInv
  <2>2. after' \in {"read", "boundary"} /\ pc' \in {"read", "flush", "drop"}
    BY <1>2 DEF ReadLine, Fail
  <2>3. pc' = "read" => after' = "read"
    BY <1>2 DEF ReadLine, Fail
  <2>4. code' \in {1, code}
    BY <1>2 DEF ReadLine, Fail
  <2> QED
    BY <2>1, <2>2, <2>3, <2>4 DEF StageInv
<1>3. CASE ReadEnd
  BY <1>3 DEF ReadEnd, StageInv, caller
<1>4. CASE Answer
  <2>1. at' = 0 /\ 0 <= Len(chunk)
    BY <1>4 DEF Answer, TypeInv
  <2> QED
    BY <1>4, <2>1 DEF Answer, Fail, StageInv, caller
<1>5. CASE WriteRecord
  <2>1. at' <= Len(chunk)
    BY <1>5 DEF WriteRecord, TypeInv
  <2> QED
    BY <1>5, <2>1 DEF WriteRecord, StageInv, caller
<1>6. CASE FlushOutput
  BY <1>6 DEF FlushOutput, StageInv, caller
<1>7. CASE Boundary
  BY <1>7 DEF Boundary, StageInv, caller
<1>8. CASE Finish
  BY <1>8 DEF Finish, StageInv, caller
<1>9. CASE Emit
  BY <1>9 DEF Emit, StageInv, caller
<1>10. CASE Emitted
  BY <1>10 DEF Emitted, StageInv, caller
<1>11. CASE WriteOut
  BY <1>11 DEF WriteOut, StageInv, caller
<1>12. CASE WriteFails
  BY <1>12 DEF WriteFails, StageInv, caller
<1>13. CASE Spilled
  BY <1>13 DEF Spilled, StageInv, caller
<1>14. CASE Flushed
  BY <1>14 DEF Flushed, StageInv, TypeInv, caller
<1>15. CASE Dropped
  BY <1>15 DEF Dropped, StageInv, caller
<1>16. CASE UNCHANGED vars
  BY <1>16 DEF vars, StageInv, caller
<1> QED
  BY <1>1, <1>2, <1>3, <1>4, <1>5, <1>6, <1>7, <1>8, <1>9, <1>10, <1>11, <1>12, <1>13, <1>14, <1>15,
     <1>16 DEF Next, Process

-----------------------------------------------------------------------------
(* The summary.                                                            *)

\* How many of the first n lines are of a kind.
Among(kind, n) == Cardinality({i \in 1..n : sent[i] = kind})

\* Every line taken is counted, a record once its chunk is flushed; and the
\* run ends when there are none left.
CountInv ==
    /\ counts.skipped = Among("skipped", taken)
    /\ counts.written + Len(chunk) = Among("record", taken)
    /\ code \in {0, 2} => (code = 2 <=> counts.skipped > 0)

LEMMA AmongNext ==
    ASSUME NEW kind, NEW n \in Nat
    PROVE  /\ Among(kind, 0) = 0 /\ Among(kind, n) \in Nat
           /\ sent[n + 1] = kind => Among(kind, n + 1) = Among(kind, n) + 1
           /\ sent[n + 1] # kind => Among(kind, n + 1) = Among(kind, n)
<1> DEFINE T(m) == {i \in 1..m : sent[i] = kind}
<1>1. IsFiniteSet(1..n) /\ T(n) \subseteq 1..n
  BY FS_Interval
<1>2. IsFiniteSet(T(n)) /\ Cardinality(T(n)) \in Nat
  BY <1>1, FS_Subset, FS_CardinalityType
<1>3. T(0) = {} /\ n + 1 \notin T(n)
  OBVIOUS
<1>4. sent[n + 1] = kind => T(n + 1) = T(n) \union {n + 1}
  OBVIOUS
<1>5. sent[n + 1] # kind => T(n + 1) = T(n)
  OBVIOUS
<1> HIDE DEF T
<1>6. Cardinality(T(n) \union {n + 1}) = Cardinality(T(n)) + 1
  BY <1>2, <1>3, FS_AddElement
<1>7. Cardinality(T(0)) = 0
  BY <1>3, FS_EmptySet
<1>8. \A m \in Nat : Among(kind, m) = Cardinality(T(m))
  BY DEF Among, T
<1>9. 0 \in Nat /\ n + 1 \in Nat
  OBVIOUS
<1> QED
  BY <1>2, <1>4, <1>5, <1>6, <1>7, <1>8, <1>9

\* A line more leaves the earlier ones what they were.
LEMMA SendKeepsLines ==
    ASSUME TypeInv, Send
    PROVE  /\ Len(sent') = Len(sent) + 1 /\ taken' = taken
           /\ \A i \in 1..Len(sent) : sent'[i] = sent[i]
<1>1. PICK kind : sent' = Append(sent, kind)
  BY DEF Send
<1> QED
  BY <1>1 DEF TypeInv, Send

LEMMA CountInvInit == Init => CountInv
<1> SUFFICES ASSUME Init PROVE CountInv
  OBVIOUS
<1>1. Among("skipped", taken) = 0 /\ Among("record", taken) = 0
  BY AmongNext DEF Init
<1> QED
  BY <1>1 DEF Init, CountInv

LEMMA CountInvStep == TypeInv /\ StageInv /\ CountInv /\ [Next]_vars => CountInv'
<1> SUFFICES ASSUME TypeInv, StageInv, CountInv, [Next]_vars PROVE CountInv'
  OBVIOUS
<1>1. CASE Send
  <2>1. \A kind \in LineKinds : Among(kind, taken)' = Among(kind, taken)
    <3> SUFFICES ASSUME NEW kind \in LineKinds PROVE Among(kind, taken)' = Among(kind, taken)
      OBVIOUS
    <3>1. taken' = taken /\ \A i \in 1..taken : sent'[i] = sent[i]
      <4>1. taken' = taken /\ \A i \in 1..Len(sent) : sent'[i] = sent[i]
        BY <1>1, SendKeepsLines
      <4>2. taken \in Nat /\ Len(sent) \in Nat /\ taken <= Len(sent)
        BY DEF TypeInv
      <4> QED
        BY <4>1, <4>2
    <3>2. {i \in 1..taken' : sent'[i] = kind} = {i \in 1..taken : sent[i] = kind}
      BY <3>1
    <3> QED
      BY <3>2 DEF Among
  <2>2. UNCHANGED <<counts, chunk, code>>
    BY <1>1 DEF Send
  <2>3. Among("skipped", taken)' = Among("skipped", taken) /\ Among("record", taken)' = Among("record", taken)
    BY <2>1 DEF LineKinds
  <2> QED
    BY <2>2, <2>3 DEF CountInv
<1>2. CASE ReadLine
  <2>1. PICK n \in Nat : n = taken /\ taken' = n + 1 /\ sent' = sent
    BY <1>2 DEF ReadLine, TypeInv, caller
  <2>2. /\ sent[n + 1] = "record" => chunk' = Append(chunk, n + 1) /\ counts' = counts
        /\ sent[n + 1] = "skipped" => chunk' = chunk /\ counts' = [counts EXCEPT !.skipped = @ + 1]
        /\ sent[n + 1] \notin {"record", "skipped"} => chunk' = chunk /\ counts' = counts
    BY <1>2, <2>1 DEF ReadLine
  <2>3. \A kind \in LineKinds : /\ Among(kind, taken)' = Among(kind, n + 1)
                               /\ Among(kind, taken) = Among(kind, n)
    BY <2>1 DEF Among
  <2>4. /\ counts \in [written : Nat, skipped : Nat]
        /\ Len(Append(chunk, n + 1)) = Len(chunk) + 1 /\ Len(chunk) \in Nat
    BY DEF TypeInv
  <2>5. code' = code \/ code' = 1
    BY <1>2 DEF ReadLine, Fail
  <2>6. code \notin {0, 2}
    BY <1>2 DEF ReadLine, StageInv
  <2>7. counts.skipped = Among("skipped", n) /\ counts.written + Len(chunk) = Among("record", n)
    BY <2>3 DEF CountInv, LineKinds
  <2>8. counts'.skipped = Among("skipped", n + 1) /\ counts'.written + Len(chunk') = Among("record", n + 1)
    <3>1. CASE sent[n + 1] = "record"
      BY <2>2, <2>4, <2>7, <3>1, AmongNext
    <3>2. CASE sent[n + 1] = "skipped"
      <4>1. counts'.skipped = counts.skipped + 1 /\ counts'.written = counts.written /\ chunk' = chunk
        BY <2>2, <2>4, <3>2
      <4> QED
        BY <2>7, <3>2, <4>1, AmongNext
    <3>3. CASE sent[n + 1] \notin {"record", "skipped"}
      BY <2>2, <2>7, <3>3, AmongNext
    <3> QED
      BY <3>1, <3>2, <3>3
  <2> QED
    BY <2>3, <2>5, <2>6, <2>8 DEF CountInv, LineKinds
<1>3. CASE Flushed
  <2>1. PICK k \in Nat : k = Len(chunk)
    BY DEF TypeInv
  <2>2. counts'.skipped = counts.skipped /\ counts'.written = counts.written + k /\ Len(chunk') = 0
    BY <1>3, <2>1 DEF Flushed, TypeInv
  <2>3. UNCHANGED <<taken, sent>>
    BY <1>3 DEF Flushed, caller
  <2>4. counts'.written + Len(chunk') = counts.written + Len(chunk)
    BY <2>1, <2>2 DEF TypeInv
  <2>5. code' \in {0, 2} => (code' = 2 <=> counts'.skipped > 0)
    BY <1>3, <2>2 DEF Flushed, CountInv
  <2> QED
    BY <2>2, <2>3, <2>4, <2>5 DEF CountInv, Among
<1>4. CASE UNCHANGED <<sent, taken, chunk, counts>> /\ code' \in {code, 1, 3}
  BY <1>4 DEF CountInv, Among
<1>5. ReadEnd \/ Answer \/ WriteRecord \/ FlushOutput \/ Boundary \/ Finish \/ Emit \/ Emitted
      \/ WriteOut \/ WriteFails \/ Spilled \/ Dropped \/ CloseStdin \/ Hear \/ UNCHANGED vars
      => UNCHANGED <<sent, taken, chunk, counts>> /\ code' \in {code, 1, 3}
  BY DEF ReadEnd, Answer, Fail, WriteRecord, FlushOutput, Boundary, Finish, Emit, Emitted, WriteOut,
         WriteFails, Spilled, Dropped, CloseStdin, Hear, vars, caller
<1> QED
  BY <1>1, <1>2, <1>3, <1>4, <1>5 DEF Next, Process

\* The summary's `in = out + skipped` and the exit code are the input's.
THEOREM SummaryIsTheInputs == Spec => []SummaryIsTrue
<1>1. TypeInv /\ StageInv /\ CountInv => SummaryIsTrue
  <2> SUFFICES ASSUME TypeInv, StageInv, CountInv, code \in {0, 2}
               PROVE  /\ counts = [written |-> Lines("record"), skipped |-> Lines("skipped")]
                      /\ code = 2 <=> Lines("skipped") > 0
    BY DEF SummaryIsTrue
  <2>1. taken = Len(sent) /\ chunk = <<>>
    BY DEF StageInv
  <2>2. Lines("record") = Among("record", taken) /\ Lines("skipped") = Among("skipped", taken)
    BY <2>1 DEF Lines, Among
  <2>3. counts.written = Lines("record") /\ counts.skipped = Lines("skipped")
    BY <2>1, <2>2 DEF CountInv, TypeInv
  <2>4. counts = [written |-> counts.written, skipped |-> counts.skipped]
    BY DEF TypeInv
  <2> QED
    BY <2>3, <2>4 DEF CountInv
<1>2. Init => TypeInv /\ StageInv /\ CountInv
  BY TypeInvInit, StageInvInit, CountInvInit
<1>3. TypeInv /\ StageInv /\ CountInv /\ [Next]_vars => (TypeInv /\ StageInv /\ CountInv)'
  BY TypeInvStep, StageInvStep, CountInvStep
<1> QED
  BY <1>1, <1>2, <1>3, PTL DEF Spec

-----------------------------------------------------------------------------
(* The transcript.                                                         *)

Begins(s, t) == \E rest \in Seq(Piece) : t = s \o rest

\* What a line leaves of the batch in hand.
LEMMA EarlierNext ==
    ASSUME NEW lines, NEW n \in Nat \ {0}
    PROVE  /\ IsFiniteSet(Earlier(lines, n)) /\ Cardinality(Earlier(lines, n)) \in Nat
           /\ lines[n] = "record" =>
                 Cardinality(Earlier(lines, n + 1)) = Cardinality(Earlier(lines, n)) + 1
           /\ lines[n] = "blank" => Cardinality(Earlier(lines, n + 1)) = 0
           /\ lines[n] \notin {"record", "blank"} => Earlier(lines, n + 1) = Earlier(lines, n)
<1>1. IsFiniteSet(Earlier(lines, n)) /\ Cardinality(Earlier(lines, n)) \in Nat
  <2>1. IsFiniteSet(1..n - 1) /\ Earlier(lines, n) \subseteq 1..n - 1
    BY FS_Interval DEF Earlier
  <2> QED
    BY <2>1, FS_Subset, FS_CardinalityType
<1>2. lines[n] = "record" => Earlier(lines, n + 1) = Earlier(lines, n) \union {n} /\ n \notin Earlier(lines, n)
  BY DEF Earlier
<1>3. lines[n] = "blank" => Earlier(lines, n + 1) = {}
  BY DEF Earlier
<1>4. lines[n] \notin {"record", "blank"} => Earlier(lines, n + 1) = Earlier(lines, n)
  BY DEF Earlier
<1>5. lines[n] = "record" => Cardinality(Earlier(lines, n + 1)) = Cardinality(Earlier(lines, n)) + 1
  BY <1>1, <1>2, FS_AddElement
<1>6. lines[n] = "blank" => Cardinality(Earlier(lines, n + 1)) = 0
  BY <1>3, FS_EmptySet
<1> QED
  BY <1>1, <1>4, <1>5, <1>6

LEMMA LineType ==
    ASSUME NEW f, NEW lines, NEW i \in Nat \ {0}
    PROVE  /\ Line(f, lines, i) \in Seq(Piece)
           /\ lines[i] \notin {"record", "blank"} => Line(f, lines, i) = <<>>
<1> DEFINE index == Cardinality(Earlier(lines, i))
<1>1. index \in Nat
  BY EarlierNext
<1> HIDE DEF index
<1>2. /\ <<"answer", 0, i>> \in Piece /\ <<"newline", 0, 0>> \in Piece /\ <<"open", 0, 0>> \in Piece
      /\ <<"comma", 0, 0>> \in Piece /\ <<"item", index, i>> \in Piece /\ <<"close", index, 0>> \in Piece
  BY <1>1, PiecesAreASequence DEF PieceKinds
<1>3. JsonlLine(lines, i) \in Seq(Piece)
  BY <1>2, PiecesAreASequence DEF JsonlLine
<1>4. OpenAiLine(lines, i) \in Seq(Piece)
  <2>1. /\ (IF index = 0 THEN <<<<"open", 0, 0>>>> ELSE <<<<"comma", 0, 0>>>>) \in Seq(Piece)
        /\ (IF index = 0 THEN <<<<"open", 0, 0>>>> ELSE <<>>) \in Seq(Piece)
        /\ <<<<"item", index, i>>>> \in Seq(Piece) /\ <<<<"close", index, 0>>>> \in Seq(Piece)
    BY <1>2, PiecesAreASequence
  <2>2. /\ (IF index = 0 THEN <<<<"open", 0, 0>>>> ELSE <<<<"comma", 0, 0>>>>) \o <<<<"item", index, i>>>> \in Seq(Piece)
        /\ (IF index = 0 THEN <<<<"open", 0, 0>>>> ELSE <<>>) \o <<<<"close", index, 0>>>> \in Seq(Piece)
    BY <2>1, PiecesAreASequence
  <2>3. CASE lines[i] = "record"
    BY <2>2, <2>3 DEF OpenAiLine, index
  <2>4. CASE lines[i] = "blank"
    BY <2>2, <2>4 DEF OpenAiLine, index
  <2>5. CASE lines[i] \notin {"record", "blank"}
    BY <2>5, PiecesAreASequence DEF OpenAiLine
  <2> QED
    BY <2>3, <2>4, <2>5
<1>5. lines[i] \notin {"record", "blank"} => JsonlLine(lines, i) = <<>> /\ OpenAiLine(lines, i) = <<>>
  BY DEF JsonlLine, OpenAiLine
<1> QED
  BY <1>3, <1>4, <1>5 DEF Line

\* A line more, and its answer is at the end.
LEMMA AnsweredNext ==
    ASSUME NEW f, NEW lines, NEW n \in Nat
    PROVE  /\ Answered(f, lines, 0) = <<>> /\ Answered(f, lines, n) \in Seq(Piece)
           /\ Answered(f, lines, n + 1) = Answered(f, lines, n) \o Line(f, lines, n + 1)
<1> DEFINE s == [i \in 1..n + 1 |-> Line(f, lines, i)]
           t == [i \in 1..n |-> Line(f, lines, i)]
<1>1. \A i \in 1..n + 1 : Line(f, lines, i) \in Seq(Piece)
  BY LineType
<1>2. s \in [1..n + 1 -> Seq(Piece)] /\ t \in [1..n -> Seq(Piece)] /\ \A i \in 1..n : t[i] = s[i]
  BY <1>1
<1>3. s[n + 1] = Line(f, lines, n + 1)
  OBVIOUS
<1>4. Answered(f, lines, n + 1) = FlattenSeq(s) /\ Answered(f, lines, n) = FlattenSeq(t)
  BY DEF Answered
<1> HIDE DEF s, t
<1>5. FlattenSeq(t) \in Seq(Piece) /\ FlattenSeq(s) = FlattenSeq(t) \o s[n + 1]
  BY <1>2, FlattenOneMore
<1>6. Answered(f, lines, 0) = <<>>
  <2>1. [i \in 1..0 |-> Line(f, lines, i)] = <<>>
    OBVIOUS
  <2> QED
    BY <2>1, FlattenNone DEF Answered
<1> QED
  BY <1>3, <1>4, <1>5, <1>6

\* Lines that are neither record nor blank leave it as it was.
LEMMA SilentLines ==
    ASSUME NEW f, NEW lines, NEW r \in Nat, NEW n \in Nat, r <= n,
           \A i \in r + 1..n : lines[i] \notin {"record", "blank"}
    PROVE  /\ Answered(f, lines, n) = Answered(f, lines, r)
           /\ Earlier(lines, n + 1) = Earlier(lines, r + 1)
<1> DEFINE Same(m) == /\ Answered(f, lines, m) = Answered(f, lines, r)
                      /\ Earlier(lines, m + 1) = Earlier(lines, r + 1)
           fails == {m \in r..n : ~Same(m)}
<1>1. fails = {}
  <2> SUFFICES ASSUME fails # {} PROVE FALSE
    OBVIOUS
  <2>1. PICK m \in fails : \A k \in fails : m <= k
    <3>1. fails \in SUBSET Nat
      OBVIOUS
    <3> HIDE DEF fails
    <3> QED
      BY <3>1, LeastNat
  <2>2. m \in Nat /\ r <= m /\ m <= n /\ ~Same(m) /\ Same(r)
    BY <2>1
  <2>3. PICK k \in Nat : m = k + 1 /\ r <= k /\ k <= n
    <3>1. m # r
      BY <2>2
    <3>2. m - 1 \in Nat /\ m = m - 1 + 1 /\ r <= m - 1 /\ m - 1 <= n
      BY <2>2, <3>1
    <3> QED
      BY <3>2
  <2>4. Same(k)
    <3> HIDE DEF Same
    <3>1. k \notin fails
      BY <2>1, <2>3
    <3> QED
      BY <2>3, <3>1
  <2>5. lines[k + 1] \notin {"record", "blank"}
    BY <2>2, <2>3
  <2>6. Answered(f, lines, k + 1) = Answered(f, lines, k)
    <3>1. Line(f, lines, k + 1) = <<>>
      BY <2>5, LineType
    <3>2. \A s \in Seq(Piece) : s \o <<>> = s
      OBVIOUS
    <3>3. /\ Answered(f, lines, k) \in Seq(Piece)
          /\ Answered(f, lines, k + 1) = Answered(f, lines, k) \o Line(f, lines, k + 1)
      BY AnsweredNext
    <3> QED
      BY <3>1, <3>2, <3>3
  <2>7. Earlier(lines, k + 1 + 1) = Earlier(lines, k + 1)
    BY <2>5, EarlierNext
  <2> QED
    BY <2>2, <2>3, <2>4, <2>6, <2>7
<1>2. n \in r..n
  OBVIOUS
<1> QED
  BY <1>1, <1>2

\* What fewer lines are answered with comes first.
LEMMA AnsweredBegins ==
    ASSUME NEW f, NEW lines, NEW r \in Nat, NEW n \in Nat, r <= n
    PROVE  Begins(Answered(f, lines, r), Answered(f, lines, n))
<1> DEFINE Does(m) == Begins(Answered(f, lines, r), Answered(f, lines, m))
           fails == {m \in r..n : ~Does(m)}
<1>1. fails = {}
  <2> SUFFICES ASSUME fails # {} PROVE FALSE
    OBVIOUS
  <2>1. PICK m \in fails : \A k \in fails : m <= k
    <3>1. fails \in SUBSET Nat
      OBVIOUS
    <3> HIDE DEF fails
    <3> QED
      BY <3>1, LeastNat
  <2>2. m \in Nat /\ r <= m /\ m <= n /\ ~Does(m)
    BY <2>1
  <2>3. Does(r)
    <3>1. Answered(f, lines, r) \in Seq(Piece) /\ <<>> \in Seq(Piece)
      BY AnsweredNext
    <3>2. Answered(f, lines, r) = Answered(f, lines, r) \o <<>>
      BY <3>1
    <3> QED
      BY <3>1, <3>2 DEF Begins
  <2>4. PICK k \in Nat : m = k + 1 /\ r <= k /\ k <= n
    <3> HIDE DEF Does
    <3>1. m # r
      BY <2>2, <2>3
    <3>2. m - 1 \in Nat /\ m = m - 1 + 1 /\ r <= m - 1 /\ m - 1 <= n
      BY <2>2, <3>1
    <3> QED
      BY <3>2
  <2>5. Does(k)
    <3> HIDE DEF Does
    <3>1. k \notin fails
      BY <2>1, <2>4
    <3> QED
      BY <2>4, <3>1
  <2>6. PICK rest \in Seq(Piece) : Answered(f, lines, k) = Answered(f, lines, r) \o rest
    BY <2>5 DEF Begins
  <2>7. Answered(f, lines, k + 1) = Answered(f, lines, k) \o Line(f, lines, k + 1)
    BY AnsweredNext
  <2>8. PICK first \in Seq(Piece), last \in Seq(Piece) :
           first = Answered(f, lines, r) /\ last = Line(f, lines, k + 1)
    <3>1. Answered(f, lines, r) \in Seq(Piece)
      BY AnsweredNext
    <3>2. k + 1 \in Nat \ {0}
      OBVIOUS
    <3>3. Line(f, lines, k + 1) \in Seq(Piece)
      BY <3>2, LineType
    <3> QED
      BY <3>1, <3>3
  <2>9. Answered(f, lines, k + 1) = first \o (rest \o last) /\ rest \o last \in Seq(Piece)
    <3>1. (first \o rest) \o last = first \o (rest \o last)
      OBVIOUS
    <3>2. Answered(f, lines, k + 1) = (first \o rest) \o last
      BY <2>6, <2>7, <2>8, Zenon
    <3>3. rest \o last \in Seq(Piece)
      OBVIOUS
    <3> QED
      BY <3>1, <3>2, <3>3
  <2> QED
    BY <2>2, <2>4, <2>8, <2>9 DEF Begins
<1>2. n \in r..n
  OBVIOUS
<1> QED
  BY <1>1, <1>2

\* And it depends on them only.
LEMMA AnsweredAgrees ==
    ASSUME NEW f, NEW lines, NEW others, NEW n \in Nat, \A i \in 1..n : lines[i] = others[i]
    PROVE  /\ Answered(f, lines, n) = Answered(f, others, n)
           /\ \A i \in 1..n + 1 : Earlier(lines, i) = Earlier(others, i)
<1>1. \A i \in 1..n + 1 : Earlier(lines, i) = Earlier(others, i)
  BY DEF Earlier
<1>2. \A i \in 1..n : Line(f, lines, i) = Line(f, others, i)
  <2> SUFFICES ASSUME NEW i \in 1..n PROVE Line(f, lines, i) = Line(f, others, i)
    OBVIOUS
  <2>1. lines[i] = others[i] /\ Earlier(lines, i) = Earlier(others, i)
    BY <1>1
  <2> QED
    BY <2>1 DEF Line, JsonlLine, OpenAiLine
<1>3. [i \in 1..n |-> Line(f, lines, i)] = [i \in 1..n |-> Line(f, others, i)]
  BY <1>2
<1> QED
  BY <1>1, <1>3 DEF Answered

LEMMA LastLineType ==
    ASSUME NEW f, NEW lines \in Seq(LineKinds)
    PROVE  LastLine(f, lines) \in Seq(Piece)
<1> DEFINE index == Cardinality(Earlier(lines, Len(lines) + 1))
<1>1. index \in Nat
  <2>1. Len(lines) + 1 \in Nat \ {0}
    OBVIOUS
  <2> QED
    BY <2>1, EarlierNext
<1> HIDE DEF index
<1>2. <<"open", 0, 0>> \in Piece /\ <<"close", index, 0>> \in Piece /\ <<"close", 0, 0>> \in Piece
  BY <1>1, PiecesAreASequence DEF PieceKinds
<1>3. <<<<"open", 0, 0>>, <<"close", 0, 0>>>> \in Seq(Piece) /\ <<<<"close", index, 0>>>> \in Seq(Piece)
  BY <1>2, PiecesAreASequence
<1> QED
  BY <1>3, PiecesAreASequence DEF LastLine, index

LEMMA BeginsIsPrefix ==
    ASSUME NEW s \in Seq(Piece), NEW t \in Seq(Piece), Begins(s, t)
    PROVE  IsPrefix(s, t)
<1>1. PICK rest \in Seq(Piece) : t = s \o rest
  BY DEF Begins
<1>2. Len(s) <= Len(t) /\ \A i \in 1..Len(s) : t[i] = s[i]
  BY <1>1
<1>3. SubSeq(s, 1, Len(s)) = SubSeq(t, 1, Len(s))
  BY <1>2
<1> QED
  BY <1>2, <1>3 DEF IsPrefix

-----------------------------------------------------------------------------
(* The output.                                                             *)

Produced == out \o buffer \o pending

\* The document in hand is the one line r leaves open.
DocIs(r) ==
    format = "openai" =>
        /\ doc.written = Cardinality(Earlier(sent, r + 1)) /\ doc.tokens = doc.written
        /\ doc.open <=> doc.written > 0
        /\ doc.batches = 0 <=> \A i \in 1..r : sent[i] # "blank"

InChunk == IF pc \in {"read", "flush", "drop"} THEN 0 ELSE at

\* What is still to be written of the lines after r that were taken: the rest
\* of the chunk, and the boundary of the last line when that is due.
Ahead(r) ==
    /\ \A p, q \in 1..Len(chunk) : p < q => chunk[p] < chunk[q]
    /\ \A p \in InChunk + 1..Len(chunk) : chunk[p] \in r + 1..taken /\ sent[chunk[p]] = "record"
    /\ \A i \in r + 1..taken :
          /\ sent[i] = "record" => \E p \in InChunk + 1..Len(chunk) : chunk[p] = i
          /\ sent[i] = "blank" => i = taken /\ after = "boundary"
    /\ after = "boundary" => r < taken /\ sent[taken] = "blank"

\* Everything produced is the transcript up to some line, and what comes after
\* that line is in hand; at the end it is all of it.
Up(r) == Produced = Answered(format, sent, r) /\ DocIs(r) /\ Ahead(r)

OutInv ==
    /\ pc # "exited" /\ after # "exit" => \E r \in 0..taken : Up(r)
    /\ pc # "exited" /\ after = "exit" => Produced = Answered(format, sent, taken) \o LastLine(format, sent)
    /\ pc = "exited" => Begins(out, Transcript) /\ (code \in {0, 2} => out = Transcript)

LEMMA ProducedType ==
    TypeInv => Produced \in Seq(Piece) /\ Transcript \in Seq(Piece)
<1> SUFFICES ASSUME TypeInv PROVE Produced \in Seq(Piece) /\ Transcript \in Seq(Piece)
  OBVIOUS
<1>1. Produced \in Seq(Piece)
  BY PiecesAreASequence DEF Produced, TypeInv
<1>2. Answered(format, sent, taken) \in Seq(Piece) /\ LastLine(format, sent) \in Seq(Piece)
  BY AnsweredNext, LastLineType DEF TypeInv
<1>3. Transcript \in Seq(Piece)
  BY <1>2, PiecesAreASequence DEF Transcript
<1> QED
  BY <1>1, <1>3

LEMMA BeginsTrans ==
    ASSUME NEW s \in Seq(Piece), NEW t, NEW u, Begins(s, t), Begins(t, u)
    PROVE  Begins(s, u)
<1>1. PICK x \in Seq(Piece), y \in Seq(Piece) : t = s \o x /\ u = t \o y
  BY DEF Begins
<1>2. u = s \o (x \o y) /\ x \o y \in Seq(Piece)
  <2>1. (s \o x) \o y = s \o (x \o y) /\ x \o y \in Seq(Piece)
    OBVIOUS
  <2> QED
    BY <1>1, <2>1
<1> QED
  BY <1>2 DEF Begins

LEMMA BeginsItself ==
    ASSUME NEW s \in Seq(Piece) PROVE Begins(s, s)
<1>1. s = s \o <<>> /\ <<>> \in Seq(Piece)
  OBVIOUS
<1> QED
  BY <1>1 DEF Begins

\* Until the process is gone, what it has produced begins the transcript, and
\* so does what it has written of that.
LEMMA ProducedBegins ==
    ASSUME TypeInv, StageInv, OutInv, pc # "exited"
    PROVE  Begins(Produced, Transcript) /\ Begins(out, Transcript)
<1>1. /\ Produced \in Seq(Piece) /\ Transcript \in Seq(Piece) /\ out \in Seq(Piece)
      /\ Answered(format, sent, taken) \in Seq(Piece) /\ LastLine(format, sent) \in Seq(Piece)
  BY ProducedType, AnsweredNext, LastLineType DEF TypeInv
<1>2. Begins(Answered(format, sent, taken), Transcript)
  <2>1. (IF eof /\ taken = Len(sent) THEN LastLine(format, sent) ELSE <<>>) \in Seq(Piece)
    BY <1>1, PiecesAreASequence
  <2> QED
    BY <2>1 DEF Begins, Transcript
<1>3. Begins(Produced, Transcript)
  <2>1. CASE after = "exit"
    <3>1. Produced = Answered(format, sent, taken) \o LastLine(format, sent)
      BY <2>1 DEF OutInv
    <3>2. eof /\ taken = Len(sent)
      BY <2>1 DEF StageInv
    <3>3. Produced = Transcript
      BY <3>1, <3>2 DEF Transcript
    <3> QED
      BY <1>1, <3>3, BeginsItself
  <2>2. CASE after # "exit"
    <3>1. PICK r \in 0..taken : Produced = Answered(format, sent, r)
      BY <2>2 DEF OutInv, Up
    <3>2. r \in Nat /\ taken \in Nat /\ r <= taken
      BY DEF TypeInv
    <3>3. Begins(Answered(format, sent, r), Answered(format, sent, taken))
      BY <3>2, AnsweredBegins
    <3> QED
      BY <1>1, <1>2, <3>1, <3>3, BeginsTrans
  <2> QED
    BY <2>1, <2>2
<1>4. Begins(out, Produced)
  <2>1. Produced = out \o (buffer \o pending) /\ buffer \o pending \in Seq(Piece)
    <3>1. out \in Seq(Piece) /\ buffer \in Seq(Piece) /\ pending \in Seq(Piece)
      BY DEF TypeInv
    <3>2. (out \o buffer) \o pending = out \o (buffer \o pending) /\ buffer \o pending \in Seq(Piece)
      BY <3>1
    <3> QED
      BY <3>2 DEF Produced
  <2> QED
    BY <2>1 DEF Begins
<1> QED
  BY <1>1, <1>3, <1>4, BeginsTrans

\* What leaves the lines, the chunk and the output alone.
LEMMA UpKept ==
    ASSUME UNCHANGED <<format, sent, taken, chunk, doc>>, Produced' = Produced,
           InChunk' = InChunk, after' = "boundary" <=> after = "boundary", NEW r, Up(r)
    PROVE  Up(r)'
<1>1. DocIs(r)'
  BY DEF Up, DocIs
<1>2. Ahead(r)'
  BY DEF Up, Ahead
<1>3. Produced' = Answered(format', sent', r)
  BY DEF Up
<1> QED
  BY <1>1, <1>2, <1>3 DEF Up

LEMMA OutInvInit == Init => OutInv
<1> SUFFICES ASSUME Init PROVE OutInv
  OBVIOUS
<1>1. Produced = <<>> /\ Answered(format, sent, 0) = <<>>
  BY AnsweredNext DEF Init, Produced
<1>2. DocIs(0)
  <2>1. Earlier(sent, 0 + 1) = {}
    BY DEF Earlier
  <2>2. Cardinality(Earlier(sent, 0 + 1)) = 0
    BY <2>1, FS_EmptySet
  <2> QED
    BY <2>2 DEF Init, DocIs
<1>3. Ahead(0)
  <2>1. Len(chunk) = 0 /\ taken = 0 /\ InChunk = 0 /\ after = "read"
    BY DEF Init, InChunk
  <2>2. 1..0 = {} /\ 0 + 1 = 1
    OBVIOUS
  <2> QED
    BY <2>1, <2>2 DEF Ahead
<1>4. Up(0) /\ 0 \in 0..taken
  BY <1>1, <1>2, <1>3 DEF Init, Up
<1> QED
  BY <1>4 DEF Init, OutInv

\* The caller.
LEMMA CallerKeepsOut ==
    ASSUME TypeInv, StageInv, OutInv, Send \/ CloseStdin \/ Hear
    PROVE  OutInv'
<1>1. /\ UNCHANGED <<format, taken, pc, after, chunk, at, doc, pending, buffer, out, code>>
      /\ Produced' = Produced /\ InChunk' = InChunk
  BY DEF Send, CloseStdin, Hear, Produced, InChunk
<1>2. \A i \in 1..taken : sent'[i] = sent[i]
  <2>1. CASE Send
    <3>1. \A i \in 1..Len(sent) : sent'[i] = sent[i]
      BY <2>1, SendKeepsLines
    <3>2. taken \in Nat /\ Len(sent) \in Nat /\ taken <= Len(sent)
      BY DEF TypeInv
    <3> QED
      BY <3>1, <3>2
  <2>2. CASE ~Send
    BY <2>2 DEF CloseStdin, Hear
  <2> QED
    BY <2>1, <2>2
<1>3. taken \in Nat
  BY DEF TypeInv
<1>4. ASSUME NEW r \in 0..taken, Up(r) PROVE Up(r)'
  <2>1. r \in Nat /\ \A i \in 1..r : sent'[i] = sent[i]
    BY <1>2, <1>3
  <2>2. /\ Answered(format, sent, r) = Answered(format, sent', r)
        /\ \A i \in 1..r + 1 : Earlier(sent, i) = Earlier(sent', i)
    BY <2>1, AnsweredAgrees
  <2>3. r + 1 \in 1..r + 1
    BY <2>1
  <2>4. DocIs(r)'
    BY <1>1, <1>4, <2>1, <2>2, <2>3 DEF Up, DocIs
  <2>5. Ahead(r)'
    <3>1. \A i \in r + 1..taken : i \in 1..taken
      BY <1>3, <2>1
    <3>2. r < taken => taken \in 1..taken
      BY <1>3, <2>1
    <3> QED
      BY <1>1, <1>2, <1>4, <3>1, <3>2 DEF Up, Ahead
  <2> QED
    BY <1>1, <1>4, <2>2, <2>4, <2>5 DEF Up
<1>5. Begins(Transcript, Transcript') /\ (eof => Transcript' = Transcript)
  <2>1. Answered(format, sent', taken) = Answered(format, sent, taken)
    BY <1>2, <1>3, AnsweredAgrees
  <2>2. Transcript \in Seq(Piece)
    BY ProducedType
  <2>3. CASE eof
    <3>1. sent' = sent /\ eof' = eof
      BY <2>3 DEF Send, CloseStdin, Hear
    <3>2. Transcript' = Transcript
      BY <1>1, <3>1 DEF Transcript
    <3> QED
      BY <2>2, <3>2, BeginsItself
  <2>4. CASE ~eof
    <3>1. Transcript = Answered(format, sent, taken)
      <4>1. Answered(format, sent, taken) \in Seq(Piece)
        BY <1>3, AnsweredNext
      <4> QED
        BY <2>4, <4>1 DEF Transcript
    <3>2. sent' \in Seq(LineKinds)
      BY TypeInvStep DEF Next, TypeInv
    <3>3. LastLine(format, sent') \in Seq(Piece)
      BY <3>2, LastLineType
    <3>4. Transcript' = Transcript \o (IF eof' /\ taken = Len(sent') THEN LastLine(format, sent') ELSE <<>>)
      BY <1>1, <2>1, <3>1 DEF Transcript
    <3>5. (IF eof' /\ taken = Len(sent') THEN LastLine(format, sent') ELSE <<>>) \in Seq(Piece)
      BY <3>3, PiecesAreASequence
    <3> QED
      BY <2>4, <3>4, <3>5 DEF Begins
  <2> QED
    BY <2>3, <2>4
<1>6. pc # "exited" /\ after # "exit" => (\E r \in 0..taken : Up(r))'
  BY <1>1, <1>4 DEF OutInv
<1>7. pc # "exited" /\ after = "exit" => Produced' = Answered(format', sent', taken') \o LastLine(format', sent')
  <2>1. after = "exit" => sent' = sent
    BY DEF StageInv, Send, CloseStdin, Hear
  <2> QED
    BY <1>1, <2>1 DEF OutInv
<1>8. pc = "exited" => Begins(out', Transcript') /\ (code' \in {0, 2} => out' = Transcript')
  <2> SUFFICES ASSUME pc = "exited"
               PROVE  Begins(out', Transcript') /\ (code' \in {0, 2} => out' = Transcript')
    OBVIOUS
  <2>1. Begins(out, Transcript) /\ (code \in {0, 2} => out = Transcript) /\ out \in Seq(Piece)
    BY DEF OutInv, TypeInv
  <2>2. code \in {0, 2} => eof
    BY DEF StageInv
  <2> QED
    BY <1>1, <1>5, <2>1, <2>2, BeginsTrans
<1> QED
  BY <1>1, <1>6, <1>7, <1>8 DEF OutInv

\* A line taken is ahead.
LEMMA ReadLineKeepsOut ==
    ASSUME TypeInv, StageInv, OutInv, ReadLine
    PROVE  OutInv'
<1>1. /\ pc = "read" /\ after = "read" /\ pc' \in {"read", "flush", "drop"} /\ after' \in {"read", "boundary"}
      /\ UNCHANGED <<format, sent, doc, pending, buffer, out>>
  BY DEF ReadLine, Fail, StageInv, caller
<1>2. PICK n \in Nat : n = taken /\ taken' = n + 1
  BY DEF ReadLine, TypeInv
<1>3. /\ sent[n + 1] = "record" => chunk' = Append(chunk, n + 1)
      /\ sent[n + 1] # "record" => chunk' = chunk
      /\ after' = "boundary" <=> sent[n + 1] = "blank"
  BY <1>1, <1>2 DEF ReadLine
<1>4. PICK r \in 0..n : Up(r)
  BY <1>1, <1>2 DEF OutInv
<1>5. Produced' = Answered(format', sent', r) /\ DocIs(r)'
  BY <1>1, <1>4 DEF Up, DocIs, Produced
<1>6. InChunk = 0 /\ InChunk' = 0
  BY <1>1 DEF InChunk
<1>7. PICK len \in Nat : len = Len(chunk)
  BY LenProperties DEF TypeInv
<1>8. /\ \A p, q \in 1..len : p < q => chunk[p] < chunk[q]
      /\ \A p \in 1..len : chunk[p] \in r + 1..n /\ sent[chunk[p]] = "record"
      /\ \A i \in r + 1..n : /\ sent[i] = "record" => \E p \in 1..len : chunk[p] = i
                            /\ sent[i] # "blank"
  BY <1>1, <1>2, <1>4, <1>6, <1>7 DEF Up, Ahead
<1>9. PICK more \in {0, 1} : /\ Len(chunk') = len + more /\ \A p \in 1..len : chunk'[p] = chunk[p]
                             /\ more = 1 <=> sent[n + 1] = "record"
                             /\ more = 1 => chunk'[len + 1] = n + 1
  <2>1. CASE sent[n + 1] = "record"
    <3>1. chunk' = Append(chunk, n + 1) /\ chunk \in Seq(Nat)
      BY <1>3, <2>1 DEF TypeInv
    <3>2. Len(chunk') = len + 1 /\ (\A p \in 1..len : chunk'[p] = chunk[p]) /\ chunk'[len + 1] = n + 1
      BY <1>7, <3>1
    <3> QED
      BY <2>1, <3>2
  <2>2. CASE sent[n + 1] # "record"
    BY <1>3, <1>7, <2>2
  <2> QED
    BY <2>1, <2>2
<1>10. \A p \in 1..len + more : p \in 1..len \/ (p = len + 1 /\ more = 1)
  OBVIOUS
<1>11. \A i \in r + 1..n + 1 : i \in r + 1..n \/ i = n + 1
  OBVIOUS
<1>12. \A p, q \in 1..len + more : p < q => chunk'[p] < chunk'[q]
  BY <1>7, <1>8, <1>9, <1>10
<1>13. \A p \in 1..len + more : chunk'[p] \in r + 1..n + 1 /\ sent[chunk'[p]] = "record"
  BY <1>7, <1>8, <1>9, <1>10
<1>14. \A i \in r + 1..n + 1 : /\ sent[i] = "record" => \E p \in 1..len + more : chunk'[p] = i
                               /\ sent[i] = "blank" => i = n + 1 /\ after' = "boundary"
  <2> SUFFICES ASSUME NEW i \in r + 1..n + 1
               PROVE  /\ sent[i] = "record" => \E p \in 1..len + more : chunk'[p] = i
                      /\ sent[i] = "blank" => i = n + 1 /\ after' = "boundary"
    OBVIOUS
  <2>1. CASE i = n + 1
    BY <1>3, <1>9, <2>1
  <2>2. CASE i # n + 1
    <3>1. i \in r + 1..n
      BY <2>2
    <3> QED
      BY <1>8, <1>9, <3>1
  <2> QED
    BY <2>1, <2>2
<1>15. Ahead(r)'
  <2>1. InChunk' + 1 = 1 /\ Len(chunk') = len + more /\ taken' = n + 1 /\ sent' = sent
    BY <1>1, <1>2, <1>6, <1>9
  <2>2. after' = "boundary" => r < n + 1 /\ sent[n + 1] = "blank"
    BY <1>3
  <2> QED
    BY <1>12, <1>13, <1>14, <2>1, <2>2 DEF Ahead
<1>16. Up(r)' /\ r \in 0..taken'
  BY <1>2, <1>5, <1>15 DEF Up
<1> QED
  BY <1>1, <1>16 DEF OutInv

\* What has no output: the end of stdin, the answer to a chunk and the flush
\* that follows it.
LEMMA QuietKeepsOut ==
    ASSUME TypeInv, StageInv, OutInv, ReadEnd \/ Answer \/ FlushOutput \/ Emitted \/ Spilled
    PROVE  OutInv'
<1>1. /\ UNCHANGED <<format, sent, eof, taken, chunk, doc, pending, buffer, out>> /\ Produced' = Produced
      /\ pc # "exited" /\ pc' # "exited"
      /\ (after' = "boundary" <=> after = "boundary") /\ (after' = "exit" <=> after = "exit")
      /\ InChunk' = InChunk
  BY DEF ReadEnd, Answer, Fail, FlushOutput, Emitted, Spilled, Produced, InChunk, StageInv, caller
<1>2. \A r : Up(r) => Up(r)'
  BY <1>1, UpKept
<1>3. pc' # "exited" /\ after' # "exit" => \E r \in 0..taken' : Up(r)'
  BY <1>1, <1>2 DEF OutInv
<1> QED
  BY <1>1, <1>3 DEF OutInv

\* Taking the first piece of one sequence to the end of another.
LEMMA MoveOne ==
    ASSUME NEW s \in Seq(Piece), NEW t \in Seq(Piece), t # <<>>
    PROVE  Append(s, Head(t)) \o Tail(t) = s \o t
<1>1. PICK x \in Piece, rest \in Seq(Piece) : x = Head(t) /\ rest = Tail(t)
  BY HeadTailProperties
<1>2. Len(t) \in Nat /\ 1 \in 1..Len(t) /\ Len(t) \in 1..Len(t) /\ 1 + 1 = 2 /\ t[1] = x
  BY <1>1, EmptySeq
<1>3. SubSeq(t, 1, Len(t)) = <<t[1]>> \o SubSeq(t, 1 + 1, Len(t))
  BY <1>2, SubSeqRecursiveFirst
<1>4. t = <<x>> \o rest
  BY <1>1, <1>2, <1>3, SubSeqFull, TailIsSubSeq
<1>5. Append(s, x) = s \o <<x>> /\ <<x>> \in Seq(Piece)
  <2>1. Append(s, x) \in Seq(Piece) /\ s \o <<x>> \in Seq(Piece) /\ <<x>> \in Seq(Piece)
    OBVIOUS
  <2>2. PICK len \in Nat : len = Len(s)
    BY LenProperties
  <2>3. /\ Len(Append(s, x)) = len + 1 /\ Len(s \o <<x>>) = len + 1
        /\ \A i \in 1..len + 1 : Append(s, x)[i] = IF i <= len THEN s[i] ELSE x
    BY <2>2
  <2>4. Len(<<x>>) = 1 /\ <<x>>[1] = x
    OBVIOUS
  <2>5. \A i \in 1..len + 1 : (s \o <<x>>)[i] = IF i <= len THEN s[i] ELSE <<x>>[i - len]
    BY <2>1, <2>2, <2>4, ConcatProperties
  <2>6. \A i \in 1..len + 1 : i <= len \/ i - len = 1
    OBVIOUS
  <2>7. \A i \in 1..len + 1 : Append(s, x)[i] = (s \o <<x>>)[i]
    BY <2>3, <2>4, <2>5, <2>6
  <2> QED
    BY <2>1, <2>3, <2>7, SeqEqual
<1>6. (s \o <<x>>) \o rest = s \o (<<x>> \o rest)
  BY <1>5, ConcatAssociative
<1> QED
  BY <1>1, <1>4, <1>5, <1>6

\* Pieces go from hand to hand.
LEMMA PassingMoves ==
    ASSUME TypeInv, Emit \/ WriteOut
    PROVE  Produced' = Produced
<1>1. out \in Seq(Piece) /\ buffer \in Seq(Piece) /\ pending \in Seq(Piece)
  BY DEF TypeInv
<1>2. CASE Emit
  <2>1. CASE buffer' = Append(buffer, Head(pending)) /\ pending' = Tail(pending)
    <3>1. pending # <<>> /\ out' = out
      BY <1>2 DEF Emit
    <3>2. Append(buffer, Head(pending)) \o Tail(pending) = buffer \o pending
      BY <1>1, <3>1, MoveOne
    <3>3. Append(buffer, Head(pending)) \in Seq(Piece) /\ Tail(pending) \in Seq(Piece)
      BY <1>1, <3>1, HeadTailProperties
    <3>4. (out \o Append(buffer, Head(pending))) \o Tail(pending)
          = out \o (Append(buffer, Head(pending)) \o Tail(pending))
      <4>1. \A s, t, u \in Seq(Piece) : (s \o t) \o u = s \o (t \o u)
        BY ConcatAssociative
      <4> QED
        BY <1>1, <3>3, <4>1, Zenon
    <3>5. (out \o buffer) \o pending = out \o (buffer \o pending)
      BY <1>1, ConcatAssociative
    <3> QED
      BY <2>1, <3>1, <3>2, <3>4, <3>5 DEF Produced
  <2>2. CASE UNCHANGED <<buffer, pending>>
    BY <1>2, <2>2 DEF Emit, Produced
  <2> QED
    BY <1>2, <2>1, <2>2 DEF Emit
<1>3. CASE WriteOut
  <2>1. buffer # <<>> /\ out' = Append(out, Head(buffer)) /\ buffer' = Tail(buffer) /\ pending' = pending
    BY <1>3 DEF WriteOut
  <2>2. Append(out, Head(buffer)) \o Tail(buffer) = out \o buffer
    BY <1>1, <2>1, MoveOne
  <2> QED
    BY <2>1, <2>2 DEF Produced
<1> QED
  BY <1>2, <1>3

LEMMA PassingKeepsOut ==
    ASSUME TypeInv, StageInv, OutInv, Emit \/ WriteOut
    PROVE  OutInv'
<1>1. /\ UNCHANGED <<format, sent, taken, chunk, at, doc, after>> /\ pc # "exited" /\ pc' # "exited"
      /\ InChunk' = InChunk
  BY DEF Emit, WriteOut, InChunk, caller
<1>2. Produced' = Produced
  BY PassingMoves
<1>3. \A r : Up(r) => Up(r)'
  BY <1>1, <1>2, UpKept
<1>4. pc' # "exited" /\ after' # "exit" => \E r \in 0..taken' : Up(r)'
  BY <1>1, <1>3 DEF OutInv
<1>5. Produced' = Produced /\ UNCHANGED <<format, sent, taken>>
  BY <1>1, <1>2
<1> QED
  BY <1>1, <1>4, <1>5 DEF OutInv

\* Two pieces are one and one.
LEMMA OneAndOne ==
    /\ \A a, b : <<a>> \o <<b>> = <<a, b>>
    /\ \A s \in Seq(Piece) : s \o <<>> = s /\ <<>> \o s = s
<1>1. \A s \in Seq(Piece) : s \o <<>> = s /\ <<>> \o s = s
  BY ConcatEmptySeq
<1>2. \A a, b : <<a>> \o <<b>> = <<a, b>>
  <2> SUFFICES ASSUME NEW a, NEW b PROVE <<a>> \o <<b>> = <<a, b>>
    OBVIOUS
  <2> DEFINE S == {a, b}
  <2>1. <<a>> \in Seq(S) /\ <<b>> \in Seq(S) /\ <<a, b>> \in Seq(S) /\ Len(<<a, b>>) = 2
        /\ Len(<<a>>) = 1 /\ Len(<<b>>) = 1 /\ <<a>>[1] = a /\ <<b>>[1] = b
        /\ <<a, b>>[1] = a /\ <<a, b>>[2] = b
    OBVIOUS
  <2> HIDE DEF S
  <2>2. /\ <<a>> \o <<b>> \in Seq(S) /\ Len(<<a>> \o <<b>>) = 1 + 1
        /\ \A i \in 1..1 + 1 : (<<a>> \o <<b>>)[i] = IF i <= 1 THEN <<a>>[i] ELSE <<b>>[i - 1]
    BY <2>1, ConcatProperties
  <2>3. \A i \in 1..2 : i = 1 \/ i = 2
    OBVIOUS
  <2>4. (<<a>> \o <<b>>)[1] = a /\ (<<a>> \o <<b>>)[2] = b
    BY <2>1, <2>2
  <2>5. \A i \in 1..2 : (<<a>> \o <<b>>)[i] = <<a, b>>[i]
    BY <2>1, <2>3, <2>4
  <2>6. 1 + 1 = 2 /\ Len(<<a>> \o <<b>>) = 2
    BY <2>2
  <2> QED
    BY <2>1, <2>2, <2>5, <2>6, SeqEqual
<1> QED
  BY <1>1, <1>2

\* What is handed over next, with nothing pending, is produced after the rest.
LEMMA ProducedMore ==
    ASSUME TypeInv, pending = <<>>, UNCHANGED <<out, buffer>>
    PROVE  Produced' = Produced \o pending'
<1>1. out \o buffer \in Seq(Piece)
  BY PiecesAreASequence DEF TypeInv
<1>2. Produced = out \o buffer
  BY <1>1, OneAndOne DEF Produced
<1> QED
  BY <1>2 DEF Produced

\* The next record of the chunk is the next line that says anything.
LEMMA WriteRecordKeepsOut ==
    ASSUME TypeInv, StageInv, OutInv, WriteRecord
    PROVE  OutInv'
<1>1. /\ pc = "write" /\ pc' = "emit" /\ after' = after /\ after # "exit" /\ pending = <<>>
      /\ UNCHANGED <<format, sent, taken, chunk, buffer, out>>
      /\ format \in {"jsonl", "openai"}
  BY DEF WriteRecord, StageInv, TypeInv, caller
<1>2. PICK last \in Nat : last = taken
  BY DEF TypeInv
<1>3. PICK r \in 0..last : Up(r)
  BY <1>1, <1>2 DEF OutInv
<1>4. PICK len \in Nat, k \in Nat : len = Len(chunk) /\ k = at /\ k < len /\ at' = k + 1
  BY LenProperties DEF WriteRecord, TypeInv
<1>5. InChunk = k /\ InChunk' = k + 1
  BY <1>1, <1>4 DEF InChunk
<1>6. /\ \A p, q \in 1..len : p < q => chunk[p] < chunk[q]
      /\ \A p \in k + 1..len : chunk[p] \in r + 1..last /\ sent[chunk[p]] = "record"
      /\ \A i \in r + 1..last : /\ sent[i] = "record" => \E p \in k + 1..len : chunk[p] = i
                                /\ sent[i] = "blank" => i = last /\ after = "boundary"
      /\ after = "boundary" => r < last /\ sent[last] = "blank"
  BY <1>2, <1>3, <1>4, <1>5 DEF Up, Ahead
<1>7. PICK n \in Nat, m \in Nat : /\ n = chunk[k + 1] /\ n = m + 1 /\ r <= m /\ n <= last
                                  /\ sent[n] = "record"
  <2>1. chunk[k + 1] \in r + 1..last /\ sent[chunk[k + 1]] = "record"
    BY <1>4, <1>6
  <2>2. chunk[k + 1] - 1 \in Nat /\ r <= chunk[k + 1] - 1 /\ chunk[k + 1] = chunk[k + 1] - 1 + 1
    BY <2>1
  <2> QED
    BY <2>1, <2>2
<1>8. \A p \in k + 1..len : p # k + 1 => n < chunk[p]
  <2> SUFFICES ASSUME NEW p \in k + 1..len, p # k + 1 PROVE n < chunk[p]
    OBVIOUS
  <2>1. k + 1 \in 1..len /\ p \in 1..len /\ k + 1 < p
    BY <1>4
  <2> QED
    BY <1>6, <1>7, <2>1
<1>9. \A i \in r + 1..m : sent[i] \notin {"record", "blank"}
  <2> SUFFICES ASSUME NEW i \in r + 1..m PROVE sent[i] \notin {"record", "blank"}
    OBVIOUS
  <2>1. i \in r + 1..last /\ i < n /\ i # last
    BY <1>7
  <2>2. ASSUME sent[i] = "record" PROVE FALSE
    <3>1. PICK p \in k + 1..len : chunk[p] = i
      BY <1>6, <2>1, <2>2
    <3>2. p # k + 1
      <4>1. i # n /\ chunk[k + 1] = n
        BY <1>7, <2>1
      <4> QED
        BY <3>1, <4>1
    <3>3. n < i
      BY <1>8, <3>1, <3>2
    <3> QED
      BY <2>1, <3>3
  <2> QED
    BY <1>6, <2>1, <2>2
<1>10. /\ Answered(format, sent, m) = Answered(format, sent, r)
       /\ Earlier(sent, n) = Earlier(sent, r + 1)
  BY <1>7, <1>9, SilentLines
<1>11. PICK index \in Nat : index = Cardinality(Earlier(sent, n))
  BY <1>7, EarlierNext
<1>12. format = "openai" => /\ doc.written = index /\ doc.tokens = index /\ (doc.open <=> index > 0)
                            /\ doc.batches = 0 <=> \A i \in 1..r : sent[i] # "blank"
  BY <1>3, <1>10, <1>11 DEF Up, DocIs
<1>13. pending' = Line(format, sent, n)
  <2>1. pending' = RecordPieces(n)
    BY <1>4, <1>7 DEF WriteRecord
  <2>2. CASE format = "jsonl"
    BY <1>7, <2>1, <2>2 DEF RecordPieces, Line, JsonlLine
  <2>3. CASE format = "openai"
    <3>1. Line(format, sent, n) =
             (IF index = 0 THEN <<<<"open", 0, 0>>>> ELSE <<<<"comma", 0, 0>>>>) \o <<<<"item", index, n>>>>
      BY <1>7, <1>11, <2>3 DEF Line, OpenAiLine
    <3>2. pending' = <<<<IF doc.open THEN "comma" ELSE "open", 0, 0>>, <<"item", index, n>>>>
      BY <1>12, <2>1, <2>3 DEF RecordPieces
    <3>3. CASE index = 0
      <4>1. ~doc.open
        BY <1>12, <2>3, <3>3
      <4> QED
        BY <3>1, <3>2, <3>3, <4>1, OneAndOne
    <3>4. CASE index # 0
      <4>1. doc.open
        BY <1>12, <2>3, <3>4
      <4> QED
        BY <3>1, <3>2, <3>4, <4>1, OneAndOne
    <3> QED
      BY <3>3, <3>4
  <2> QED
    BY <1>1, <2>2, <2>3
<1>14. Produced' = Answered(format', sent', n)
  <2>1. Produced' = Produced \o pending'
    BY <1>1, ProducedMore
  <2>2. Produced = Answered(format, sent, m)
    BY <1>3, <1>10 DEF Up
  <2>3. Answered(format, sent, n) = Answered(format, sent, m) \o Line(format, sent, n)
    BY <1>7, AnsweredNext
  <2> QED
    BY <1>1, <1>13, <2>1, <2>2, <2>3
<1>15. DocIs(n)'
  <2> SUFFICES ASSUME format = "openai"
               PROVE  /\ doc'.written = Cardinality(Earlier(sent, n + 1)) /\ doc'.tokens = doc'.written
                      /\ doc'.open <=> doc'.written > 0
                      /\ doc'.batches = 0 <=> \A i \in 1..n : sent[i] # "blank"
    BY <1>1 DEF DocIs
  <2>1. /\ doc'.written = doc.written + 1 /\ doc'.tokens = doc.tokens + 1 /\ doc'.batches = doc.batches
        /\ doc'.open = (format = "openai")
    BY DEF WriteRecord, TypeInv
  <2>2. Cardinality(Earlier(sent, n + 1)) = index + 1
    BY <1>7, <1>11, EarlierNext
  <2>3. \A i \in 1..n : i \in 1..r \/ i \in r + 1..m \/ i = n
    BY <1>7
  <2>4. 1..r \subseteq 1..n
    BY <1>7
  <2>5. (\A i \in 1..n : sent[i] # "blank") <=> (\A i \in 1..r : sent[i] # "blank")
    BY <1>7, <1>9, <2>3, <2>4
  <2>6. PICK w \in Nat, t \in Nat : /\ w = index + 1 /\ doc'.written = w /\ doc'.tokens = w /\ w > 0
    BY <1>12, <2>1
  <2>7. doc'.open
    BY <2>1, Zenon
  <2>8. doc'.batches = 0 <=> \A i \in 1..n : sent[i] # "blank"
    BY <1>12, <2>1, <2>5
  <2> QED
    BY <2>2, <2>6, <2>7, <2>8
<1>16. Ahead(n)'
  <2>1. InChunk' + 1 = k + 2 /\ Len(chunk') = len /\ taken' = last
    BY <1>1, <1>2, <1>4, <1>5
  <2>2. \A p \in k + 2..len : p \in k + 1..len /\ p # k + 1
    BY <1>4
  <2>3. \A p \in k + 2..len : chunk[p] \in n + 1..last /\ sent[chunk[p]] = "record"
    <3> SUFFICES ASSUME NEW p \in k + 2..len
                 PROVE  chunk[p] \in n + 1..last /\ sent[chunk[p]] = "record"
      OBVIOUS
    <3>1. chunk[p] \in r + 1..last /\ n < chunk[p] /\ sent[chunk[p]] = "record"
      BY <1>6, <1>8, <2>2
    <3> QED
      BY <3>1
  <2>4. \A i \in n + 1..last : /\ sent[i] = "record" => \E p \in k + 2..len : chunk[p] = i
                               /\ sent[i] = "blank" => i = last /\ after = "boundary"
    <3> SUFFICES ASSUME NEW i \in n + 1..last
                 PROVE  /\ sent[i] = "record" => \E p \in k + 2..len : chunk[p] = i
                        /\ sent[i] = "blank" => i = last /\ after = "boundary"
      OBVIOUS
    <3>1. i \in r + 1..last /\ i # n
      BY <1>7
    <3>2. ASSUME sent[i] = "record" PROVE \E p \in k + 2..len : chunk[p] = i
      <4>1. PICK p \in k + 1..len : chunk[p] = i
        BY <1>6, <3>1, <3>2
      <4>2. p # k + 1
        BY <1>7, <3>1, <4>1
      <4>3. p \in k + 2..len
        BY <1>4, <4>2
      <4> QED
        BY <4>1, <4>3
    <3> QED
      BY <1>6, <3>1, <3>2
  <2>5. after = "boundary" => n < last /\ sent[last] = "blank"
    <3>1. after = "boundary" => sent[last] = "blank" /\ n # last
      BY <1>6, <1>7
    <3> QED
      BY <1>7, <3>1
  <2> QED
    BY <1>1, <1>6, <2>1, <2>3, <2>4, <2>5 DEF Ahead
<1>17. Up(n)' /\ n \in 0..taken'
  BY <1>1, <1>2, <1>7, <1>14, <1>15, <1>16 DEF Up
<1> QED
  BY <1>1, <1>17 DEF OutInv

\* Nothing of the chunk left: the lines since r said nothing, but for the
\* boundary of the last one.
LEMMA NothingOfTheChunk ==
    ASSUME TypeInv, pc = "flush", chunk = <<>>, NEW r \in Nat, NEW n \in Nat, r <= n, n <= taken, Up(r),
           after = "boundary" => n < taken
    PROVE  /\ \A i \in r + 1..n : sent[i] \notin {"record", "blank"}
           /\ Answered(format, sent, n) = Answered(format, sent, r)
           /\ Earlier(sent, n + 1) = Earlier(sent, r + 1)
<1>1. PICK last \in Nat : last = taken
  BY DEF TypeInv
<1>2. InChunk = 0 /\ Len(chunk) = 0 /\ 0 + 1..0 = {}
  BY DEF InChunk
<1>3. \A i \in r + 1..last : sent[i] # "record" /\ (sent[i] = "blank" => i = last /\ after = "boundary")
  BY <1>1, <1>2 DEF Up, Ahead
<1>4. \A i \in r + 1..n : sent[i] \notin {"record", "blank"}
  BY <1>1, <1>3
<1> QED
  BY <1>4, SilentLines

LEMMA BoundaryKeepsOut ==
    ASSUME TypeInv, StageInv, OutInv, Boundary
    PROVE  OutInv'
<1>1. /\ pc = "flush" /\ pc' = "emit" /\ after = "boundary" /\ after' = "read" /\ pending = <<>> /\ chunk = <<>>
      /\ UNCHANGED <<format, sent, taken, chunk, buffer, out>> /\ format \in {"jsonl", "openai"}
  BY DEF Boundary, StageInv, TypeInv, caller
<1>2. PICK r \in 0..taken : Up(r)
  BY <1>1 DEF OutInv
<1>3. PICK n \in Nat, m \in Nat : n = taken /\ n = m + 1 /\ r <= m /\ sent[n] = "blank"
  <2>1. r < taken /\ sent[taken] = "blank"
    BY <1>1, <1>2 DEF Up, Ahead
  <2>2. taken \in Nat /\ r \in Nat
    BY DEF TypeInv
  <2>3. taken - 1 \in Nat /\ taken = taken - 1 + 1 /\ r <= taken - 1
    BY <2>1, <2>2
  <2> QED
    BY <2>1, <2>2, <2>3
<1>4. /\ Answered(format, sent, m) = Answered(format, sent, r)
      /\ Earlier(sent, n) = Earlier(sent, r + 1)
  <2>1. r \in Nat /\ m <= taken /\ m < taken
    BY <1>3
  <2> QED
    BY <1>1, <1>2, <1>3, <2>1, NothingOfTheChunk
<1>5. PICK index \in Nat : index = Cardinality(Earlier(sent, n))
  BY <1>3, EarlierNext
<1>6. format = "openai" => doc.tokens = index /\ (doc.open <=> index > 0)
  BY <1>2, <1>4, <1>5 DEF Up, DocIs
<1>7. pending' = Line(format, sent, n)
  <2>1. CASE format = "jsonl"
    BY <1>3, <2>1 DEF Boundary, Line, JsonlLine
  <2>2. CASE format = "openai"
    <3>1. Line(format, sent, n) = (IF index = 0 THEN <<<<"open", 0, 0>>>> ELSE <<>>) \o <<<<"close", index, 0>>>>
      BY <1>3, <1>5, <2>2 DEF Line, OpenAiLine
    <3>2. pending' = (IF doc.open THEN <<>> ELSE <<<<"open", 0, 0>>>>) \o <<<<"close", index, 0>>>>
      BY <1>6, <2>2 DEF Boundary, CloseDocument
    <3>3. doc.open <=> index # 0
      BY <1>6, <2>2
    <3> QED
      BY <3>1, <3>2, <3>3
  <2> QED
    BY <1>1, <2>1, <2>2
<1>8. Produced' = Answered(format', sent', n)
  <2>1. Produced' = Produced \o pending'
    BY <1>1, ProducedMore
  <2>2. Produced = Answered(format, sent, m)
    BY <1>2, <1>4 DEF Up
  <2>3. Answered(format, sent, n) = Answered(format, sent, m) \o Line(format, sent, n)
    BY <1>3, AnsweredNext
  <2> QED
    BY <1>1, <1>7, <2>1, <2>2, <2>3
<1>9. DocIs(n)'
  <2> SUFFICES ASSUME format = "openai"
               PROVE  /\ doc'.written = Cardinality(Earlier(sent, n + 1)) /\ doc'.tokens = doc'.written
                      /\ doc'.open <=> doc'.written > 0
                      /\ doc'.batches = 0 <=> \A i \in 1..n : sent[i] # "blank"
    BY <1>1 DEF DocIs
  <2>1. doc' = [open |-> FALSE, written |-> 0, tokens |-> 0, batches |-> doc.batches + 1] /\ doc.batches \in Nat
    BY DEF Boundary, CloseDocument, TypeInv
  <2>2. doc'.written = 0 /\ doc'.tokens = 0 /\ ~doc'.open /\ doc'.batches # 0
    <3>1. doc'.written = 0 /\ doc'.tokens = 0 /\ doc'.batches = doc.batches + 1
      BY <2>1
    <3>2. ~doc'.open
      BY <2>1, Zenon
    <3> QED
      BY <2>1, <3>1, <3>2
  <2>3. Cardinality(Earlier(sent, n + 1)) = 0
    BY <1>3, EarlierNext
  <2>4. n \in 1..n
    BY <1>3
  <2> QED
    BY <1>3, <2>2, <2>3, <2>4
<1>10. Ahead(n)'
  <2>1. Len(chunk') = 0 /\ taken' = n /\ InChunk' \in Nat
    <3>1. at' = at /\ at \in Nat
      BY DEF Boundary, TypeInv
    <3> QED
      BY <1>1, <1>3, <3>1 DEF InChunk
  <2>2. 1..0 = {} /\ n + 1..n = {} /\ \A j \in Nat : j + 1..0 = {}
    OBVIOUS
  <2> QED
    BY <1>1, <2>1, <2>2 DEF Ahead
<1>11. Up(n)' /\ n \in 0..taken'
  BY <1>1, <1>3, <1>8, <1>9, <1>10 DEF Up
<1> QED
  BY <1>1, <1>11 DEF OutInv

\* At the end only the document in hand is left to close.
LEMMA FinishKeepsOut ==
    ASSUME TypeInv, StageInv, OutInv, Finish
    PROVE  OutInv'
<1>1. /\ pc = "flush" /\ pc' = "emit" /\ after = "finish" /\ after' = "exit" /\ pending = <<>> /\ chunk = <<>>
      /\ UNCHANGED <<format, sent, taken, chunk, buffer, out>> /\ format \in {"jsonl", "openai"}
      /\ taken = Len(sent)
  BY DEF Finish, StageInv, TypeInv, caller
<1>2. PICK n \in Nat : n = taken
  BY DEF TypeInv
<1>3. PICK r \in 0..n : Up(r)
  BY <1>1, <1>2 DEF OutInv
<1>4. /\ \A i \in r + 1..n : sent[i] \notin {"record", "blank"}
      /\ Answered(format, sent, n) = Answered(format, sent, r)
      /\ Earlier(sent, n + 1) = Earlier(sent, r + 1)
  <2>1. r \in Nat /\ n <= taken
    BY <1>2
  <2> QED
    BY <1>1, <1>3, <2>1, NothingOfTheChunk
<1>5. PICK index \in Nat : index = Cardinality(Earlier(sent, n + 1))
  <2>1. n + 1 \in Nat \ {0}
    OBVIOUS
  <2> QED
    BY <2>1, EarlierNext
<1>6. format = "openai" => /\ doc.tokens = index /\ (doc.open <=> index > 0)
                           /\ doc.batches = 0 <=> \A i \in 1..r : sent[i] # "blank"
  BY <1>3, <1>4, <1>5 DEF Up, DocIs
<1>7. (\A i \in 1..n : sent[i] # "blank") <=> (\A i \in 1..r : sent[i] # "blank")
  <2>1. 1..r \subseteq 1..n /\ \A i \in 1..n : i \in 1..r \/ i \in r + 1..n
    OBVIOUS
  <2> QED
    BY <1>4, <2>1
<1>8. pending' = LastLine(format, sent)
  <2>1. /\ format = "jsonl" => LastLine(format, sent) = <<>>
        /\ format = "openai" /\ index > 0 => LastLine(format, sent) = <<<<"close", index, 0>>>>
        /\ format = "openai" /\ ~(index > 0) /\ (\A i \in 1..n : sent[i] # "blank")
              => LastLine(format, sent) = <<<<"open", 0, 0>>, <<"close", 0, 0>>>>
        /\ format = "openai" /\ ~(index > 0) /\ ~(\A i \in 1..n : sent[i] # "blank")
              => LastLine(format, sent) = <<>>
    <3>1. index = Cardinality(Earlier(sent, Len(sent) + 1)) /\ n = Len(sent)
      BY <1>1, <1>2, <1>5
    <3>2. LastLine(format, sent) =
             CASE format = "jsonl" -> <<>>
               [] format = "openai" /\ index > 0 -> <<<<"close", index, 0>>>>
               [] format = "openai" /\ index = 0 /\ (\A i \in 1..n : sent[i] # "blank") ->
                    <<<<"open", 0, 0>>, <<"close", 0, 0>>>>
               [] OTHER -> <<>>
      BY <3>1, Zenon DEF LastLine
    <3> DEFINE clean == \A i \in 1..n : sent[i] # "blank"
               closing == <<<<"close", index, 0>>>>
               empty == <<<<"open", 0, 0>>, <<"close", 0, 0>>>>
               none == <<>>
    <3>3. LastLine(format, sent) =
             CASE format = "jsonl" -> none
               [] format = "openai" /\ index > 0 -> closing
               [] format = "openai" /\ index = 0 /\ clean -> empty
               [] OTHER -> none
      BY <3>2, Zenon
    <3> HIDE DEF clean, closing, empty, none
    <3>4. index > 0 <=> index # 0
      OBVIOUS
    <3>5. format = "jsonl" => LastLine(format, sent) = none
      BY <3>3, Zenon
    <3>6. format = "openai" /\ index > 0 => LastLine(format, sent) = closing
      BY <3>3, <3>4, Zenon
    <3>7. format = "openai" /\ ~(index > 0) /\ clean => LastLine(format, sent) = empty
      BY <3>3, <3>4, Zenon
    <3>8. format = "openai" /\ ~(index > 0) /\ ~clean => LastLine(format, sent) = none
      BY <3>3, <3>4, Zenon
    <3> QED
      BY <3>5, <3>6, <3>7, <3>8 DEF clean, closing, empty, none
  <2>2. CASE format = "jsonl"
    BY <1>1, <2>1, <2>2 DEF Finish
  <2>3. CASE format = "openai" /\ index > 0
    <3>1. doc.open /\ doc.tokens = index
      BY <1>6, <2>3
    <3>2. CloseDocument
      BY <2>3, <3>1 DEF Finish
    <3>3. pending' = <<>> \o <<<<"close", index, 0>>>>
      BY <3>1, <3>2 DEF CloseDocument
    <3>4. <<<<"close", index, 0>>>> \in Seq(Piece)
      BY PiecesAreASequence DEF PieceKinds
    <3>5. pending' = <<<<"close", index, 0>>>>
      BY <3>3, <3>4, OneAndOne
    <3> QED
      BY <2>1, <2>3, <3>5
  <2>4. CASE format = "openai" /\ ~(index > 0) /\ (\A i \in 1..n : sent[i] # "blank")
    <3>1. ~doc.open /\ doc.tokens = 0 /\ doc.batches = 0
      BY <1>6, <1>7, <2>4
    <3>2. CloseDocument
      BY <2>4, <3>1 DEF Finish
    <3>3. pending' = <<<<"open", 0, 0>>>> \o <<<<"close", 0, 0>>>>
      BY <3>1, <3>2 DEF CloseDocument
    <3>4. pending' = <<<<"open", 0, 0>>, <<"close", 0, 0>>>>
      BY <3>3, OneAndOne
    <3> QED
      BY <2>1, <2>4, <3>4
  <2>5. CASE format = "openai" /\ ~(index > 0) /\ ~(\A i \in 1..n : sent[i] # "blank")
    <3>1. ~doc.open /\ doc.batches # 0
      BY <1>6, <1>7, <2>5
    <3>2. pending' = pending
      BY <2>5, <3>1 DEF Finish
    <3> QED
      BY <1>1, <2>1, <2>5, <3>2
  <2> QED
    BY <1>1, <2>2, <2>3, <2>4, <2>5
<1>9. Produced' = Answered(format', sent', taken') \o LastLine(format', sent')
  <2>1. Produced' = Produced \o pending'
    BY <1>1, ProducedMore
  <2>2. Produced = Answered(format, sent, taken)
    BY <1>2, <1>3, <1>4 DEF Up
  <2> QED
    BY <1>1, <1>8, <2>1, <2>2
<1> QED
  BY <1>1, <1>9 DEF OutInv

\* The buffer is out: the run is over, or the chunk is.
LEMMA FlushedKeepsOut ==
    ASSUME TypeInv, StageInv, OutInv, Flushed
    PROVE  OutInv'
<1>1. /\ pc = "flushed" /\ pending = <<>> /\ buffer = <<>> /\ chunk' = <<>> /\ after' = after
      /\ UNCHANGED <<format, sent, eof, taken, at, doc, pending, buffer, out>> /\ Produced' = Produced
      /\ pc' = "exited" <=> after = "exit"
      /\ pc' \in {"exited", "flush", "read"}
  BY DEF Flushed, StageInv, Produced, caller
<1>2. CASE after = "exit"
  <2>1. Produced = Answered(format, sent, taken) \o LastLine(format, sent) /\ eof /\ taken = Len(sent)
    BY <1>1, <1>2 DEF OutInv, StageInv
  <2>2. Produced = out
    <3>1. out \in Seq(Piece)
      BY DEF TypeInv
    <3> QED
      BY <1>1, <3>1, OneAndOne DEF Produced
  <2>3. out = Transcript /\ Transcript' = Transcript
    BY <1>1, <2>1, <2>2 DEF Transcript
  <2>4. out' = Transcript' /\ Begins(out', Transcript')
    <3>1. Transcript \in Seq(Piece)
      BY ProducedType
    <3> QED
      BY <1>1, <2>3, <3>1, BeginsItself
  <2> QED
    BY <1>1, <1>2, <2>4 DEF OutInv
<1>3. CASE after # "exit"
  <2>1. PICK r \in 0..taken : Up(r)
    BY <1>1, <1>3 DEF OutInv
  <2>2. InChunk + 1..Len(chunk) = {}
    <3>1. InChunk = at /\ at \in Nat
      BY <1>1 DEF InChunk, TypeInv
    <3>2. Len(chunk) \in Nat /\ Len(chunk) <= at
      BY <1>1, <3>1 DEF StageInv, TypeInv
    <3> QED
      BY <3>1, <3>2
  <2>3. /\ \A i \in r + 1..taken : sent[i] # "record" /\ (sent[i] = "blank" => i = taken /\ after = "boundary")
        /\ after = "boundary" => r < taken /\ sent[taken] = "blank"
    BY <2>1, <2>2 DEF Up, Ahead
  <2>4. Len(chunk') = 0 /\ InChunk' = 0 /\ 1..0 = {} /\ 0 + 1..0 = {}
    BY <1>1, <1>3 DEF InChunk
  <2>5. Ahead(r)'
    BY <1>1, <2>3, <2>4 DEF Ahead
  <2>6. Up(r)'
    BY <1>1, <2>1, <2>5 DEF Up, DocIs
  <2>7. \E s \in 0..taken' : Up(s)'
    BY <1>1, <2>1, <2>6
  <2> QED
    BY <1>1, <1>3, <2>7 DEF OutInv
<1> QED
  BY <1>2, <1>3

\* A run that fails has written some of it.
LEMMA FailingKeepsOut ==
    ASSUME TypeInv, StageInv, OutInv, WriteFails \/ Dropped
    PROVE  OutInv'
<1>1. /\ UNCHANGED <<format, sent, eof, taken, out>> /\ pc # "exited" /\ pc' = "exited" /\ code' \in {code, 1}
  BY DEF WriteFails, Dropped, caller
<1>2. code' \notin {0, 2}
  BY <1>1 DEF StageInv
<1>3. Begins(out, Transcript) /\ Transcript' = Transcript
  BY <1>1, ProducedBegins DEF Transcript
<1>4. Begins(out', Transcript')
  BY <1>1, <1>3
<1> QED
  BY <1>1, <1>2, <1>4 DEF OutInv

LEMMA OutInvStep == TypeInv /\ StageInv /\ OutInv /\ [Next]_vars => OutInv'
<1> SUFFICES ASSUME TypeInv, StageInv, OutInv, [Next]_vars PROVE OutInv'
  OBVIOUS
<1>1. CASE UNCHANGED vars
  <2>1. /\ UNCHANGED <<format, sent, eof, taken, pc, after, chunk, at, doc, pending, buffer, out, code>>
        /\ Produced' = Produced /\ InChunk' = InChunk /\ Transcript' = Transcript
    BY <1>1 DEF vars, caller, Produced, InChunk, Transcript
  <2>2. \A r : Up(r) => Up(r)'
    BY <2>1, UpKept
  <2>3. pc' # "exited" /\ after' # "exit" => \E r \in 0..taken' : Up(r)'
    BY <2>1, <2>2 DEF OutInv
  <2>4. pc = "exited" => Begins(out', Transcript') /\ (code' \in {0, 2} => out' = Transcript')
    BY <2>1 DEF OutInv
  <2> QED
    BY <2>1, <2>3, <2>4 DEF OutInv
<1> QED
  BY <1>1, CallerKeepsOut, ReadLineKeepsOut, QuietKeepsOut, PassingKeepsOut, WriteRecordKeepsOut,
     BoundaryKeepsOut, FinishKeepsOut, FlushedKeepsOut, FailingKeepsOut DEF Next, Process

-----------------------------------------------------------------------------
(* Where the output is cut.                                                *)

\* What is handed to the BufWriter at once ends a line, and nothing is left in
\* it when the process reads or gives up.
LineInv ==
    /\ pc \in {"read", "flush", "drop"} => buffer = <<>>
    /\ format = "jsonl" /\ pc # "exited" => EndsALine(Produced)
    /\ format = "jsonl" /\ pc = "exited" /\ code # 1 => EndsALine(out)

\* Two pieces that end a line, or a newline alone, after what was produced.
LEMMA NewlineEndsALine ==
    ASSUME NEW s \in Seq(Piece), NEW t \in Seq(Piece), t # <<>>, t[Len(t)][1] = "newline"
    PROVE  EndsALine(s \o t)
<1>1. /\ Len(s) \in Nat /\ Len(t) \in Nat /\ Len(t) > 0 /\ Len(s \o t) = Len(s) + Len(t)
      /\ (s \o t)[Len(s) + Len(t)] = t[Len(t)]
  OBVIOUS
<1> QED
  BY <1>1 DEF EndsALine

\* What has nothing to hand over and keeps what it has.
LEMMA KeepsLines ==
    ASSUME LineInv, format' = format, pc # "exited", Produced' = Produced,
           pc' # "exited", pc' \in {"read", "flush", "drop"} => buffer' = <<>>
    PROVE  LineInv'
<1>1. format' = "jsonl" => EndsALine(Produced')
  BY DEF LineInv
<1>2. format' = "jsonl" /\ pc' # "exited" => EndsALine(Produced)'
  BY <1>1 DEF EndsALine
<1> QED
  BY <1>2 DEF LineInv

\* What hands something over.
LEMMA HandsOverLines ==
    ASSUME TypeInv, StageInv, LineInv, pc \in {"write", "flush"}, pc' = "emit",
           UNCHANGED <<format, out, buffer>>,
           format = "jsonl" => /\ pending' \in Seq(Piece)
                               /\ pending' = <<>> \/ pending'[Len(pending')][1] = "newline"
    PROVE  LineInv'
<1>1. pending = <<>> /\ out \o buffer \in Seq(Piece)
  BY PiecesAreASequence DEF StageInv, TypeInv
<1>2. Produced = out \o buffer /\ Produced' = (out \o buffer) \o pending'
  <2>1. (out \o buffer) \o <<>> = out \o buffer
    BY <1>1
  <2> QED
    BY <1>1, <2>1 DEF Produced
<1>3. ASSUME format = "jsonl" PROVE EndsALine(Produced')
  <2>1. CASE pending' = <<>>
    <3>1. Produced' = Produced
      <4>1. (out \o buffer) \o <<>> = out \o buffer
        BY <1>1
      <4> QED
        BY <1>2, <2>1, <4>1
    <3> QED
      BY <1>3, <3>1 DEF LineInv
  <2>2. CASE pending' # <<>>
    <3>1. EndsALine((out \o buffer) \o pending')
      BY <1>1, <1>3, <2>2, NewlineEndsALine
    <3> QED
      BY <1>2, <3>1
  <2> QED
    BY <2>1, <2>2
<1>4. EndsALine(Produced') => EndsALine(Produced)'
  BY DEF EndsALine
<1> QED
  BY <1>3, <1>4 DEF LineInv

LEMMA LineInvInit == Init => LineInv
<1> SUFFICES ASSUME Init PROVE LineInv
  OBVIOUS
<1>1. Produced = <<>> /\ buffer = <<>> /\ pc = "read"
  BY DEF Init, Produced
<1> QED
  BY <1>1 DEF LineInv, EndsALine

LEMMA LineInvStep == TypeInv /\ StageInv /\ LineInv /\ [Next]_vars => LineInv'
<1> SUFFICES ASSUME TypeInv, StageInv, LineInv, [Next]_vars PROVE LineInv'
  OBVIOUS
<1> DEFINE kept == UNCHANGED <<format, out, buffer, pending>>
<1>0. kept => Produced' = Produced
  BY DEF Produced
<1>1. CASE Send \/ CloseStdin \/ Hear \/ UNCHANGED vars
  <2>1. kept /\ UNCHANGED <<pc, code>>
    BY <1>1 DEF Send, CloseStdin, Hear, vars
  <2>2. CASE pc = "exited"
    BY <2>1, <2>2 DEF LineInv, EndsALine
  <2>3. CASE pc # "exited"
    BY <1>0, <2>1, <2>3, KeepsLines DEF LineInv
  <2> QED
    BY <2>2, <2>3
<1>2. CASE ReadLine \/ ReadEnd \/ Answer
  <2>1. kept /\ pc \in {"read", "flush"} /\ pc' # "exited"
    <3>1. ReadLine => kept /\ pc = "read" /\ pc' \in {"drop", "flush", "read"}
      BY DEF ReadLine, Fail
    <3>2. ReadEnd => kept /\ pc = "read" /\ pc' = "flush"
      BY DEF ReadEnd
    <3>3. Answer => kept /\ pc = "flush" /\ pc' \in {"write", "drop"}
      BY DEF Answer, Fail
    <3> QED
      BY <1>2, <3>1, <3>2, <3>3
  <2> QED
    BY <1>0, <2>1, KeepsLines DEF LineInv
<1>3. CASE FlushOutput \/ Emitted \/ Spilled
  <2>1. kept /\ pc \in {"write", "emit", "spill"} /\ pc' \in {"flushed", "write", "emit"}
    BY <1>3 DEF FlushOutput, Emitted, Spilled
  <2> QED
    BY <1>0, <2>1, KeepsLines
<1>4. CASE WriteRecord
  <2>1. /\ pc = "write" /\ pc' = "emit" /\ UNCHANGED <<format, out, buffer>>
        /\ at' \in 1..Len(chunk) /\ pending' = RecordPieces(chunk[at'])
    BY <1>4 DEF WriteRecord, TypeInv, caller
  <2>2. chunk[at'] \in Nat
    BY <2>1 DEF TypeInv
  <2>3. pending' \in Seq(Piece)
    BY <2>1, <2>2, RecordPiecesType
  <2>4. format = "jsonl" => pending'[Len(pending')][1] = "newline"
    BY <2>1 DEF RecordPieces
  <2> QED
    BY <2>1, <2>3, <2>4, HandsOverLines
<1>5. CASE Boundary \/ Finish
  <2>1. /\ pc = "flush" /\ pc' = "emit" /\ UNCHANGED <<format, out, buffer>>
        /\ format = "jsonl" => pending' \in {<<>>, <<<<"newline", 0, 0>>>>}
    BY <1>5 DEF Boundary, Finish, caller, StageInv
  <2>2. <<>> \in Seq(Piece) /\ <<<<"newline", 0, 0>>>> \in Seq(Piece)
    BY PiecesAreASequence DEF PieceKinds
  <2>3. format = "jsonl" => /\ pending' \in Seq(Piece)
                            /\ pending' = <<>> \/ pending'[Len(pending')][1] = "newline"
    <3> DEFINE line == <<<<"newline", 0, 0>>>>
    <3>1. Len(line) = 1 /\ line[1] = <<"newline", 0, 0>> /\ line[1][1] = "newline"
      OBVIOUS
    <3>2. line[Len(line)][1] = "newline"
      BY <3>1
    <3>3. line \in Seq(Piece)
      BY <2>2
    <3>4. format = "jsonl" => pending' \in {<<>>, line}
      BY <2>1
    <3> HIDE DEF line
    <3> QED
      BY <2>2, <3>2, <3>3, <3>4
  <2> QED
    BY <2>1, <2>3, HandsOverLines
<1>6. CASE Emit \/ WriteOut
  <2>1. /\ format' = format /\ pc \in {"emit", "spill", "flushed", "drop"} /\ pc' # "exited"
        /\ pc' \in {"read", "flush", "drop"} => pc = "drop"
    BY <1>6 DEF Emit, WriteOut
  <2>2. pc # "drop"
    BY <1>6 DEF Emit, WriteOut, LineInv
  <2>3. Produced' = Produced
    BY <1>6, PassingMoves
  <2> QED
    BY <2>1, <2>2, <2>3, KeepsLines
<1>7. CASE WriteFails
  <2>1. pc # "drop"
    BY <1>7 DEF WriteFails, LineInv
  <2> QED
    BY <1>7, <2>1 DEF WriteFails, LineInv
<1>8. CASE Flushed \/ Dropped
  <2>1. /\ kept /\ buffer = <<>> /\ pending = <<>> /\ pc # "exited"
    BY <1>8 DEF Flushed, Dropped, StageInv, caller
  <2>2. Produced = out
    <3>1. out \in Seq(Piece)
      BY DEF TypeInv
    <3> QED
      BY <2>1, <3>1, OneAndOne DEF Produced
  <2>3. format = "jsonl" => EndsALine(out')
    BY <2>1, <2>2 DEF LineInv
  <2>4. format' = "jsonl" /\ pc' = "exited" => EndsALine(out)'
    BY <2>1, <2>3 DEF EndsALine
  <2>5. pc' = "exited" => LineInv'
    BY <2>4 DEF LineInv
  <2>6. pc' # "exited" => LineInv'
    BY <1>0, <2>1, KeepsLines
  <2> QED
    BY <2>5, <2>6
<1> QED
  BY <1>1, <1>2, <1>3, <1>4, <1>5, <1>6, <1>7, <1>8 DEF Next, Process

\* A line is cut only on its way, or by a write that failed.
LEMMA LinesAreWhole ==
    ASSUME TypeInv, StageInv, LineInv, format = "jsonl", ~EndsALine(out)
    PROVE  pc \in Writing \/ (pc = "exited" /\ code = 1)
<1>1. CASE pc \in {"read", "flush", "drop"}
  <2>1. out \in Seq(Piece) /\ buffer = <<>> /\ pending = <<>>
    BY <1>1 DEF TypeInv, StageInv, LineInv
  <2>2. Produced = out
    BY <2>1, OneAndOne DEF Produced
  <2> QED
    BY <1>1, <2>2 DEF LineInv
<1>2. CASE pc = "exited"
  BY <1>2 DEF LineInv
<1>3. pc \in Stages
  BY DEF TypeInv
<1> QED
  BY <1>1, <1>2, <1>3 DEF Stages, Writing

\* Whatever is read in one go, buffered, or left in the pipe, stdout begins the
\* transcript of stdin, and is all of it when the run succeeds; and only a write
\* that failed leaves part of a line behind (drive, Writer, write_record).
THEOREM OutputIsATranscript == Spec => []OutputIsTheTranscript
<1>1. TypeInv /\ StageInv /\ OutInv /\ LineInv => OutputIsTheTranscript
  <2> SUFFICES ASSUME TypeInv, StageInv, OutInv, LineInv PROVE OutputIsTheTranscript
    OBVIOUS
  <2>1. out \in Seq(Piece) /\ Produced \in Seq(Piece) /\ Transcript \in Seq(Piece)
    BY ProducedType DEF TypeInv
  <2>2. Begins(Produced, Transcript)
    <3>1. CASE pc = "exited"
      <4>1. buffer = <<>> /\ pending = <<>> /\ Begins(out, Transcript)
        BY <3>1 DEF StageInv, OutInv
      <4>2. Produced = out
        BY <2>1, <4>1, OneAndOne DEF Produced
      <4> QED
        BY <4>1, <4>2
    <3>2. CASE pc # "exited"
      BY <3>2, ProducedBegins
    <3> QED
      BY <3>1, <3>2
  <2>3. IsPrefix(Produced, Transcript)
    BY <2>1, <2>2, BeginsIsPrefix
  <2>4. code \in {0, 2} => out = Transcript
    BY DEF StageInv, OutInv
  <2>5. format = "jsonl" /\ ~EndsALine(out) => pc \in Writing \/ (pc = "exited" /\ code = 1)
    BY LinesAreWhole
  <2> QED
    BY <2>3, <2>4, <2>5 DEF OutputIsTheTranscript, Produced
<1>2. Init => TypeInv /\ StageInv /\ OutInv /\ LineInv
  BY TypeInvInit, StageInvInit, OutInvInit, LineInvInit
<1>3. TypeInv /\ StageInv /\ OutInv /\ LineInv /\ [Next]_vars => (TypeInv /\ StageInv /\ OutInv /\ LineInv)'
  BY TypeInvStep, StageInvStep, OutInvStep, LineInvStep
<1> QED
  BY <1>1, <1>2, <1>3, PTL DEF Spec

=============================================================================
