\* The process exits, and a caller that keeps stdin open and sends nothing
\* leaves it waiting: the system may stop.
CHECK_DEADLOCK FALSE
SPECIFICATION Spec
CONSTANTS
    Formats = {"jsonl", "openai"}
    CHUNK_ROWS = 2
    BufferSize = 3
    PipeSize = 2
    MaxLines = 5
INVARIANTS OutputIsTheTranscript SummaryIsTrue
PROPERTY BatchIsAnswered
