\* The server exits: it may stop.
CHECK_DEADLOCK FALSE
SPECIFICATION RuntimeSpec
CONSTANTS
    Models = {"embedder", "reranker"}
    Callers = {c1, c2}
    MaxQueue = 1
    MaxRequests = 2
    NoModel = NoModel
    NoJob = NoJob
INVARIANTS HandlersAndAsksAgree CountsAddUp ExitCodeIsTrue
PROPERTIES ReplyInFlightFinishes NoRequestAfterStop StopEnds EmbeddingNeverWaitsForReranker DrainEnds
