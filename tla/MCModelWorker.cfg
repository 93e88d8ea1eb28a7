\* A failed load ends the thread, and a thread whose callers have all left waits
\* for ever: the system may stop.
CHECK_DEADLOCK FALSE
SPECIFICATION FairWorkerSpec
CONSTANTS
    Models = {"embedder"}
    Model = "embedder"
    Callers = {r1, r2, r3, r4}
    MaxQueue = 2
    NoModel = NoModel
    NoJob = NoJob
INVARIANTS TypeOK NoOneForgotten GoneIsTrue
PROPERTIES EveryAskReturns ModelIsAService
