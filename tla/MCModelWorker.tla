--------------------------- MODULE MCModelWorker ---------------------------
(* ModelWorker for TLC: one thread, four handlers and a queue of two, so   *)
(* that one job runs, two wait in order and a fourth is refused at once.   *)
EXTENDS WorkerService
=============================================================================
