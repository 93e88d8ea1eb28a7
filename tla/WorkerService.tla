--------------------------- MODULE WorkerService ---------------------------
(***************************************************************************)
(* Each loaded model is a service of its own: ModelWorker keeps the        *)
(* promises of AskService model by model. In order, one at a time, never   *)
(* an answer after the first "gone", busy only when MaxQueue questions     *)
(* wait.                                                                   *)
(***************************************************************************)
EXTENDS ModelWorker

CONSTANT Model  \* the one that is looked at

ASSUME ModelIsLoaded == Model \in Models

\* The line is the job in the thread's hands and the ones in its queue.
Line == (IF current[Model] = NoJob THEN <<>> ELSE <<current[Model]>>) \o queue[Model]

Answered == [r \in Callers |-> IF asked[r] = Model THEN reply[r] ELSE "none"]

AskedOf == [r \in Callers |-> IF asked[r] = Model THEN call[r] ELSE "idle"]

Up == CASE ~open[Model] -> "closed"
        [] open[Model] /\ thread[Model] \in Dying -> "dying"
        [] OTHER -> "open"

Service == INSTANCE AskService WITH
    Capacity <- MaxQueue, line <- Line, answer <- Answered, call <- AskedOf, up <- Up

\* Handle::ask and the worker's loop are what AskService promises of each
\* model: accepted questions are answered in order and once, "busy" means
\* MaxQueue questions wait, and after the first "gone" nothing is answered.
ModelIsAService == Service!Spec

=============================================================================
