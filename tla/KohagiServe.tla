---------------------------- MODULE KohagiServe ----------------------------
(***************************************************************************)
(* kohagi-serve around its models (ModelWorker): run and stop_reason of    *)
(* src/serve/mod.rs, the accept loop, the connections and the ordered stop *)
(* of src/serve/server.rs, the handlers of src/serve/http.rs and the       *)
(* counters of src/serve/counts.rs. A caller of a model is a connection's  *)
(* handler, so Callers is the set of connections clients may make.         *)
(*                                                                         *)
(* The runtime is single-threaded: what a future does between two awaits   *)
(* is one step. hyper's connection is modelled by what server.rs relies    *)
(* on: a request is read only between replies, a graceful shutdown closes  *)
(* a connection at once between requests and after the reply otherwise,    *)
(* and the handler's future is dropped when the client hangs up on it.     *)
(***************************************************************************)
EXTENDS ModelWorker, FiniteSets

CONSTANTS MaxRequests \* how many request heads the clients send, in all

ASSUME MaxRequestsIsNat == MaxRequests \in Nat
ASSUME CallersAreFinite == IsFiniteSet(Callers)

Embedder == "embedder"
Reranker == "reranker"

ASSUME ModelsAreTheTwo == Embedder \in Models /\ Models \subseteq {Embedder, Reranker}

VARIABLES main,      \* where run() is
          outcome,   \* what run() returns
          signal,    \* SIGTERM or SIGINT has reached the runtime
          stop,      \* the watch channel every connection holds a receiver of
          conn,      \* each connection, see Phases
          told,      \* graceful_shutdown was called on it
          want,      \* the model the request being read is for
          counts,    \* Counts, one text or document to a request
          arrived,   \* history: request heads read
          abandoned  \* history: handlers dropped before they answered

serveVars == <<main, outcome, signal, stop, conn, told, want, counts, arrived, abandoned>>
vars == <<workerVars, serveVars>>
restOfServe == <<main, outcome, signal, stop>>

\* backlog: in the kernel's queue, not accepted. fresh: spawned, not polled
\* yet. idle: between requests. body, ask: the handler reads the body, waits
\* for the model. reply: the reply is formed and being written.
Phases == {"absent", "backlog", "fresh", "idle", "body", "ask", "reply", "closed"}
Open == {"fresh", "idle", "body", "ask", "reply"}
Handling == {"body", "ask"}
In(phases) == {c \in Callers : conn[c] \in phases}

ServeInit ==
    /\ WorkerInit
    /\ main = "loading" /\ outcome = "none"
    /\ signal = FALSE /\ stop = FALSE
    /\ conn = [c \in Callers |-> "absent"]
    /\ told = [c \in Callers |-> FALSE]
    /\ want = [c \in Callers |-> NoModel]
    /\ counts = [requests |-> 0, rejected |-> 0, failed |-> 0, inputs |-> 0, scored |-> 0]
    /\ arrived = 0 /\ abandoned = 0

-----------------------------------------------------------------------------
(* run: load one model after the other, then listen, then serve.           *)

LoadStep(m) ==
    /\ main = "loading"
    /\ m = Reranker => handle[Embedder]
    /\ Load(m)
    /\ UNCHANGED serveVars

StartFails ==
    /\ main = "loading"
    /\ \E m \in Models : thread[m] = "dead"
    /\ main' = "exited" /\ outcome' = "err"
    /\ UNCHANGED <<workerVars, signal, stop, conn, told, want, counts, arrived, abandoned>>

\* Mutant: listen once the embedder is up, and let the reranker follow.
ServerStartEarly ==
    /\ main = "loading"
    /\ handle[Embedder]
    /\ \/ main' = "serving" /\ outcome' = outcome
       \/ main' = "exited" /\ outcome' = "err"
    /\ UNCHANGED <<workerVars, signal, stop, conn, told, want, counts, arrived, abandoned>>

ServerStart ==
    /\ main = "loading"
    /\ \A m \in Models : handle[m]
    /\ \/ main' = "serving" /\ outcome' = outcome
       \/ main' = "exited" /\ outcome' = "err"  \* the address could not be bound
    /\ UNCHANGED <<workerVars, signal, stop, conn, told, want, counts, arrived, abandoned>>

Listening == main \in {"serving", "paused", "draining"}

ShutdownSignal ==
    /\ Listening /\ ~signal
    /\ signal' = TRUE
    /\ UNCHANGED <<workerVars, main, outcome, stop, conn, told, want, counts, arrived, abandoned>>

-----------------------------------------------------------------------------
(* serve_until. Its select! is biased: a reason to stop is taken before    *)
(* another connection, and a signal before a dead thread.                  *)

Doomed == \E m \in Models : ~alive[m]

\* Mutant: whatever ends the server, run() returns Ok.
StopReasonAlwaysOk ==
    /\ main = "serving" /\ (signal \/ Doomed)
    /\ outcome' = "ok"
    /\ main' = "draining"
    /\ stop' = TRUE
    /\ UNCHANGED <<workerVars, signal, conn, told, want, counts, arrived, abandoned>>

StopReason ==
    /\ main = "serving" /\ (signal \/ Doomed)
    /\ outcome' = IF signal THEN "ok" ELSE "err"
    /\ main' = "draining"
    /\ stop' = TRUE  \* stop() runs on to its first await
    /\ UNCHANGED <<workerVars, signal, conn, told, want, counts, arrived, abandoned>>

Accept(c) ==
    /\ main = "serving" /\ ~signal /\ ~Doomed
    /\ conn[c] = "backlog"
    /\ conn' = [conn EXCEPT ![c] = "fresh"]
    /\ UNCHANGED <<workerVars, restOfServe, told, want, counts, arrived, abandoned>>

\* accept() failed: sleep 100 ms, and hear no reason to stop meanwhile.
AcceptFails ==
    /\ main = "serving" /\ ~signal /\ ~Doomed
    /\ main' = "paused"
    /\ UNCHANGED <<workerVars, outcome, signal, stop, conn, told, want, counts, arrived, abandoned>>

AcceptAgain ==
    /\ main = "paused"
    /\ main' = "serving"
    /\ UNCHANGED <<workerVars, outcome, signal, stop, conn, told, want, counts, arrived, abandoned>>

(* Server::stop, and the process's end. Dropping the listener resets what  *)
(* is still in its backlog.                                                *)

Drained ==
    /\ main = "draining" /\ In(Open) = {}
    /\ main' = "exited"
    /\ conn' = [c \in Callers |-> IF conn[c] = "backlog" THEN "closed" ELSE conn[c]]
    /\ UNCHANGED <<workerVars, outcome, signal, stop, told, want, counts, arrived, abandoned>>

\* Mutant: the timeout waits for the requests that are still with a model.
TimedOutPatiently ==
    /\ main = "draining" /\ In(Open) # {} /\ In({"ask"}) = {}
    /\ main' = "exited"
    /\ conn' = [c \in Callers |-> IF conn[c] \in Open \union {"backlog"} THEN "closed" ELSE conn[c]]
    /\ abandoned' = abandoned + Cardinality(In(Handling))
    /\ UNCHANGED <<workerVars, outcome, signal, stop, told, want, counts, arrived>>

\* abort_all drops every handler where it stands.
TimedOut ==
    /\ main = "draining" /\ In(Open) # {}
    /\ main' = "exited"
    /\ conn' = [c \in Callers |-> IF conn[c] \in Open \union {"backlog"} THEN "closed" ELSE conn[c]]
    /\ abandoned' = abandoned + Cardinality(In(Handling))
    /\ IF In({"ask"}) = {} THEN UNCHANGED workerVars ELSE Leave(In({"ask"}))
    /\ UNCHANGED <<outcome, signal, stop, told, want, counts, arrived>>

-----------------------------------------------------------------------------
(* A client connects, and hangs up whenever it likes.                      *)

Connect(c) ==
    /\ Listening /\ conn[c] = "absent"
    /\ conn' = [conn EXCEPT ![c] = "backlog"]
    /\ UNCHANGED <<workerVars, restOfServe, told, want, counts, arrived, abandoned>>

HangUp(c) ==
    /\ Listening /\ conn[c] \in Open \union {"backlog"}
    /\ conn' = [conn EXCEPT ![c] = "closed"]
    /\ abandoned' = IF conn[c] \in Handling THEN abandoned + 1 ELSE abandoned
    /\ IF conn[c] = "ask" THEN Leave({c}) ELSE UNCHANGED workerVars
    /\ UNCHANGED <<restOfServe, told, want, counts, arrived>>

-----------------------------------------------------------------------------
(* serve_connection.                                                       *)

\* The task's first poll: told already, if the stop came before it.
FirstPoll(c) ==
    /\ Listening /\ conn[c] = "fresh"
    /\ told' = [told EXCEPT ![c] = stop]
    /\ conn' = [conn EXCEPT ![c] = IF stop THEN "closed" ELSE "idle"]
    /\ UNCHANGED <<workerVars, restOfServe, want, counts, arrived, abandoned>>

\* Mutant: an ungraceful shutdown, of a connection with its reply half written.
ShutdownAtOnce(c) ==
    /\ Listening /\ conn[c] \in Open \ {"fresh"} /\ stop /\ ~told[c]
    /\ told' = [told EXCEPT ![c] = TRUE]
    /\ conn' = [conn EXCEPT ![c] = IF @ \in {"idle", "reply"} THEN "closed" ELSE @]
    /\ UNCHANGED <<workerVars, restOfServe, want, counts, arrived, abandoned>>

\* Mutant: only connections with a request out are told.
GracefulShutdownSkipsIdle(c) ==
    /\ Listening /\ conn[c] \in Open \ {"fresh", "idle"} /\ stop /\ ~told[c]
    /\ told' = [told EXCEPT ![c] = TRUE]
    /\ UNCHANGED <<workerVars, restOfServe, conn, want, counts, arrived, abandoned>>

\* shutdown.changed(): close between requests, else after the reply.
GracefulShutdown(c) ==
    /\ Listening /\ conn[c] \in Open \ {"fresh"} /\ stop /\ ~told[c]
    /\ told' = [told EXCEPT ![c] = TRUE]
    /\ conn' = [conn EXCEPT ![c] = IF @ = "idle" THEN "closed" ELSE @]
    /\ UNCHANGED <<workerVars, restOfServe, want, counts, arrived, abandoned>>

\* Mutant: keep-alive outlives the shutdown.
WrittenKeepsAlive(c) ==
    /\ Listening /\ conn[c] = "reply"
    /\ conn' = [conn EXCEPT ![c] = "idle"]
    /\ UNCHANGED <<workerVars, restOfServe, told, want, counts, arrived, abandoned>>

Written(c) ==
    /\ Listening /\ conn[c] = "reply"
    /\ conn' = [conn EXCEPT ![c] = IF told[c] THEN "closed" ELSE "idle"]
    /\ UNCHANGED <<workerVars, restOfServe, told, want, counts, arrived, abandoned>>

-----------------------------------------------------------------------------
(* handle: whatever route returned becomes a reply, and is counted.        *)

Counted(status) ==
    [counts EXCEPT !.requests = @ + 1,
                   !.rejected = @ + (IF status = "4xx" THEN 1 ELSE 0),
                   !.failed = @ + (IF status = "5xx" THEN 1 ELSE 0)]

\* reply.rs: what the outcome of an ask becomes.
StatusOf(answer) == IF answer = "ok" THEN "2xx" ELSE "5xx"

\* Mutant: the inputs are counted when they are asked about.
CountedAsk(m, answer) ==
    IF m = Embedder THEN [Counted(StatusOf(answer)) EXCEPT !.inputs = @ + 1]
                    ELSE [Counted(StatusOf(answer)) EXCEPT !.scored = @ + 1]

\* Counts::embedded and reranked, before saw, and only on an answer.
CountedAnswer(m, answer) ==
    LET c == Counted(StatusOf(answer))
    IN CASE answer # "ok" -> c
         [] answer = "ok" /\ m = Embedder -> [c EXCEPT !.inputs = @ + 1]
         [] OTHER -> [c EXCEPT !.scored = @ + 1]

\* A head is read and routed: GETs, wrong paths and methods are answered on
\* the spot, and so is /v1/rerank without a reranker, its body unread.
Route(c) ==
    /\ Listening /\ conn[c] = "idle" /\ arrived < MaxRequests
    /\ arrived' = arrived + 1
    /\ \/ \E status \in {"2xx", "4xx"} :
             /\ counts' = Counted(status)
             /\ conn' = [conn EXCEPT ![c] = "reply"]
             /\ UNCHANGED want
       \/ \E m \in Models :
             /\ want' = [want EXCEPT ![c] = m]
             /\ conn' = [conn EXCEPT ![c] = "body"]
             /\ UNCHANGED counts
    /\ UNCHANGED <<workerVars, restOfServe, told, abandoned>>

\* read_body, parse and validate said no (413 or 400); a body that broke off
\* is one more 400.
Refuse(c) ==
    /\ Listening /\ conn[c] = "body"
    /\ counts' = Counted("4xx")
    /\ conn' = [conn EXCEPT ![c] = "reply"]
    /\ UNCHANGED <<workerVars, restOfServe, told, want, arrived, abandoned>>

\* The body is whole and valid. From its last byte to try_send there is no
\* await, and a refusal of the queue's is answered on the spot.
AskModel(c) ==
    /\ Listening /\ conn[c] = "body"
    /\ Ask(c, want[c])
    /\ IF call'[c] = "waiting"
       THEN conn' = [conn EXCEPT ![c] = "ask"] /\ UNCHANGED counts
       ELSE conn' = [conn EXCEPT ![c] = "reply"] /\ counts' = CountedAnswer(want[c], call'[c])
    /\ UNCHANGED <<restOfServe, told, want, arrived, abandoned>>

Answered200or500(c) ==
    /\ Listening /\ conn[c] = "ask"
    /\ Receive(c)
    /\ counts' = CountedAnswer(asked[c], reply[c])
    /\ conn' = [conn EXCEPT ![c] = "reply"]
    /\ UNCHANGED <<restOfServe, told, want, arrived, abandoned>>

\* Mutant: one thread for both models.
ModelStepInTurn(m) ==
    /\ main # "exited"
    /\ \A n \in Models \ {m} : current[n] = NoJob
    /\ Work(m) \/ Die(m)
    /\ UNCHANGED serveVars

ModelStep(m) ==
    /\ main # "exited"
    /\ Work(m) \/ Die(m)
    /\ UNCHANGED serveVars

-----------------------------------------------------------------------------

MainStep == StopReason \/ AcceptAgain \/ Drained
Handler(c) == FirstPoll(c) \/ GracefulShutdown(c) \/ Answered200or500(c)
Client(c) == Written(c) \/ Refuse(c) \/ AskModel(c)

ServeNext ==
    \/ \E m \in Models : LoadStep(m) \/ ModelStep(m)
    \/ StartFails \/ ServerStart \/ ShutdownSignal \/ AcceptFails \/ MainStep \/ TimedOut
    \/ \E c \in Callers : \/ Connect(c) \/ HangUp(c) \/ Accept(c)
                          \/ Handler(c) \/ Client(c) \/ Route(c)

ServeSpec == ServeInit /\ [][ServeNext]_vars

\* The runtime polls what is ready and its timers fire.
RuntimeFairness ==
    /\ WF_vars(MainStep)
    /\ \A c \in Callers : WF_vars(Handler(c))

RuntimeSpec == ServeSpec /\ RuntimeFairness

\* What else a property may assume: the shutdown timer fires; the embedder's
\* thread finishes its forward passes; both threads do, and a client that has a
\* request out sends its body and reads its reply.
TimerFires == WF_vars(TimedOut)
EmbedderRuns == WF_vars(ModelStep(Embedder))
AllAnswer == /\ \A m \in Models : WF_vars(ModelStep(m))
             /\ \A c \in Callers : WF_vars(Client(c))

-----------------------------------------------------------------------------
(* Properties.                                                             *)

\* "Loading happens before listening ... no port is ever open for a model that
\* is not there": whenever clients can connect, every configured model is
\* loaded, and a connection in a handler's hands waits on the model if and
\* only if its ask is out (mod.rs, run; http.rs, handle).
HandlersAndAsksAgree ==
    /\ Listening => \A m \in Models : handle[m]
    /\ \A c \in Callers : conn[c] = "ask" <=> call[c] = "waiting"

\* Every request that arrived is counted once, is still being handled, or was
\* abandoned with its connection; and the ones counted as answered with
\* vectors or scores are not also counted as refused or failed.
CountsAddUp ==
    /\ arrived = counts.requests + abandoned + Cardinality(In(Handling))
    /\ counts.rejected + counts.failed + counts.inputs + counts.scored =< counts.requests

\* The ordered stop lets the reply in flight finish: while the server runs, a
\* connection in a handler's hands, or with its reply still being written, is
\* closed only by its client, by the timeout, or once the reply is out.
ReplyInFlightFinishes ==
    [][\A c \in Callers :
          conn[c] \in {"body", "ask", "reply"} /\ conn'[c] = "closed"
          => \/ HangUp(c)
             \/ TimedOut
             \/ conn[c] = "reply" /\ told[c]]_vars

\* Told to stop, a connection reads no further request.
NoRequestAfterStop ==
    [][\A c \in Callers : told[c] => ~(conn[c] \notin Handling /\ conn'[c] \in Handling)]_vars

\* Exit status 0 takes a signal; a model's thread that died without one, a
\* failed load or a failed bind is status 1 (mod.rs, run and stop_reason).
ExitCodeIsTrue ==
    main = "exited" =>
        \/ outcome = "ok" /\ signal
        \/ outcome = "err" /\ (Doomed \/ ~stop)

\* A signal, or a model's thread dying, ends the process: whatever a hung
\* forward pass, a client that never sends its body, or another accept()
\* failure is in the way.
StopEnds ==
    TimerFires => (Listening /\ (signal \/ Doomed) ~> main = "exited")

\* "A long rerank does not hold up a query's embedding" (PROTOCOL-http.md):
\* an embedding that was queued is answered although the reranker may never
\* finish what it is doing.
EmbeddingNeverWaitsForReranker ==
    EmbedderRuns =>
        \A c \in Callers : conn[c] = "ask" /\ asked[c] = Embedder ~> conn[c] # "ask"

\* Without the timeout's help: when the models answer and the clients take
\* their replies, an ordered stop ends by itself.
DrainEnds == AllAnswer => (main = "draining" ~> main = "exited")

=============================================================================
