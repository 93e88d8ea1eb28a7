---------------------------- MODULE ModelWorker ----------------------------
(***************************************************************************)
(* src/serve/worker.rs: the thread that owns a model, the bounded queue    *)
(* into it, and Handle::ask, the handlers' end. One such thread per loaded *)
(* model. An ask is three steps of two threads: the handler queues a job   *)
(* with the sending end of a oneshot in it, the model's thread fills the   *)
(* oneshot or drops it, the handler wakes and reads it. In between the     *)
(* handler may be dropped (its client left) and the thread may die.        *)
(***************************************************************************)
EXTENDS Naturals, Sequences

CONSTANTS Models,    \* the threads: the embedder's, and the reranker's if any
          Callers,   \* handlers; each has one question out at a time
          MaxQueue,  \* --max-queue: jobs that may wait for a model
          NoModel, NoJob

ASSUME MaxQueueIsPositive == MaxQueue \in Nat \ {0}
ASSUME NoModelIsNone == NoModel \notin Models
ASSUME NoJobIsNone == NoJob \notin Callers

VARIABLES thread,   \* where each model's thread is, see Stages
          handle,   \* spawn has returned Ok: there is a Handle to ask through
          queue,    \* the mpsc channel: jobs waiting, named by who asked
          open,     \* the thread still holds queue_rx
          current,  \* the job taken from the queue and not replied to
          alive,    \* the thread still holds alive_tx
          asked,    \* the model each caller asked last
          reply,    \* the oneshot of that ask, as its receiver will find it
          call      \* how that ask stands

workerVars == <<thread, handle, queue, open, current, alive, asked, reply, call>>

\* none: not spawned. forward: inside engine.answer. answered, erred: a result
\* is in hand. unwinding: a panic outside run_job. signalled: _alive is
\* dropped and queue_rx is not.
Stages == {"none", "loading", "idle", "forward", "answered", "erred",
           "unwinding", "signalled", "dead"}
Dying == {"unwinding", "signalled", "dead"}
Calls == {"idle", "waiting", "ok", "failed", "busy", "gone", "left"}
Replies == {"none", "ok", "failed", "gone"}

Jobs(m) == {queue[m][i] : i \in 1..Len(queue[m])} \union ({current[m]} \ {NoJob})

WorkerInit ==
    /\ thread = [m \in Models |-> "none"]
    /\ handle = [m \in Models |-> FALSE]
    /\ queue = [m \in Models |-> <<>>]
    /\ open = [m \in Models |-> TRUE]
    /\ current = [m \in Models |-> NoJob]
    /\ alive = [m \in Models |-> TRUE]
    /\ asked = [r \in Callers |-> NoModel]
    /\ reply = [r \in Callers |-> "none"]
    /\ call = [r \in Callers |-> "idle"]

-----------------------------------------------------------------------------
(* spawn: start the thread, and wait for it to load.                       *)

Spawn(m) ==
    /\ thread[m] = "none"
    /\ thread' = [thread EXCEPT ![m] = "loading"]
    /\ UNCHANGED <<handle, queue, open, current, alive, asked, reply, call>>

LoadOk(m) ==
    /\ thread[m] = "loading"
    /\ thread' = [thread EXCEPT ![m] = "idle"]
    /\ UNCHANGED <<handle, queue, open, current, alive, asked, reply, call>>

\* load() returned an error, or panicked: either way the thread ends.
LoadFails(m) ==
    /\ thread[m] = "loading"
    /\ thread' = [thread EXCEPT ![m] = "dead"]
    /\ alive' = [alive EXCEPT ![m] = FALSE]
    /\ open' = [open EXCEPT ![m] = FALSE]
    /\ UNCHANGED <<handle, queue, current, asked, reply, call>>

\* loaded_rx.recv() brought Ok: the caller of spawn has the Handle.
Spawned(m) ==
    /\ thread[m] = "idle" /\ ~handle[m]
    /\ handle' = [handle EXCEPT ![m] = TRUE]
    /\ UNCHANGED <<thread, queue, open, current, alive, asked, reply, call>>

-----------------------------------------------------------------------------
(* Handle::ask. try_send looks for a closed channel before a full one.     *)

Free(r) == call[r] \notin {"waiting", "left"}

\* Mutant: a queue of MaxQueue that takes one job more.
TrySendOneTooMany(r, m) ==
    /\ asked' = [asked EXCEPT ![r] = m]
    /\ call' = [call EXCEPT ![r] = CASE ~open[m] -> "gone"
                                     [] open[m] /\ Len(queue[m]) > MaxQueue -> "busy"
                                     [] OTHER -> "waiting"]
    /\ queue' = IF call'[r] = "waiting"
                THEN [queue EXCEPT ![m] = Append(@, r)]
                ELSE queue

TrySend(r, m) ==
    /\ asked' = [asked EXCEPT ![r] = m]
    /\ call' = [call EXCEPT ![r] = CASE ~open[m] -> "gone"
                                     [] open[m] /\ Len(queue[m]) >= MaxQueue -> "busy"
                                     [] OTHER -> "waiting"]
    /\ queue' = IF call'[r] = "waiting"
                THEN [queue EXCEPT ![m] = Append(@, r)]
                ELSE queue

Ask(r, m) ==
    /\ handle[m] /\ Free(r)
    /\ TrySend(r, m)
    /\ UNCHANGED <<thread, handle, open, current, alive, reply>>

\* answer.await: a value, or the news that the sending end was dropped.
Receive(r) ==
    /\ call[r] = "waiting" /\ reply[r] # "none"
    /\ call' = [call EXCEPT ![r] = reply[r]]
    /\ reply' = [reply EXCEPT ![r] = "none"]
    /\ UNCHANGED <<thread, handle, queue, open, current, alive, asked>>

\* The handlers' futures are dropped while they wait, and the receiving ends
\* with them. Their jobs stay where they are.
Leave(R) ==
    /\ R # {} /\ \A r \in R : call[r] = "waiting"
    /\ call' = [r \in Callers |-> IF r \in R THEN "left" ELSE call[r]]
    /\ reply' = [r \in Callers |-> IF r \in R THEN "none" ELSE reply[r]]
    /\ UNCHANGED <<thread, handle, queue, open, current, alive, asked>>

-----------------------------------------------------------------------------
(* The thread's loop.                                                      *)

\* Mutant: the newest job first.
TakeNewest(m) ==
    /\ thread[m] = "idle" /\ queue[m] # <<>>
    /\ thread' = [thread EXCEPT ![m] = "forward"]
    /\ current' = [current EXCEPT ![m] = queue[m][Len(queue[m])]]
    /\ queue' = [queue EXCEPT ![m] = SubSeq(@, 1, Len(@) - 1)]
    /\ UNCHANGED <<handle, open, alive, asked, reply, call>>

\* blocking_recv: the job leaves the queue, and its place is free at once.
Take(m) ==
    /\ thread[m] = "idle" /\ queue[m] # <<>>
    /\ thread' = [thread EXCEPT ![m] = "forward"]
    /\ current' = [current EXCEPT ![m] = Head(queue[m])]
    /\ queue' = [queue EXCEPT ![m] = Tail(@)]
    /\ UNCHANGED <<handle, open, alive, asked, reply, call>>

\* run_job: an error and a caught panic are both this job's Err.
RunJob(m) ==
    /\ thread[m] = "forward"
    /\ \E result \in {"answered", "erred"} :
          thread' = [thread EXCEPT ![m] = result]
    /\ UNCHANGED <<handle, queue, open, current, alive, asked, reply, call>>

\* The oneshots of the jobs in J resolve to v, where someone still listens.
Resolve(J, v) ==
    reply' = [r \in Callers |-> IF r \in J /\ call[r] = "waiting" THEN v ELSE reply[r]]

\* Mutant: every error is reported as the thread's death.
SendErrorAsGone(m) ==
    /\ thread[m] \in {"answered", "erred"}
    /\ Resolve({current[m]}, IF thread[m] = "answered" THEN "ok" ELSE "gone")
    /\ thread' = [thread EXCEPT ![m] = "idle"]
    /\ current' = [current EXCEPT ![m] = NoJob]
    /\ UNCHANGED <<handle, queue, open, alive, asked, call>>

Send(m) ==
    /\ thread[m] \in {"answered", "erred"}
    /\ Resolve({current[m]}, IF thread[m] = "answered" THEN "ok" ELSE "failed")
    /\ thread' = [thread EXCEPT ![m] = "idle"]
    /\ current' = [current EXCEPT ![m] = NoJob]
    /\ UNCHANGED <<handle, queue, open, alive, asked, call>>

\* The line an error is logged with goes through eprintln!, which panics when
\* stderr cannot be written, outside run_job's catch_unwind. Unwinding drops
\* the job, and with it the sending end of its oneshot.
LogPanics(m) ==
    /\ thread[m] = "erred"
    /\ Resolve({current[m]}, "gone")
    /\ thread' = [thread EXCEPT ![m] = "unwinding"]
    /\ current' = [current EXCEPT ![m] = NoJob]
    /\ UNCHANGED <<handle, queue, open, alive, asked, call>>

\* The closure's locals go first, _alive among them ...
DropAlive(m) ==
    /\ thread[m] = "unwinding"
    /\ thread' = [thread EXCEPT ![m] = "signalled"]
    /\ alive' = [alive EXCEPT ![m] = FALSE]
    /\ UNCHANGED <<handle, queue, open, current, asked, reply, call>>

\* Mutant: the jobs in the queue are thrown away, their oneshots left pending.
DropQueueUnresolved(m) ==
    /\ thread[m] = "signalled"
    /\ thread' = [thread EXCEPT ![m] = "dead"]
    /\ open' = [open EXCEPT ![m] = FALSE]
    /\ queue' = [queue EXCEPT ![m] = <<>>]
    /\ UNCHANGED <<handle, current, alive, asked, reply, call>>

\* Mutant: the channel is closed and keeps the jobs in it.
CloseQueueOnly(m) ==
    /\ thread[m] = "signalled"
    /\ thread' = [thread EXCEPT ![m] = "dead"]
    /\ open' = [open EXCEPT ![m] = FALSE]
    /\ UNCHANGED <<handle, queue, current, alive, asked, reply, call>>

\* ... and what it captured after them: dropping queue_rx closes the channel
\* and drops every job still in it.
DropQueue(m) ==
    /\ thread[m] = "signalled"
    /\ thread' = [thread EXCEPT ![m] = "dead"]
    /\ open' = [open EXCEPT ![m] = FALSE]
    /\ Resolve(Jobs(m), "gone")
    /\ queue' = [queue EXCEPT ![m] = <<>>]
    /\ UNCHANGED <<handle, current, alive, asked, call>>

-----------------------------------------------------------------------------

Load(m) == Spawn(m) \/ LoadOk(m) \/ LoadFails(m) \/ Spawned(m)
Work(m) == Take(m) \/ RunJob(m) \/ Send(m) \/ LogPanics(m)
Die(m) == DropAlive(m) \/ DropQueue(m)

WorkerNext ==
    \/ \E m \in Models : Load(m) \/ Work(m) \/ Die(m)
    \/ \E r \in Callers : Receive(r) \/ \E m \in Models : Ask(r, m)
    \/ \E R \in SUBSET Callers : Leave(R)

WorkerSpec == WorkerInit /\ [][WorkerNext]_workerVars

\* A spawned thread runs; a forward pass ends; a handler whose oneshot has
\* resolved is polled.
WorkerFairness ==
    /\ \A m \in Models : WF_workerVars(Work(m)) /\ WF_workerVars(Die(m))
    /\ \A r \in Callers : WF_workerVars(Receive(r))

FairWorkerSpec == WorkerSpec /\ WorkerFairness

-----------------------------------------------------------------------------
(* Properties.                                                             *)

TypeOK ==
    /\ thread \in [Models -> Stages]
    /\ handle \in [Models -> BOOLEAN]
    /\ queue \in [Models -> Seq(Callers)]
    /\ \A m \in Models : Len(queue[m]) =< MaxQueue
    /\ open \in [Models -> BOOLEAN]
    /\ current \in [Models -> Callers \union {NoJob}]
    /\ alive \in [Models -> BOOLEAN]
    /\ asked \in [Callers -> Models \union {NoModel}]
    /\ reply \in [Callers -> Replies]
    /\ call \in [Callers -> Calls]

\* No handler is forgotten: one that waits has its job with the model it
\* asked, or has something to wake up to. A thread that died, a job dropped in
\* an unwinding or left in a closed queue would otherwise hang a request.
NoOneForgotten ==
    \A r \in Callers :
        call[r] = "waiting" => \/ asked[r] \in Models /\ r \in Jobs(asked[r])
                               \/ reply[r] # "none"

\* The 500 that says "the model's thread is gone; this server is shutting
\* down" (reply.rs) is true whenever it is sent: the thread asked is on its
\* way out, and will not come back.
GoneIsTrue ==
    \A r \in Callers :
        call[r] = "gone" \/ reply[r] = "gone" =>
            asked[r] \in Models /\ thread[asked[r]] \in Dying

\* Every ask returns: an answer, an error, or the news that nobody will
\* answer, whatever fails along the way.
EveryAskReturns == \A r \in Callers : call[r] = "waiting" ~> call[r] # "waiting"

=============================================================================
