-------------------------- MODULE KohagiServeProofs --------------------------
(***************************************************************************)
(* The model threads, for any number of models, handlers and places in the *)
(* queue: no handler is forgotten, "gone" is said only of a thread that is *)
(* going, and each thread is an AskService.                                *)
(*                                                                         *)
(* The first two are not inductive as they stand. A job dropped in an      *)
(* unwinding must have been the job of a handler that asked this model and *)
(* has not been answered, or some other handler's answer would be          *)
(* overwritten; so the invariant says whose jobs the queues hold, that no  *)
(* job is there twice, and which stage of the thread holds one.            *)
(*                                                                         *)
(* Then the server around them, for any number of connections and requests *)
(* too: it keeps its models' threads to their own specification, so what   *)
(* is proved of them alone holds while connections come, hang up and are   *)
(* aborted; a handler waits exactly while its ask is out; the counters add *)
(* up; and the exit status is what stop_reason promises.                   *)
(*                                                                         *)
(* And the socket, for any number of kohagi-serve processes on one path:   *)
(* the lock is what keeps a live server's socket at its path; and when     *)
(* others leave the path alone between the system calls of one start or    *)
(* Drop, nothing but a stale socket or the server's own is ever removed, a *)
(* server that stopped in order leaves nothing behind, and a crash never   *)
(* costs the next start.                                                   *)
(***************************************************************************)
EXTENDS KohagiServe, WorkerService, UnixSocket, FiniteSetTheorems, TLAPS

-----------------------------------------------------------------------------
(* The threads.                                                            *)

Waiting(m) == {queue[m][i] : i \in 1..Len(queue[m])}

\* A thread has a job in its hands from the queue to the reply, and then only.
StageHoldsJob ==
    \A m \in Models : current[m] # NoJob <=> thread[m] \in {"forward", "answered", "erred"}

\* A job's handler asked this model and has nothing to wake up to, or has left.
JobsStand ==
    \A m \in Models : \A r \in Callers :
        r \in Waiting(m) \/ r = current[m] =>
            \/ call[r] = "left"
            \/ call[r] = "waiting" /\ asked[r] = m /\ reply[r] = "none"

NoJobTwice ==
    \A m \in Models :
        /\ \A i, j \in 1..Len(queue[m]) : queue[m][i] = queue[m][j] => i = j
        /\ current[m] \notin Waiting(m)

\* An answer is there only for a handler that waits for it.
RepliesAwaited == \A r \in Callers : reply[r] # "none" => call[r] = "waiting"

ClosedIsDying == \A m \in Models : ~open[m] => thread[m] \in Dying

WorkerInv == /\ TypeOK
             /\ StageHoldsJob /\ JobsStand /\ NoJobTwice /\ RepliesAwaited /\ ClosedIsDying
             /\ NoOneForgotten /\ GoneIsTrue

-----------------------------------------------------------------------------

\* Before any thread is spawned nobody waits and no queue holds a job.
LEMMA InitInv == WorkerInit => WorkerInv
<1> USE MaxQueueIsPositive, NoModelIsNone, NoJobIsNone
<1> SUFFICES ASSUME WorkerInit PROVE WorkerInv
  OBVIOUS
<1> USE DEF WorkerInit
<1>1. TypeOK
  BY DEF TypeOK, Stages, Replies, Calls
<1>2. StageHoldsJob /\ JobsStand /\ NoJobTwice /\ RepliesAwaited /\ ClosedIsDying
  BY DEF StageHoldsJob, JobsStand, NoJobTwice, Waiting, RepliesAwaited, ClosedIsDying
<1>3. NoOneForgotten /\ GoneIsTrue
  BY DEF NoOneForgotten, GoneIsTrue
<1> QED
  BY <1>1, <1>2, <1>3 DEF WorkerInv

\* Every step keeps the types, and try_send and blocking_recv the queue's bound.
LEMMA TypeStep == TypeOK /\ [WorkerNext]_workerVars => TypeOK'
<1> USE MaxQueueIsPositive, NoModelIsNone, NoJobIsNone
<1> SUFFICES ASSUME TypeOK, [WorkerNext]_workerVars PROVE TypeOK'
  OBVIOUS
<1> USE DEF TypeOK, Stages, Replies, Calls
<1>1. ASSUME NEW m \in Models, Load(m) PROVE TypeOK'
  BY <1>1 DEF Load, Spawn, LoadOk, LoadFails, Spawned
<1>2. ASSUME NEW m \in Models, Take(m) PROVE TypeOK'
  BY <1>2 DEF Take
<1>3. ASSUME NEW m \in Models, RunJob(m) PROVE TypeOK'
  BY <1>3 DEF RunJob
<1>4. ASSUME NEW m \in Models, Send(m) PROVE TypeOK'
  BY <1>4 DEF Send, Resolve
<1>5. ASSUME NEW m \in Models, LogPanics(m) PROVE TypeOK'
  BY <1>5 DEF LogPanics, Resolve
<1>6. ASSUME NEW m \in Models, Die(m) PROVE TypeOK'
  <2>1. CASE DropAlive(m)
    BY <2>1 DEF DropAlive
  <2>2. CASE DropQueue(m)
    BY <2>2 DEF DropQueue, Resolve
  <2> QED
    BY <1>6, <2>1, <2>2 DEF Die
<1>7. ASSUME NEW r \in Callers, Receive(r) PROVE TypeOK'
  BY <1>7 DEF Receive
<1>8. ASSUME NEW r \in Callers, NEW m \in Models, Ask(r, m) PROVE TypeOK'
  BY <1>8 DEF Ask, TrySend, Free
<1>9. ASSUME NEW R \in SUBSET Callers, Leave(R) PROVE TypeOK'
  BY <1>9 DEF Leave
<1>10. CASE UNCHANGED workerVars
  BY <1>10 DEF workerVars
<1> QED
  BY <1>1, <1>2, <1>3, <1>4, <1>5, <1>6, <1>7, <1>8, <1>9, <1>10 DEF WorkerNext, Work

\* Only blocking_recv takes a job in hand; sending the reply, or unwinding past
\* it, lets it go.
LEMMA StageStep == WorkerInv /\ [WorkerNext]_workerVars => StageHoldsJob'
<1> USE MaxQueueIsPositive, NoModelIsNone, NoJobIsNone
<1> SUFFICES ASSUME WorkerInv, [WorkerNext]_workerVars PROVE StageHoldsJob'
  OBVIOUS
<1> USE DEF WorkerInv, TypeOK, StageHoldsJob
<1>1. ASSUME NEW m \in Models, Load(m) PROVE StageHoldsJob'
  BY <1>1 DEF Load, Spawn, LoadOk, LoadFails, Spawned
<1>2. ASSUME NEW m \in Models, Take(m) PROVE StageHoldsJob'
  BY <1>2 DEF Take
<1>3. ASSUME NEW m \in Models, RunJob(m) PROVE StageHoldsJob'
  BY <1>3 DEF RunJob
<1>4. ASSUME NEW m \in Models, Send(m) PROVE StageHoldsJob'
  BY <1>4 DEF Send, Resolve
<1>5. ASSUME NEW m \in Models, LogPanics(m) PROVE StageHoldsJob'
  BY <1>5 DEF LogPanics, Resolve
<1>6. ASSUME NEW m \in Models, DropAlive(m) PROVE StageHoldsJob'
  BY <1>6 DEF DropAlive
<1>7. ASSUME NEW m \in Models, DropQueue(m) PROVE StageHoldsJob'
  BY <1>7 DEF DropQueue, Resolve, Jobs
<1>8. ASSUME NEW r \in Callers, Receive(r) PROVE StageHoldsJob'
  BY <1>8 DEF Receive
<1>9. ASSUME NEW r \in Callers, NEW m \in Models, Ask(r, m) PROVE StageHoldsJob'
  BY <1>9 DEF Ask, TrySend, Free
<1>10. ASSUME NEW R \in SUBSET Callers, Leave(R) PROVE StageHoldsJob'
  BY <1>10 DEF Leave
<1>11. CASE UNCHANGED workerVars
  BY <1>11 DEF workerVars
<1> QED
  BY <1>1, <1>2, <1>3, <1>4, <1>5, <1>6, <1>7, <1>8, <1>9, <1>10, <1>11 DEF WorkerNext, Work, Die

\* No step answers a job that is still in line or moves it to another model;
\* its handler may leave meanwhile.
LEMMA JobsStep == WorkerInv /\ [WorkerNext]_workerVars => JobsStand'
<1> USE MaxQueueIsPositive, NoModelIsNone, NoJobIsNone
<1> SUFFICES ASSUME WorkerInv, [WorkerNext]_workerVars PROVE JobsStand'
  OBVIOUS
<1> USE DEF WorkerInv, TypeOK, StageHoldsJob, JobsStand, NoJobTwice, Waiting, RepliesAwaited
<1>1. ASSUME NEW m \in Models, Load(m) PROVE JobsStand'
  BY <1>1 DEF Load, Spawn, LoadOk, LoadFails, Spawned
<1>2. ASSUME NEW m \in Models, Take(m) PROVE JobsStand'
  BY <1>2 DEF Take
<1>3. ASSUME NEW m \in Models, RunJob(m) PROVE JobsStand'
  BY <1>3 DEF RunJob
<1>4. ASSUME NEW m \in Models, Send(m) PROVE JobsStand'
  BY <1>4 DEF Send, Resolve
<1>5. ASSUME NEW m \in Models, LogPanics(m) PROVE JobsStand'
  BY <1>5 DEF LogPanics, Resolve
<1>6. ASSUME NEW m \in Models, DropAlive(m) PROVE JobsStand'
  BY <1>6 DEF DropAlive
<1>7. ASSUME NEW m \in Models, DropQueue(m) PROVE JobsStand'
  <2> SUFFICES ASSUME NEW n \in Models, NEW r \in Callers,
                      r \in Waiting(n)' \/ r = current'[n]
               PROVE \/ call'[r] = "left"
                     \/ call'[r] = "waiting" /\ asked'[r] = n /\ reply'[r] = "none"
    OBVIOUS
  <2>1. current' = current /\ call' = call /\ asked' = asked /\ current[m] = NoJob
    BY <1>7 DEF DropQueue
  <2>2. n # m
    BY <1>7, <2>1 DEF DropQueue
  <2>3. r \in Waiting(n) \/ r = current[n]
    BY <1>7, <2>1, <2>2 DEF DropQueue
  <2>4. call[r] = "waiting" => r \notin Jobs(m)
    BY <2>1, <2>2, <2>3 DEF Jobs
  <2>5. call[r] = "waiting" => reply'[r] = reply[r]
    BY <1>7, <2>4 DEF DropQueue, Resolve
  <2> QED
    BY <2>1, <2>3, <2>5
<1>8. ASSUME NEW r \in Callers, Receive(r) PROVE JobsStand'
  BY <1>8 DEF Receive
<1>9. ASSUME NEW r \in Callers, NEW m \in Models, Ask(r, m) PROVE JobsStand'
  BY <1>9 DEF Ask, TrySend, Free
<1>10. ASSUME NEW R \in SUBSET Callers, Leave(R) PROVE JobsStand'
  BY <1>10 DEF Leave
<1>11. CASE UNCHANGED workerVars
  BY <1>11 DEF workerVars
<1> QED
  BY <1>1, <1>2, <1>3, <1>4, <1>5, <1>6, <1>7, <1>8, <1>9, <1>10, <1>11 DEF WorkerNext, Work, Die

\* A handler asks again only when it was answered, so no job is queued twice.
LEMMA OnceStep == WorkerInv /\ [WorkerNext]_workerVars => NoJobTwice'
<1> USE MaxQueueIsPositive, NoModelIsNone, NoJobIsNone
<1> SUFFICES ASSUME WorkerInv, [WorkerNext]_workerVars PROVE NoJobTwice'
  OBVIOUS
<1> USE DEF WorkerInv, TypeOK, StageHoldsJob, JobsStand, NoJobTwice, Waiting
<1>1. ASSUME NEW m \in Models, Load(m) PROVE NoJobTwice'
  BY <1>1 DEF Load, Spawn, LoadOk, LoadFails, Spawned
<1>2. ASSUME NEW m \in Models, Take(m) PROVE NoJobTwice'
  BY <1>2 DEF Take
<1>3. ASSUME NEW m \in Models, RunJob(m) PROVE NoJobTwice'
  BY <1>3 DEF RunJob
<1>4. ASSUME NEW m \in Models, Send(m) PROVE NoJobTwice'
  BY <1>4 DEF Send, Resolve
<1>5. ASSUME NEW m \in Models, LogPanics(m) PROVE NoJobTwice'
  BY <1>5 DEF LogPanics, Resolve
<1>6. ASSUME NEW m \in Models, DropAlive(m) PROVE NoJobTwice'
  BY <1>6 DEF DropAlive
<1>7. ASSUME NEW m \in Models, DropQueue(m) PROVE NoJobTwice'
  BY <1>7 DEF DropQueue, Resolve, Jobs
<1>8. ASSUME NEW r \in Callers, Receive(r) PROVE NoJobTwice'
  BY <1>8 DEF Receive
<1>9. ASSUME NEW r \in Callers, NEW m \in Models, Ask(r, m) PROVE NoJobTwice'
  BY <1>9 DEF Ask, TrySend, Free
<1>10. ASSUME NEW R \in SUBSET Callers, Leave(R) PROVE NoJobTwice'
  BY <1>10 DEF Leave
<1>11. CASE UNCHANGED workerVars
  BY <1>11 DEF workerVars
<1> QED
  BY <1>1, <1>2, <1>3, <1>4, <1>5, <1>6, <1>7, <1>8, <1>9, <1>10, <1>11 DEF WorkerNext, Work, Die

\* A oneshot is filled only while its receiver is there, and emptied by whoever
\* stops waiting.
LEMMA AwaitedStep == WorkerInv /\ [WorkerNext]_workerVars => RepliesAwaited'
<1> USE MaxQueueIsPositive, NoModelIsNone, NoJobIsNone
<1> SUFFICES ASSUME WorkerInv, [WorkerNext]_workerVars PROVE RepliesAwaited'
  OBVIOUS
<1> USE DEF WorkerInv, TypeOK, RepliesAwaited, Replies
<1>1. ASSUME NEW m \in Models, Load(m) PROVE RepliesAwaited'
  BY <1>1 DEF Load, Spawn, LoadOk, LoadFails, Spawned
<1>2. ASSUME NEW m \in Models, Take(m) PROVE RepliesAwaited'
  BY <1>2 DEF Take
<1>3. ASSUME NEW m \in Models, RunJob(m) PROVE RepliesAwaited'
  BY <1>3 DEF RunJob
<1>4. ASSUME NEW m \in Models, Send(m) PROVE RepliesAwaited'
  BY <1>4 DEF Send, Resolve
<1>5. ASSUME NEW m \in Models, LogPanics(m) PROVE RepliesAwaited'
  BY <1>5 DEF LogPanics, Resolve
<1>6. ASSUME NEW m \in Models, DropAlive(m) PROVE RepliesAwaited'
  BY <1>6 DEF DropAlive
<1>7. ASSUME NEW m \in Models, DropQueue(m) PROVE RepliesAwaited'
  BY <1>7 DEF DropQueue, Resolve, Jobs
<1>8. ASSUME NEW r \in Callers, Receive(r) PROVE RepliesAwaited'
  BY <1>8 DEF Receive
<1>9. ASSUME NEW r \in Callers, NEW m \in Models, Ask(r, m) PROVE RepliesAwaited'
  BY <1>9 DEF Ask, TrySend, Free
<1>10. ASSUME NEW R \in SUBSET Callers, Leave(R) PROVE RepliesAwaited'
  BY <1>10 DEF Leave
<1>11. CASE UNCHANGED workerVars
  BY <1>11 DEF workerVars
<1> QED
  BY <1>1, <1>2, <1>3, <1>4, <1>5, <1>6, <1>7, <1>8, <1>9, <1>10, <1>11 DEF WorkerNext, Work, Die

\* queue_rx is dropped with the thread and never before it.
LEMMA ClosedStep == WorkerInv /\ [WorkerNext]_workerVars => ClosedIsDying'
<1> USE MaxQueueIsPositive, NoModelIsNone, NoJobIsNone
<1> SUFFICES ASSUME WorkerInv, [WorkerNext]_workerVars PROVE ClosedIsDying'
  OBVIOUS
<1> USE DEF WorkerInv, TypeOK, ClosedIsDying, Dying
<1>1. ASSUME NEW m \in Models, Load(m) PROVE ClosedIsDying'
  BY <1>1 DEF Load, Spawn, LoadOk, LoadFails, Spawned
<1>2. ASSUME NEW m \in Models, Take(m) PROVE ClosedIsDying'
  BY <1>2 DEF Take
<1>3. ASSUME NEW m \in Models, RunJob(m) PROVE ClosedIsDying'
  BY <1>3 DEF RunJob
<1>4. ASSUME NEW m \in Models, Send(m) PROVE ClosedIsDying'
  BY <1>4 DEF Send, Resolve
<1>5. ASSUME NEW m \in Models, LogPanics(m) PROVE ClosedIsDying'
  BY <1>5 DEF LogPanics, Resolve
<1>6. ASSUME NEW m \in Models, DropAlive(m) PROVE ClosedIsDying'
  BY <1>6 DEF DropAlive
<1>7. ASSUME NEW m \in Models, DropQueue(m) PROVE ClosedIsDying'
  BY <1>7 DEF DropQueue, Resolve, Jobs
<1>8. ASSUME NEW r \in Callers, Receive(r) PROVE ClosedIsDying'
  BY <1>8 DEF Receive
<1>9. ASSUME NEW r \in Callers, NEW m \in Models, Ask(r, m) PROVE ClosedIsDying'
  BY <1>9 DEF Ask, TrySend, Free
<1>10. ASSUME NEW R \in SUBSET Callers, Leave(R) PROVE ClosedIsDying'
  BY <1>10 DEF Leave
<1>11. CASE UNCHANGED workerVars
  BY <1>11 DEF workerVars
<1> QED
  BY <1>1, <1>2, <1>3, <1>4, <1>5, <1>6, <1>7, <1>8, <1>9, <1>10, <1>11 DEF WorkerNext, Work, Die

\* A handler in wait stays in its queue, or its oneshot is filled.
LEMMA JobKept ==
    ASSUME WorkerInv, NEW r \in Callers, NEW m \in Models, r \in Jobs(m),
           queue' = queue, current' = current
    PROVE  r \in Jobs(m)'
BY DEF Jobs

\* Whatever takes a job out of a queue puts it in hand or resolves its oneshot.
LEMMA ForgottenStep == WorkerInv /\ [WorkerNext]_workerVars => NoOneForgotten'
<1> SUFFICES ASSUME WorkerInv, [WorkerNext]_workerVars, NEW r \in Callers, call'[r] = "waiting"
             PROVE  (asked[r] \in Models /\ r \in Jobs(asked[r]))' \/ reply'[r] # "none"
  BY DEF NoOneForgotten
<1> USE DEF WorkerInv
<1> DEFINE Safe == asked[r] \in Models /\ r \in Jobs(asked[r])
<1>1. call[r] = "waiting" => Safe \/ reply[r] # "none"
  BY DEF NoOneForgotten
<1>2. ASSUME queue' = queue, current' = current, asked' = asked, call' = call, reply' = reply
      PROVE  Safe' \/ reply'[r] # "none"
  BY <1>1, <1>2, JobKept
<1>3. ASSUME NEW m \in Models, Load(m) \/ RunJob(m) \/ DropAlive(m) PROVE Safe' \/ reply'[r] # "none"
  BY <1>2, <1>3 DEF Load, Spawn, LoadOk, LoadFails, Spawned, RunJob, DropAlive
<1>4. ASSUME NEW m \in Models, Take(m) PROVE Safe' \/ reply'[r] # "none"
  <2>1. /\ queue[m] \in Seq(Callers) /\ queue[m] # <<>> /\ current[m] = NoJob
        /\ queue' = [queue EXCEPT ![m] = Tail(queue[m])]
        /\ current' = [current EXCEPT ![m] = Head(queue[m])]
        /\ asked' = asked /\ call' = call /\ reply' = reply
    BY <1>4 DEF Take, TypeOK, StageHoldsJob
  <2>2. ASSUME NEW n \in Models, r \in Jobs(n) PROVE r \in Jobs(n)'
    <3>1. CASE n # m
      BY <2>1, <2>2, <3>1 DEF Jobs, TypeOK
    <3>2. CASE n = m
      <4>1. PICK i \in 1..Len(queue[m]) : r = queue[m][i]
        BY <2>1, <2>2, <3>2 DEF Jobs
      <4>2. CASE i = 1
        BY <2>1, <3>2, <4>1, <4>2, NoJobIsNone DEF Jobs, TypeOK
      <4>3. CASE i # 1
        <5>1. i - 1 \in 1..Len(Tail(queue[m])) /\ Tail(queue[m])[i - 1] = r
          BY <2>1, <4>1, <4>3
        <5>2. queue'[n] = Tail(queue[m])
          BY <2>1, <3>2 DEF TypeOK
        <5> QED
          BY <5>1, <5>2 DEF Jobs
      <4> QED
        BY <4>2, <4>3
    <3> QED
      BY <3>1, <3>2
  <2> QED
    BY <1>1, <2>1, <2>2
<1>5. ASSUME NEW m \in Models, Send(m) \/ LogPanics(m) PROVE Safe' \/ reply'[r] # "none"
  <2>1. /\ queue' = queue /\ current' = [current EXCEPT ![m] = NoJob]
        /\ asked' = asked /\ call' = call
        /\ reply'[r] = "none" => reply[r] = "none" /\ r # current[m]
    BY <1>5 DEF Send, LogPanics, Resolve, TypeOK
  <2>2. \A n \in Models : r \in Jobs(n) /\ r # current[m] => r \in Jobs(n)'
    BY <2>1 DEF Jobs, TypeOK
  <2> QED
    BY <1>1, <2>1, <2>2
<1>6. ASSUME NEW m \in Models, DropQueue(m) PROVE Safe' \/ reply'[r] # "none"
  <2>1. /\ queue' = [queue EXCEPT ![m] = <<>>] /\ current' = current
        /\ asked' = asked /\ call' = call
        /\ reply'[r] = "none" => reply[r] = "none" /\ r \notin Jobs(m)
    BY <1>6 DEF DropQueue, Resolve, TypeOK
  <2>2. \A n \in Models \ {m} : r \in Jobs(n) => r \in Jobs(n)'
    BY <2>1 DEF Jobs, TypeOK
  <2> QED
    BY <1>1, <2>1, <2>2
<1>7. ASSUME NEW s \in Callers, Receive(s) PROVE Safe' \/ reply'[r] # "none"
  <2>1. r # s
    BY <1>7 DEF Receive, TypeOK, Replies
  <2> QED
    BY <1>1, <1>7, <2>1, JobKept DEF Receive, TypeOK
<1>8. ASSUME NEW s \in Callers, NEW m \in Models, Ask(s, m) PROVE Safe' \/ reply'[r] # "none"
  <2>1. CASE r = s
    <3>1. asked'[r] = m /\ queue' = [queue EXCEPT ![m] = Append(queue[m], r)]
      BY <1>8, <2>1 DEF Ask, TrySend, TypeOK
    <3>2. r \in Jobs(m)'
      BY <3>1 DEF Jobs, TypeOK
    <3> QED
      BY <3>1, <3>2
  <2>2. CASE r # s
    <3>1. /\ asked'[r] = asked[r] /\ call'[r] = call[r] /\ reply' = reply /\ current' = current
          /\ queue' = queue \/ queue' = [queue EXCEPT ![m] = Append(queue[m], s)]
      BY <1>8, <2>2 DEF Ask, TrySend, TypeOK
    <3>2. ASSUME NEW n \in Models, r \in Jobs(n) PROVE r \in Jobs(n)'
      <4>1. CASE r = current[n] /\ r # NoJob
        BY <3>1, <4>1 DEF Jobs
      <4>2. CASE \E i \in 1..Len(queue[n]) : r = queue[n][i]
        <5>1. PICK i \in 1..Len(queue[n]) : r = queue[n][i]
          BY <4>2
        <5>2. queue[n] \in Seq(Callers) /\ queue'[n] \in {queue[n], Append(queue[n], s)}
          BY <3>1 DEF TypeOK
        <5>3. i \in 1..Len(queue'[n]) /\ queue'[n][i] = r
          BY <5>1, <5>2
        <5> QED
          BY <5>3 DEF Jobs
      <4> QED
        BY <3>2, <4>1, <4>2 DEF Jobs
    <3> QED
      BY <1>1, <3>1, <3>2
  <2> QED
    BY <2>1, <2>2
<1>9. ASSUME NEW R \in SUBSET Callers, Leave(R) PROVE Safe' \/ reply'[r] # "none"
  <2>1. r \notin R /\ call'[r] = call[r] /\ reply'[r] = reply[r]
    BY <1>9 DEF Leave
  <2> QED
    BY <1>1, <1>9, <2>1, JobKept DEF Leave
<1>10. CASE UNCHANGED workerVars
  BY <1>2, <1>10 DEF workerVars
<1> QED
  BY <1>3, <1>4, <1>5, <1>6, <1>7, <1>8, <1>9, <1>10 DEF WorkerNext, Work, Die

\* A oneshot resolves to "gone", and try_send finds the channel closed, only
\* when the thread is unwinding or past it; and no thread comes back from there.
LEMMA GoneStep == WorkerInv /\ [WorkerNext]_workerVars => GoneIsTrue'
<1> USE MaxQueueIsPositive, NoModelIsNone, NoJobIsNone
<1> SUFFICES ASSUME WorkerInv, [WorkerNext]_workerVars PROVE GoneIsTrue'
  OBVIOUS
<1> USE DEF WorkerInv, TypeOK, GoneIsTrue, JobsStand, Waiting, ClosedIsDying, Dying, RepliesAwaited
<1>1. ASSUME NEW m \in Models, Load(m) PROVE GoneIsTrue'
  <2>1. asked' = asked /\ call' = call /\ reply' = reply
    BY <1>1 DEF Load, Spawn, LoadOk, LoadFails, Spawned
  <2>2. \A n \in Models : thread[n] \in Dying => thread'[n] \in Dying
    BY <1>1 DEF Load, Spawn, LoadOk, LoadFails, Spawned
  <2> QED
    BY <2>1, <2>2
<1>2. ASSUME NEW m \in Models, Take(m) PROVE GoneIsTrue'
  BY <1>2 DEF Take
<1>3. ASSUME NEW m \in Models, RunJob(m) PROVE GoneIsTrue'
  BY <1>3 DEF RunJob
<1>4. ASSUME NEW m \in Models, Send(m) PROVE GoneIsTrue'
  BY <1>4 DEF Send, Resolve
<1>5. ASSUME NEW m \in Models, LogPanics(m) PROVE GoneIsTrue'
  BY <1>5 DEF LogPanics, Resolve
<1>6. ASSUME NEW m \in Models, DropAlive(m) PROVE GoneIsTrue'
  BY <1>6 DEF DropAlive
<1>7. ASSUME NEW m \in Models, DropQueue(m) PROVE GoneIsTrue'
  BY <1>7 DEF DropQueue, Resolve, Jobs
<1>8. ASSUME NEW r \in Callers, Receive(r) PROVE GoneIsTrue'
  BY <1>8 DEF Receive
<1>9. ASSUME NEW r \in Callers, NEW m \in Models, Ask(r, m) PROVE GoneIsTrue'
  BY <1>9 DEF Ask, TrySend, Free
<1>10. ASSUME NEW R \in SUBSET Callers, Leave(R) PROVE GoneIsTrue'
  BY <1>10 DEF Leave
<1>11. CASE UNCHANGED workerVars
  BY <1>11 DEF workerVars
<1> QED
  BY <1>1, <1>2, <1>3, <1>4, <1>5, <1>6, <1>7, <1>8, <1>9, <1>10, <1>11 DEF WorkerNext, Work, Die

-----------------------------------------------------------------------------
(* The theorems.                                                           *)

\* The invariant is inductive.
LEMMA InvStep == WorkerInv /\ [WorkerNext]_workerVars => WorkerInv'
BY TypeStep, StageStep, JobsStep, OnceStep, AwaitedStep, ClosedStep, ForgottenStep, GoneStep
   DEF WorkerInv

\* The strengthened invariant holds throughout; the three theorems below are
\* parts of it.
THEOREM WorkerInvariant == WorkerSpec => []WorkerInv
BY InitInv, InvStep, PTL DEF WorkerSpec

\* The queue into a model's thread never holds more than --max-queue jobs, and
\* every variable keeps its type (Handle::ask, worker.rs).
THEOREM WorkerTypeCorrect == WorkerSpec => []TypeOK
<1>1. WorkerInv => TypeOK
  BY DEF WorkerInv
<1> QED
  BY <1>1, WorkerInvariant, PTL

\* A handler that waits has its job with the thread it asked, or has something
\* to wake up to, whatever fails in the thread and whoever leaves.
THEOREM NoHandlerIsForgotten == WorkerSpec => []NoOneForgotten
<1>1. WorkerInv => NoOneForgotten
  BY DEF WorkerInv
<1> QED
  BY <1>1, WorkerInvariant, PTL

\* Whoever is told that the model's thread is gone was told the truth.
THEOREM GoneMeansDying == WorkerSpec => []GoneIsTrue
<1>1. WorkerInv => GoneIsTrue
  BY DEF WorkerInv
<1> QED
  BY <1>1, WorkerInvariant, PTL

-----------------------------------------------------------------------------
(* Each model's thread, its queue and the asks made of it implement        *)
(* AskService: a step of the thread is an answer to the head of the line,  *)
(* the close of it, or nothing the callers can tell, and an ask of another *)
(* model is a caller that goes off. Beyond the invariant above the mapping *)
(* needs that nobody asks before the model is loaded, and that queue_rx    *)
(* goes last.                                                              *)

\* There is a Handle only once the thread has loaded, and no job without one.
NobodyAsksTooEarly ==
    \A m \in Models : thread[m] \in {"none", "loading"} => ~handle[m] /\ queue[m] = <<>>

\* Only the last step of a thread drops queue_rx.
ClosedIsDead == \A m \in Models : ~open[m] => thread[m] = "dead"

ServiceInv == WorkerInv /\ NobodyAsksTooEarly /\ ClosedIsDead

\* Loading comes before the Handle, and dropping queue_rx after all else.
LEMMA EarlyAndLateStep ==
    ASSUME ServiceInv, [WorkerNext]_workerVars
    PROVE  NobodyAsksTooEarly' /\ ClosedIsDead'
<1> DEFINE Goal == NobodyAsksTooEarly' /\ ClosedIsDead'
<1> USE DEF ServiceInv, WorkerInv, TypeOK, NobodyAsksTooEarly, ClosedIsDead
<1>1. ASSUME NEW m \in Models, Load(m) PROVE Goal
  BY <1>1 DEF Load, Spawn, LoadOk, LoadFails, Spawned
<1>2. ASSUME NEW m \in Models, Work(m) PROVE Goal
  BY <1>2 DEF Work, Take, RunJob, Send, LogPanics
<1>3. ASSUME NEW m \in Models, Die(m) PROVE Goal
  BY <1>3 DEF Die, DropAlive, DropQueue
<1>4. ASSUME NEW r \in Callers, NEW m \in Models, Ask(r, m) PROVE Goal
  BY <1>4 DEF Ask, TrySend
<1>5. ASSUME NEW r \in Callers, Receive(r) PROVE Goal
  BY <1>5 DEF Receive
<1>6. ASSUME NEW R \in SUBSET Callers, Leave(R) PROVE Goal
  BY <1>6 DEF Leave
<1>7. CASE UNCHANGED workerVars
  BY <1>7 DEF workerVars
<1> QED
  BY <1>1, <1>2, <1>3, <1>4, <1>5, <1>6, <1>7 DEF WorkerNext

\* At first the line is empty and the service open.
LEMMA ServiceInit == WorkerInit => ServiceInv /\ Service!Init
<1> SUFFICES ASSUME WorkerInit PROVE ServiceInv /\ Service!Init
  OBVIOUS
<1>1. ServiceInv
  BY InitInv DEF ServiceInv, NobodyAsksTooEarly, ClosedIsDead, WorkerInit
<1>2. Line = <<>>
  BY ModelIsLoaded DEF WorkerInit, Line
<1>3. Answered = [r \in Callers |-> "none"] /\ AskedOf = [r \in Callers |-> "idle"]
  BY ModelIsLoaded, NoModelIsNone DEF WorkerInit, Answered, AskedOf
<1>4. Up = "open"
  BY ModelIsLoaded DEF WorkerInit, Up, Dying
<1> QED
  BY <1>1, <1>2, <1>3, <1>4 DEF Service!Init

-----------------------------------------------------------------------------

serviceView == <<Line, Answered, AskedOf, Up>>

\* What a thread does before and after its jobs, and the forward pass, is
\* nothing the callers can tell.
LEMMA QuietStep ==
    ASSUME ServiceInv, NEW m \in Models,
           Spawn(m) \/ LoadOk(m) \/ Spawned(m) \/ RunJob(m) \/ DropAlive(m)
    PROVE  UNCHANGED serviceView
<1>1. UNCHANGED <<queue, open, current, asked, reply, call>>
  BY DEF Spawn, LoadOk, Spawned, RunJob, DropAlive
<1>2. (thread[Model] \in Dying)' <=> thread[Model] \in Dying
  BY ModelIsLoaded DEF ServiceInv, WorkerInv, TypeOK, Stages, Dying, Spawn, LoadOk, Spawned, RunJob, DropAlive
<1>3. Line' = Line /\ Answered' = Answered /\ AskedOf' = AskedOf
  BY <1>1 DEF Line, Answered, AskedOf
<1>4. Up' = Up
  BY <1>1, <1>2 DEF Up
<1> QED
  BY <1>3, <1>4 DEF serviceView

\* blocking_recv moves the head of the queue into the thread's hands: the line
\* stays as it is.
LEMMA TakeStep ==
    ASSUME ServiceInv, NEW m \in Models, Take(m)
    PROVE  UNCHANGED serviceView
<1> USE ModelIsLoaded, NoJobIsNone DEF ServiceInv, WorkerInv, TypeOK
<1>1. UNCHANGED <<open, asked, reply, call>>
  BY DEF Take
<1>2. Line' = Line
  <2>1. CASE m = Model
    <3>1. current[m] = NoJob /\ queue[m] \in Seq(Callers) /\ queue[m] # <<>>
      BY DEF Take, StageHoldsJob
    <3>2. Head(queue[m]) \in Callers /\ queue[m] = <<Head(queue[m])>> \o Tail(queue[m])
      BY <3>1
    <3>3. current'[m] = Head(queue[m]) /\ queue'[m] = Tail(queue[m]) /\ current'[m] # NoJob
      BY <3>2 DEF Take
    <3>4. <<>> \o queue[m] = queue[m]
      BY <3>1
    <3> QED
      BY <2>1, <3>1, <3>2, <3>3, <3>4 DEF Line
  <2>2. CASE m # Model
    BY <2>2 DEF Take, Line
  <2> QED
    BY <2>1, <2>2
<1>3. Answered' = Answered /\ AskedOf' = AskedOf
  BY <1>1 DEF Answered, AskedOf
<1>4. Up' = Up
  BY <1>1 DEF Take, Up, Stages, Dying
<1> QED
  BY <1>2, <1>3, <1>4 DEF serviceView

\* A reply, or the unwinding past it, is an answer to the head of the line; one
\* of another model's concerns nobody who asked this one.
LEMMA ReplyStep ==
    ASSUME ServiceInv, NEW m \in Models, Send(m) \/ LogPanics(m)
    PROVE  (\E a \in Service!Answers : Service!Answer(a)) \/ UNCHANGED serviceView
<1> USE ModelIsLoaded, NoJobIsNone DEF ServiceInv, WorkerInv, TypeOK
<1>1. PICK v \in Service!Answers :
         /\ Resolve({current[m]}, v)
         /\ thread' = [thread EXCEPT ![m] = IF v = "gone" THEN "unwinding" ELSE "idle"]
  BY DEF Send, LogPanics, Service!Answers
<1>2. /\ current' = [current EXCEPT ![m] = NoJob]
      /\ UNCHANGED <<queue, open, asked, call>>
      /\ thread[m] \in {"answered", "erred"}
  BY DEF Send, LogPanics
<1>3. current[m] \in Callers
  BY <1>2 DEF StageHoldsJob
<1>4. AskedOf' = AskedOf
  BY <1>2 DEF AskedOf
<1>5. CASE m = Model
  <2> DEFINE first == current[Model]
  <2>1. Line = <<first>> \o queue[Model] /\ first \in Callers /\ queue[Model] \in Seq(Callers)
    BY <1>3, <1>5 DEF Line
  <2>2. Line # <<>> /\ Head(Line) = first /\ Tail(Line) = queue[Model]
    BY <2>1
  <2>3. Line' = queue[Model]
    <3>1. Line' = <<>> \o queue[Model]
      BY <1>2, <1>5 DEF Line
    <3> QED
      BY <2>1, <3>1
  <2>4. open[Model] /\ Up = "open" /\ Up' = IF v = "gone" THEN "dying" ELSE Up
    BY <1>1, <1>2, <1>5 DEF Up, Dying, ClosedIsDying
  <2>5. Answered' = [Answered EXCEPT ![first] = IF AskedOf[first] = "waiting" THEN v ELSE @]
    <3>1. call[first] = "left" \/ (call[first] = "waiting" /\ asked[first] = Model)
      BY <2>1 DEF JobsStand
    <3>2. AskedOf[first] = "waiting" <=> call[first] = "waiting"
      BY <2>1, <3>1 DEF AskedOf
    <3>3. reply' = [r \in Callers |-> IF r = first /\ call[r] = "waiting" THEN v ELSE reply[r]]
      BY <1>1, <1>5 DEF Resolve
    <3> QED
      BY <1>2, <2>1, <3>1, <3>2, <3>3 DEF Answered
  <2>6. Service!Answer(v)
    BY <1>4, <2>2, <2>3, <2>4, <2>5 DEF Service!Answer
  <2> QED
    BY <2>6
<1>6. CASE m # Model
  <2>1. Line' = Line
    BY <1>2, <1>6 DEF Line
  <2>2. Up' = Up
    BY <1>1, <1>2, <1>6 DEF Up, Dying
  <2>3. Answered' = Answered
    <3>1. call[current[m]] = "waiting" => asked[current[m]] = m
      BY <1>3 DEF JobsStand
    <3> QED
      BY <1>1, <1>2, <1>6, <3>1 DEF Answered, Resolve
  <2> QED
    BY <1>4, <2>1, <2>2, <2>3 DEF serviceView
<1> QED
  BY <1>5, <1>6

\* Dropping queue_rx, or a load that failed, closes the service: everyone still
\* in line is told "gone".
LEMMA ThreadEnds ==
    ASSUME ServiceInv, NEW m \in Models, DropQueue(m) \/ LoadFails(m)
    PROVE  Service!Close \/ UNCHANGED serviceView
<1> USE ModelIsLoaded, NoJobIsNone DEF ServiceInv, WorkerInv, TypeOK
<1>1. /\ open' = [open EXCEPT ![m] = FALSE] /\ thread' = [thread EXCEPT ![m] = "dead"]
      /\ UNCHANGED <<current, asked, call>> /\ current[m] = NoJob /\ open[m] \in BOOLEAN
  BY DEF DropQueue, LoadFails, StageHoldsJob
<1>2. AskedOf' = AskedOf
  BY <1>1 DEF AskedOf
<1>3. queue' = [queue EXCEPT ![m] = <<>>]
  BY DEF DropQueue, LoadFails, NobodyAsksTooEarly
<1>4. reply' = [r \in Callers |-> IF r \in Waiting(m) /\ call[r] = "waiting" THEN "gone" ELSE reply[r]]
  <2>1. CASE DropQueue(m)
    BY <1>1, <2>1 DEF DropQueue, Resolve, Jobs, Waiting
  <2>2. CASE LoadFails(m)
    <3>1. Waiting(m) = {}
      BY <2>2 DEF LoadFails, NobodyAsksTooEarly, Waiting
    <3> QED
      BY <2>2, <3>1 DEF LoadFails
  <2> QED
    BY <2>1, <2>2
<1>5. \A r \in Callers : r \in Waiting(m) /\ call[r] = "waiting" => asked[r] = m
  BY DEF JobsStand
<1>6. CASE m = Model /\ open[Model]
  <2>1. Line = queue[Model] /\ queue[Model] \in Seq(Callers)
    BY <1>1, <1>6 DEF Line
  <2>2. Line' = <<>>
    BY <1>1, <1>3, <1>6 DEF Line
  <2>3. Up # "closed" /\ Up' = "closed"
    BY <1>1, <1>6 DEF Up
  <2>4. \A r \in Callers : Service!InLine(r) <=> r \in Waiting(Model)
    BY <2>1 DEF Service!InLine, Waiting
  <2>5. \A r \in Callers : r \in Waiting(Model) => (AskedOf[r] = "waiting" <=> call[r] = "waiting")
    BY <1>5, <1>6 DEF AskedOf
  <2>6. Answered' = [r \in Callers |->
                       IF Service!InLine(r) /\ AskedOf[r] = "waiting" THEN "gone" ELSE Answered[r]]
    BY <1>1, <1>4, <1>5, <1>6, <2>4, <2>5 DEF Answered
  <2> QED
    BY <1>2, <2>2, <2>3, <2>6 DEF Service!Close, Service!closed
<1>7. CASE m # Model
  <2>1. Line' = Line
    BY <1>1, <1>3, <1>7 DEF Line
  <2>2. Up' = Up
    BY <1>1, <1>7 DEF Up, Dying
  <2>3. Answered' = Answered
    BY <1>1, <1>4, <1>5, <1>7 DEF Answered
  <2> QED
    BY <1>2, <2>1, <2>2, <2>3 DEF serviceView
<1> QED
  BY <1>6, <1>7 DEF DropQueue, LoadFails, ClosedIsDead

\* try_send's three outcomes are the service's; an ask of another model is this
\* one's caller going off.
LEMMA AskStep ==
    ASSUME ServiceInv, NEW r \in Callers, NEW m \in Models, Ask(r, m)
    PROVE  Service!Next \/ UNCHANGED serviceView
<1> USE ModelIsLoaded, NoJobIsNone, MaxQueueIsPositive DEF ServiceInv, WorkerInv, TypeOK
<1>1. Free(r) /\ UNCHANGED <<thread, open, current, reply>>
      /\ asked' = [asked EXCEPT ![r] = m]
  BY DEF Ask, TrySend
<1>2. Answered' = Answered
  <2>1. reply[r] = "none"
    BY <1>1 DEF Free, RepliesAwaited
  <2> QED
    BY <1>1, <2>1 DEF Answered
<1>3. Up' = Up
  BY <1>1 DEF Up
<1>4. Service!Free(r)
  BY <1>1 DEF Free, Service!Free, AskedOf
<1>5. CASE m = Model
  <2>0. call' = [call EXCEPT ![r] = call'[r]]
    BY DEF Ask, TrySend
  <2>1. AskedOf' = [AskedOf EXCEPT ![r] = call'[r]]
    BY <1>1, <1>5, <2>0 DEF AskedOf
  <2>2. Up = "closed" <=> ~open[Model]
    BY DEF Up
  <2>3. CASE ~open[Model]
    <3>1. call'[r] = "gone" /\ queue' = queue
      BY <1>5, <2>3 DEF Ask, TrySend
    <3>2. Line' = Line
      BY <1>1, <3>1 DEF Line
    <3>3. Service!RefuseGone(r)
      BY <1>2, <1>3, <1>4, <2>1, <2>2, <2>3, <3>1, <3>2 DEF Service!RefuseGone, Service!closed
    <3> QED
      BY <3>3 DEF Service!Next
  <2> DEFINE now == IF current[Model] = NoJob THEN <<>> ELSE <<current[Model]>>
  <2>4. Line = now \o queue[Model] /\ queue[Model] \in Seq(Callers) /\ now \in Seq(Callers)
        /\ Len(now) \in 0..1 /\ Len(queue[Model]) \in Nat
    BY DEF Line
  <2>5. Len(Line) = Len(now) + Len(queue[Model])
    <3> HIDE DEF now
    <3> QED
      BY <2>4
  <2>6. CASE open[Model] /\ Len(queue[Model]) >= MaxQueue
    <3>1. call'[r] = "busy" /\ queue' = queue
      BY <1>5, <2>6 DEF Ask, TrySend
    <3>2. Line' = Line
      BY <1>1, <3>1 DEF Line
    <3>3. Len(Line) >= MaxQueue
      BY <2>4, <2>5, <2>6
    <3>4. Service!RefuseBusy(r)
      BY <1>2, <1>3, <1>4, <2>1, <2>2, <2>6, <3>1, <3>2, <3>3 DEF Service!RefuseBusy, Service!closed
    <3> QED
      BY <3>4 DEF Service!Next
  <2>7. CASE open[Model] /\ ~(Len(queue[Model]) >= MaxQueue)
    <3>1. call'[r] = "waiting" /\ queue' = [queue EXCEPT ![Model] = Append(@, r)]
      BY <1>5, <2>7 DEF Ask, TrySend
    <3>2. Line' = now \o Append(queue[Model], r)
      BY <1>1, <3>1 DEF Line
    <3>3. Line' = Append(Line, r)
      <4> HIDE DEF now
      <4> QED
        BY <2>4, <3>2
    <3>4. Len(Line) =< MaxQueue
      BY <2>4, <2>5, <2>7
    <3>5. Service!Accept(r)
      BY <1>2, <1>3, <1>4, <2>1, <2>2, <2>7, <3>1, <3>3, <3>4 DEF Service!Accept, Service!closed
    <3> QED
      BY <3>5 DEF Service!Next
  <2> QED
    BY <2>3, <2>6, <2>7
<1>6. CASE m # Model
  <2>1. Line' = Line
    BY <1>1, <1>6 DEF Ask, TrySend, Line
  <2>2. AskedOf' = [AskedOf EXCEPT ![r] = "idle"]
    BY <1>1, <1>6 DEF Ask, TrySend, AskedOf
  <2>3. Service!Forget(r)
    BY <1>2, <1>3, <1>4, <2>1, <2>2 DEF Service!Forget
  <2> QED
    BY <2>3 DEF Service!Next
<1> QED
  BY <1>5, <1>6

\* A handler collects its answer, or another model's.
LEMMA ReceiveStep ==
    ASSUME ServiceInv, NEW r \in Callers, Receive(r)
    PROVE  Service!Collect(r) \/ UNCHANGED serviceView
<1> USE ModelIsLoaded DEF ServiceInv, WorkerInv, TypeOK, Receive
<1>1. Line' = Line /\ Up' = Up
  BY DEF Line, Up
<1>2. CASE asked[r] = Model
  <2>1. AskedOf[r] = "waiting" /\ Answered[r] = reply[r] /\ Answered[r] # "none"
    BY <1>2 DEF AskedOf, Answered
  <2>2. AskedOf' = [AskedOf EXCEPT ![r] = reply[r]] /\ Answered' = [Answered EXCEPT ![r] = "none"]
    BY <1>2 DEF AskedOf, Answered
  <2> QED
    BY <1>1, <2>1, <2>2 DEF Service!Collect
<1>3. CASE asked[r] # Model
  <2>1. AskedOf' = AskedOf /\ Answered' = Answered
    BY <1>3 DEF AskedOf, Answered
  <2> QED
    BY <1>1, <2>1 DEF serviceView
<1> QED
  BY <1>2, <1>3

\* Of the handlers that are dropped, those that asked this model leave it.
LEMMA LeaveStep ==
    ASSUME ServiceInv, NEW R \in SUBSET Callers, Leave(R)
    PROVE  \E Q \in SUBSET Callers : Service!Leave(Q)
<1> USE DEF ServiceInv, WorkerInv, TypeOK, Leave
<1> DEFINE Q == {r \in R : asked[r] = Model}
<1>1. Line' = Line /\ Up' = Up
  BY DEF Line, Up
<1>2. \A r \in Q : AskedOf[r] = "waiting"
  BY DEF AskedOf
<1>3. AskedOf' = [r \in Callers |-> IF r \in Q THEN "left" ELSE AskedOf[r]]
  BY DEF AskedOf
<1>4. Answered' = [r \in Callers |-> IF r \in Q THEN "none" ELSE Answered[r]]
  BY DEF Answered
<1>5. Service!Leave(Q)
  BY <1>1, <1>2, <1>3, <1>4 DEF Service!Leave
<1> QED
  BY <1>5

-----------------------------------------------------------------------------

\* Every step is the service's or a stutter.
LEMMA EveryStepIsTheServices ==
    ASSUME ServiceInv, [WorkerNext]_workerVars
    PROVE  [Service!Next]_serviceView
<1>1. ASSUME NEW m \in Models, Load(m) \/ Work(m) \/ Die(m) PROVE Service!Next \/ UNCHANGED serviceView
  BY <1>1, QuietStep, TakeStep, ReplyStep, ThreadEnds DEF Load, Work, Die, Service!Next
<1>2. ASSUME NEW r \in Callers, NEW m \in Models, Ask(r, m) PROVE Service!Next \/ UNCHANGED serviceView
  BY <1>2, AskStep
<1>3. ASSUME NEW r \in Callers, Receive(r) PROVE Service!Next \/ UNCHANGED serviceView
  BY <1>3, ReceiveStep DEF Service!Next
<1>4. ASSUME NEW R \in SUBSET Callers, Leave(R) PROVE Service!Next
  BY <1>4, LeaveStep DEF Service!Next
<1>5. CASE UNCHANGED workerVars
  BY <1>5 DEF workerVars, serviceView, Line, Answered, AskedOf, Up
<1> QED
  BY <1>1, <1>2, <1>3, <1>4, <1>5 DEF WorkerNext

\* Handle::ask and the worker's loop implement AskService for every model,
\* whatever the other models' threads and handlers do (worker.rs).
THEOREM WorkerImplementsService == WorkerSpec => ModelIsAService
<1>1. ServiceInv /\ [WorkerNext]_workerVars => ServiceInv'
  BY InvStep, EarlyAndLateStep DEF ServiceInv
<1>2. ServiceInv /\ [WorkerNext]_workerVars => [Service!Next]_serviceView
  BY EveryStepIsTheServices
<1> QED
  BY ServiceInit, <1>1, <1>2, PTL DEF WorkerSpec, ModelIsAService, Service!Spec, Service!serviceVars, serviceView

-----------------------------------------------------------------------------
(* The server: the invariant.                                              *)

CountRecords == [requests : Nat, rejected : Nat, failed : Nat, inputs : Nat, scored : Nat]
Outcomes(c) == c.rejected + c.failed + c.inputs + c.scored

ServeTypes ==
    /\ main \in {"loading", "serving", "paused", "draining", "exited"}
    /\ outcome \in {"none", "ok", "err"}
    /\ signal \in BOOLEAN /\ stop \in BOOLEAN
    /\ conn \in [Callers -> Phases]
    /\ told \in [Callers -> BOOLEAN]
    /\ want \in [Callers -> Models \union {NoModel}]
    /\ counts \in CountRecords
    /\ arrived \in Nat /\ abandoned \in Nat

\* A request whose body is being read is for a model.
RequestsAreForModels == \A c \in Callers : conn[c] = "body" => want[c] \in Models

\* Told to stop, a connection is past its last request.
ToldIsLast == \A c \in Callers : told[c] => conn[c] \notin {"absent", "backlog", "fresh", "idle"}

\* run() returns nothing before it stops, and then what stop_reason found.
OutcomeStands ==
    /\ main \in {"loading", "serving", "paused"} => ~stop
    /\ main = "draining" => \/ outcome = "ok" /\ signal
                            \/ outcome = "err" /\ Doomed
    /\ ExitCodeIsTrue

ServeInv ==
    /\ ServeTypes /\ RequestsAreForModels /\ ToldIsLast /\ WorkerInv
    /\ HandlersAndAsksAgree /\ CountsAddUp /\ OutcomeStands

-----------------------------------------------------------------------------
(* The server and its workers.                                             *)

\* Whatever run(), a connection or a client does, each worker takes a step of
\* its own or none: callers reach it through Handle::ask and by being dropped.
LEMMA WorkersStep ==
    RequestsAreForModels /\ [ServeNext]_vars => [WorkerNext]_workerVars
<1> SUFFICES ASSUME RequestsAreForModels, ServeNext \/ UNCHANGED vars
             PROVE  WorkerNext \/ UNCHANGED workerVars
  OBVIOUS
<1>1. ASSUME NEW m \in Models, LoadStep(m) \/ ModelStep(m) PROVE WorkerNext
  BY <1>1 DEF LoadStep, ModelStep, WorkerNext
<1>2. CASE StartFails \/ ServerStart \/ ShutdownSignal \/ AcceptFails \/ MainStep
  BY <1>2 DEF StartFails, ServerStart, ShutdownSignal, AcceptFails, MainStep, StopReason, AcceptAgain, Drained
<1>3. CASE TimedOut
  BY <1>3 DEF TimedOut, WorkerNext, In
<1>4. ASSUME NEW c \in Callers, Connect(c) \/ Accept(c) \/ FirstPoll(c) \/ GracefulShutdown(c)
                                \/ Written(c) \/ Refuse(c) \/ Route(c)
      PROVE  UNCHANGED workerVars
  BY <1>4 DEF Connect, Accept, FirstPoll, GracefulShutdown, Written, Refuse, Route
<1>5. ASSUME NEW c \in Callers, HangUp(c) PROVE WorkerNext \/ UNCHANGED workerVars
  BY <1>5 DEF HangUp, WorkerNext
<1>6. ASSUME NEW c \in Callers, Answered200or500(c) PROVE WorkerNext
  BY <1>6 DEF Answered200or500, WorkerNext
<1>7. ASSUME NEW c \in Callers, AskModel(c) PROVE WorkerNext
  BY <1>7 DEF AskModel, WorkerNext, RequestsAreForModels
<1> QED
  BY <1>1, <1>2, <1>3, <1>4, <1>5, <1>6, <1>7 DEF ServeNext, Handler, Client, vars

\* What a model's thread does concerns no handler yet, and a thread that has
\* dropped alive_tx never takes it back.
LEMMA ThreadStep ==
    ASSUME WorkerInv, NEW m \in Models, Load(m) \/ Work(m) \/ Die(m)
    PROVE  /\ call' = call
           /\ \A n \in Models : handle[n] => handle'[n]
           /\ \A n \in Models : ~alive[n] => ~alive'[n]
BY DEF WorkerInv, TypeOK, Load, Spawn, LoadOk, LoadFails, Spawned, Work, Take, RunJob, Send, LogPanics,
       Die, DropAlive, DropQueue

-----------------------------------------------------------------------------
(* Initially.                                                              *)

\* Nothing is loaded, nobody is connected, and nothing was counted.
LEMMA ServeInitInv == ServeInit => ServeInv
<1> SUFFICES ASSUME ServeInit PROVE ServeInv
  OBVIOUS
<1> USE DEF ServeInit
<1>1. ServeTypes /\ RequestsAreForModels /\ ToldIsLast
  BY DEF ServeTypes, CountRecords, RequestsAreForModels, Phases, ToldIsLast
<1>2. WorkerInv
  BY InitInv
<1>3. HandlersAndAsksAgree
  BY DEF HandlersAndAsksAgree, Listening, WorkerInit
<1>4. CountsAddUp
  <2>1. In(Handling) = {}
    BY DEF In, Handling
  <2>2. Cardinality(In(Handling)) = 0
    BY <2>1, FS_EmptySet
  <2> QED
    BY <2>2 DEF CountsAddUp
<1>5. OutcomeStands
  BY DEF OutcomeStands, ExitCodeIsTrue
<1> QED
  BY <1>1, <1>2, <1>3, <1>4, <1>5 DEF ServeInv

-----------------------------------------------------------------------------
(* Each step keeps the types, and a body is read only for a model.         *)

\* A reply adds one to the requests, and one at most to what they came to.
LEMMA CountedIsCounted ==
    ASSUME counts \in CountRecords, NEW status, NEW m, NEW answer
    PROVE  \A c \in {Counted(status), CountedAnswer(m, answer)} :
              /\ c \in CountRecords
              /\ c.requests = counts.requests + 1
              /\ Outcomes(c) =< Outcomes(counts) + 1
<1> USE DEF CountRecords, Outcomes
<1>1. ASSUME NEW t
      PROVE  /\ Counted(t) \in CountRecords
             /\ Counted(t).requests = counts.requests + 1
             /\ Counted(t).rejected = counts.rejected + (IF t = "4xx" THEN 1 ELSE 0)
             /\ Counted(t).failed = counts.failed + (IF t = "5xx" THEN 1 ELSE 0)
             /\ Counted(t).inputs = counts.inputs /\ Counted(t).scored = counts.scored
  <2> DEFINE r == IF t = "4xx" THEN 1 ELSE 0
             f == IF t = "5xx" THEN 1 ELSE 0
  <2>1. r \in Nat /\ f \in Nat
    OBVIOUS
  <2>2. Counted(t) = [counts EXCEPT !.requests = @ + 1, !.rejected = @ + r, !.failed = @ + f]
    BY DEF Counted
  <2> HIDE DEF r, f
  <2>3. /\ Counted(t) \in CountRecords
        /\ Counted(t).requests = counts.requests + 1
        /\ Counted(t).rejected = counts.rejected + r
        /\ Counted(t).failed = counts.failed + f
        /\ Counted(t).inputs = counts.inputs /\ Counted(t).scored = counts.scored
    <3>1. counts \in [requests : Nat, rejected : Nat, failed : Nat, inputs : Nat, scored : Nat]
      OBVIOUS
    <3>2. counts.requests + 1 \in Nat /\ counts.rejected + r \in Nat /\ counts.failed + f \in Nat
      BY <2>1, <3>1
    <3> QED
      BY <2>2, <3>1, <3>2
  <2> QED
    BY <2>3 DEF r, f
<1> DEFINE base == Counted(StatusOf(answer))
<1>2. /\ base \in CountRecords /\ base.requests = counts.requests + 1
      /\ Outcomes(base) =< Outcomes(counts) + 1
      /\ answer = "ok" => Outcomes(base) = Outcomes(counts)
  BY <1>1 DEF StatusOf
<1>3. CountedAnswer(m, answer) \in {base, [base EXCEPT !.inputs = @ + 1], [base EXCEPT !.scored = @ + 1]}
      /\ (answer # "ok" => CountedAnswer(m, answer) = base)
  BY DEF CountedAnswer
<1>4. \A c \in {[base EXCEPT !.inputs = @ + 1], [base EXCEPT !.scored = @ + 1]} :
         c \in CountRecords /\ c.requests = base.requests /\ Outcomes(c) = Outcomes(base) + 1
  <2> HIDE DEF base
  <2> QED
    BY <1>2
<1>5. /\ CountedAnswer(m, answer) \in CountRecords
      /\ CountedAnswer(m, answer).requests = counts.requests + 1
      /\ Outcomes(CountedAnswer(m, answer)) =< Outcomes(counts) + 1
  <2> HIDE DEF base
  <2>1. CASE answer = "ok"
    BY <1>2, <1>3, <1>4, <2>1
  <2>2. CASE answer # "ok"
    BY <1>2, <1>3, <2>2
  <2> QED
    BY <2>1, <2>2
<1>6. /\ Counted(status).requests = counts.requests + 1
      /\ Outcomes(Counted(status)) =< Outcomes(counts) + 1
  BY <1>1
<1> QED
  BY <1>1, <1>5, <1>6

LEMMA ServeTypesStep ==
    ASSUME ServeInv, [ServeNext]_vars
    PROVE  ServeTypes' /\ RequestsAreForModels'
<1> DEFINE Goal == ServeTypes' /\ RequestsAreForModels'
<1> USE DEF ServeInv, ServeTypes, RequestsAreForModels, Phases, restOfServe
<1>1. ASSUME NEW m \in Models, LoadStep(m) \/ ModelStep(m) PROVE Goal
  BY <1>1 DEF LoadStep, ModelStep, serveVars
<1>2. CASE StartFails \/ ServerStart \/ ShutdownSignal \/ AcceptFails \/ StopReason \/ AcceptAgain
  BY <1>2 DEF StartFails, ServerStart, ShutdownSignal, AcceptFails, StopReason, AcceptAgain
<1>3. CASE Drained
  BY <1>3 DEF Drained
<1>4. CASE TimedOut
  <2>1. Cardinality(In(Handling)) \in Nat
    BY CallersAreFinite, FS_Subset, FS_CardinalityType DEF In
  <2> QED
    BY <1>4, <2>1 DEF TimedOut
<1>5. ASSUME NEW c \in Callers, Connect(c) \/ Accept(c) \/ FirstPoll(c) \/ GracefulShutdown(c) \/ Written(c)
      PROVE  Goal
  BY <1>5 DEF Connect, Accept, FirstPoll, GracefulShutdown, Written
<1>6. ASSUME NEW c \in Callers, HangUp(c) PROVE Goal
  BY <1>6 DEF HangUp
<1>7. ASSUME NEW c \in Callers, Route(c) \/ Refuse(c) PROVE Goal
  BY <1>7, CountedIsCounted DEF Route, Refuse
<1>8. ASSUME NEW c \in Callers, AskModel(c) \/ Answered200or500(c) PROVE Goal
  BY <1>8, CountedIsCounted DEF AskModel, Answered200or500
<1>9. CASE UNCHANGED vars
  BY <1>9 DEF vars, serveVars
<1> QED
  BY <1>1, <1>2, <1>3, <1>4, <1>5, <1>6, <1>7, <1>8, <1>9 DEF ServeNext, MainStep, Handler, Client

\* graceful_shutdown closes what is between requests, and a connection told
\* before its first request is closed unread.
LEMMA ToldStep ==
    ASSUME ServeInv, [ServeNext]_vars
    PROVE  ToldIsLast'
<1> USE DEF ServeInv, ServeTypes, ToldIsLast, restOfServe
<1>1. ASSUME NEW m \in Models, LoadStep(m) \/ ModelStep(m) PROVE ToldIsLast'
  BY <1>1 DEF LoadStep, ModelStep, serveVars
<1>2. CASE StartFails \/ ServerStart \/ ShutdownSignal \/ AcceptFails \/ MainStep
  BY <1>2 DEF StartFails, ServerStart, ShutdownSignal, AcceptFails, MainStep, StopReason, AcceptAgain, Drained
<1>3. CASE TimedOut
  BY <1>3 DEF TimedOut
<1>4. ASSUME NEW c \in Callers, Connect(c) \/ HangUp(c) \/ Accept(c) \/ Client(c) \/ Route(c)
      PROVE  ToldIsLast'
  BY <1>4 DEF Connect, HangUp, Accept, Client, Written, Refuse, AskModel, Route
<1>5. ASSUME NEW c \in Callers, Handler(c) PROVE ToldIsLast'
  BY <1>5 DEF Handler, FirstPoll, GracefulShutdown, Answered200or500, Open
<1>6. CASE UNCHANGED vars
  BY <1>6 DEF vars, serveVars
<1> QED
  BY <1>1, <1>2, <1>3, <1>4, <1>5, <1>6 DEF ServeNext

-----------------------------------------------------------------------------
(* A handler waits exactly while its ask is out.                           *)

LEMMA AsksStep ==
    ASSUME ServeInv, [ServeNext]_vars
    PROVE  HandlersAndAsksAgree'
<1> USE DEF ServeInv, ServeTypes, HandlersAndAsksAgree, Listening, restOfServe
<1>0. call \in [Callers -> Calls] /\ reply \in [Callers -> Replies]
  BY DEF WorkerInv, TypeOK
<1>1. ASSUME NEW m \in Models, LoadStep(m) \/ ModelStep(m) PROVE HandlersAndAsksAgree'
  BY <1>1, ThreadStep DEF LoadStep, ModelStep, serveVars
<1>2. CASE StartFails \/ ServerStart \/ ShutdownSignal \/ AcceptFails \/ StopReason \/ AcceptAgain
  BY <1>2 DEF StartFails, ServerStart, ShutdownSignal, AcceptFails, StopReason, AcceptAgain, workerVars
<1>3. CASE Drained
  BY <1>3 DEF Drained, In, Open, workerVars
<1>4. CASE TimedOut
  <2>1. \A c \in Callers : conn'[c] # "ask"
    BY <1>4 DEF TimedOut, Open
  <2>2. \A c \in Callers : call'[c] # "waiting"
    <3>1. CASE In({"ask"}) = {}
      BY <1>4, <3>1 DEF TimedOut, In, workerVars
    <3>2. CASE Leave(In({"ask"}))
      BY <3>2 DEF Leave, In
    <3> QED
      BY <1>4, <3>1, <3>2 DEF TimedOut
  <2> QED
    BY <1>4, <2>1, <2>2 DEF TimedOut
<1>5. ASSUME NEW c \in Callers, Connect(c) \/ Accept(c) \/ FirstPoll(c) \/ GracefulShutdown(c)
                                \/ Written(c) \/ Refuse(c) \/ Route(c)
      PROVE  HandlersAndAsksAgree'
  BY <1>5 DEF Connect, Accept, FirstPoll, GracefulShutdown, Written, Refuse, Route, workerVars
<1>6. ASSUME NEW c \in Callers, HangUp(c) PROVE HandlersAndAsksAgree'
  <2>1. CASE conn[c] = "ask" /\ Leave({c})
    BY <1>6, <2>1 DEF HangUp, Leave
  <2>2. CASE conn[c] # "ask" /\ UNCHANGED workerVars
    BY <1>6, <2>2 DEF HangUp, workerVars
  <2> QED
    BY <1>6, <2>1, <2>2 DEF HangUp
<1>7. ASSUME NEW c \in Callers, AskModel(c) PROVE HandlersAndAsksAgree'
  <2>1. handle' = handle /\ call' \in [Callers -> Calls]
        /\ \A r \in Callers \ {c} : call'[r] = call[r]
    BY <1>0, <1>7 DEF AskModel, Ask, TrySend, Calls
  <2>2. conn'[c] = "ask" <=> call'[c] = "waiting"
    BY <1>7 DEF AskModel
  <2>3. \A r \in Callers \ {c} : conn'[r] = conn[r]
    BY <1>7 DEF AskModel
  <2> QED
    BY <1>7, <2>1, <2>2, <2>3 DEF AskModel
<1>8. ASSUME NEW c \in Callers, Answered200or500(c) PROVE HandlersAndAsksAgree'
  BY <1>0, <1>8 DEF Answered200or500, Receive, Replies
<1>9. CASE UNCHANGED vars
  BY <1>9 DEF vars, serveVars, workerVars
<1> QED
  BY <1>1, <1>2, <1>3, <1>4, <1>5, <1>6, <1>7, <1>8, <1>9 DEF ServeNext, MainStep, Handler, Client

-----------------------------------------------------------------------------
(* What run() returns.                                                     *)

LEMMA OutcomeStep ==
    ASSUME ServeInv, [ServeNext]_vars
    PROVE  OutcomeStands'
<1> USE DEF ServeInv, ServeTypes, OutcomeStands, ExitCodeIsTrue, Listening, restOfServe
<1>1. Doomed => Doomed'
  <2>1. ASSUME NEW m \in Models, Load(m) \/ Work(m) \/ Die(m) PROVE Doomed => Doomed'
    BY <2>1, ThreadStep DEF Doomed
  <2>2. ASSUME UNCHANGED alive PROVE Doomed => Doomed'
    BY <2>2 DEF Doomed
  <2> QED
    BY <2>1, <2>2, WorkersStep DEF WorkerNext, Receive, Ask, Leave, workerVars
<1>2. ASSUME NEW m \in Models, LoadStep(m) \/ ModelStep(m) PROVE OutcomeStands'
  BY <1>1, <1>2 DEF LoadStep, ModelStep, serveVars
<1>3. CASE StartFails \/ ServerStart \/ ShutdownSignal \/ AcceptFails \/ StopReason \/ AcceptAgain
  BY <1>1, <1>3 DEF StartFails, ServerStart, ShutdownSignal, AcceptFails, StopReason, AcceptAgain
<1>4. CASE Drained \/ TimedOut
  BY <1>1, <1>4 DEF Drained, TimedOut
<1>5. ASSUME NEW c \in Callers, Connect(c) \/ HangUp(c) \/ Accept(c) \/ Handler(c) \/ Client(c) \/ Route(c)
      PROVE  OutcomeStands'
  BY <1>1, <1>5 DEF Connect, HangUp, Accept, Handler, FirstPoll, GracefulShutdown, Answered200or500,
                    Client, Written, Refuse, AskModel, Route
<1>6. CASE UNCHANGED vars
  BY <1>1, <1>6 DEF vars, serveVars
<1> QED
  BY <1>2, <1>3, <1>4, <1>5, <1>6 DEF ServeNext, MainStep

-----------------------------------------------------------------------------
(* The counters.                                                           *)

\* One connection's change of phase is one handler more, one less, or none.
LEMMA HandlersCounted ==
    ASSUME conn \in [Callers -> Phases], NEW c \in Callers, NEW phase \in Phases,
           conn' = [conn EXCEPT ![c] = phase]
    PROVE  /\ Cardinality(In(Handling)) \in Nat
           /\ Cardinality(In(Handling)') \in Nat
           /\ (conn[c] \in Handling <=> phase \in Handling) =>
                  Cardinality(In(Handling)') = Cardinality(In(Handling))
           /\ conn[c] \notin Handling /\ phase \in Handling =>
                  Cardinality(In(Handling)') = Cardinality(In(Handling)) + 1
           /\ conn[c] \in Handling /\ phase \notin Handling =>
                  Cardinality(In(Handling)') = Cardinality(In(Handling)) - 1
<1>1. IsFiniteSet(In(Handling)) /\ IsFiniteSet(In(Handling)')
  BY CallersAreFinite, FS_Subset DEF In
<1>2. Cardinality(In(Handling)) \in Nat /\ Cardinality(In(Handling)') \in Nat
  BY <1>1, FS_CardinalityType
<1>3. (conn[c] \in Handling <=> phase \in Handling) => In(Handling)' = In(Handling)
  BY DEF In
<1>4. CASE conn[c] \notin Handling /\ phase \in Handling
  <2>1. In(Handling)' = In(Handling) \union {c} /\ c \notin In(Handling)
    BY <1>4 DEF In
  <2> QED
    BY <1>1, <1>2, <1>4, <2>1, FS_AddElement
<1>5. CASE conn[c] \in Handling /\ phase \notin Handling
  <2>1. In(Handling)' = In(Handling) \ {c} /\ c \in In(Handling)
    BY <1>5 DEF In
  <2> QED
    BY <1>1, <1>2, <1>5, <2>1, FS_RemoveElement
<1> QED
  BY <1>2, <1>3, <1>4, <1>5

\* Every request that was read is with its handler, counted or abandoned, and
\* passes from one of the three to another in a single step.
LEMMA CountsStep ==
    ASSUME ServeInv, [ServeNext]_vars
    PROVE  CountsAddUp'
<1> DEFINE handlers == Cardinality(In(Handling))
<1> USE DEF ServeInv, ServeTypes, CountsAddUp, restOfServe
<1>0. handlers \in Nat /\ counts.requests \in Nat
  BY CallersAreFinite, FS_Subset, FS_CardinalityType DEF In, CountRecords
<1>1. ASSUME UNCHANGED <<conn, counts, arrived, abandoned>> PROVE CountsAddUp'
  BY <1>1 DEF In, Handling
<1>2. ASSUME NEW m \in Models, LoadStep(m) \/ ModelStep(m) PROVE CountsAddUp'
  BY <1>1, <1>2 DEF LoadStep, ModelStep, serveVars
<1>3. CASE StartFails \/ ServerStart \/ ShutdownSignal \/ AcceptFails \/ StopReason \/ AcceptAgain
  BY <1>1, <1>3 DEF StartFails, ServerStart, ShutdownSignal, AcceptFails, StopReason, AcceptAgain
<1>4. CASE Drained
  <2>1. In(Handling)' = In(Handling)
    BY <1>4 DEF Drained, In, Handling
  <2> QED
    BY <1>4, <2>1 DEF Drained
<1>5. CASE TimedOut
  <2>1. In(Handling)' = {}
    BY <1>5 DEF TimedOut, In, Handling, Open
  <2>2. Cardinality(In(Handling)') = 0
    BY <2>1, FS_EmptySet
  <2>3. abandoned' = abandoned + handlers /\ UNCHANGED <<counts, arrived>>
    BY <1>5 DEF TimedOut
  <2> QED
    BY <1>0, <2>2, <2>3
<1>6. ASSUME NEW c \in Callers, Connect(c) \/ Accept(c) \/ FirstPoll(c) \/ GracefulShutdown(c) \/ Written(c)
      PROVE  CountsAddUp'
  <2>1. In(Handling)' = In(Handling) /\ UNCHANGED <<counts, arrived, abandoned>>
    BY <1>6 DEF Connect, Accept, FirstPoll, GracefulShutdown, Written, In, Handling, Open
  <2> QED
    BY <2>1
<1>7. ASSUME NEW c \in Callers, HangUp(c) PROVE CountsAddUp'
  <2>1. conn' = [conn EXCEPT ![c] = "closed"] /\ "closed" \in Phases \ Handling
    BY <1>7 DEF HangUp, Phases, Handling
  <2>2. abandoned' = (IF conn[c] \in Handling THEN abandoned + 1 ELSE abandoned)
        /\ UNCHANGED <<counts, arrived>>
    BY <1>7 DEF HangUp
  <2>3. CASE conn[c] \in Handling
    <3>1. Cardinality(In(Handling)') = handlers - 1
      BY <2>1, <2>3, HandlersCounted
    <3> QED
      BY <1>0, <2>2, <2>3, <3>1
  <2>4. CASE conn[c] \notin Handling
    <3>1. Cardinality(In(Handling)') = handlers
      BY <2>1, <2>4, HandlersCounted
    <3> QED
      BY <1>0, <2>2, <2>4, <3>1
  <2> QED
    BY <2>3, <2>4
<1>8. ASSUME NEW c \in Callers, Route(c) PROVE CountsAddUp'
  <2>0. conn[c] = "idle" /\ arrived' = arrived + 1 /\ abandoned' = abandoned
        /\ "idle" \notin Handling
    BY <1>8 DEF Route, Handling
  <2>1. ASSUME NEW status, counts' = Counted(status), conn' = [conn EXCEPT ![c] = "reply"]
        PROVE  CountsAddUp'
    <3>1. Cardinality(In(Handling)') = handlers
      BY <2>0, <2>1, HandlersCounted DEF Phases, Handling
    <3>2. counts'.requests = counts.requests + 1 /\ Outcomes(counts') =< Outcomes(counts) + 1
          /\ counts' \in CountRecords
      BY <2>1, CountedIsCounted
    <3> QED
      BY <1>0, <2>0, <3>1, <3>2 DEF Outcomes, CountRecords
  <2>2. CASE conn' = [conn EXCEPT ![c] = "body"] /\ UNCHANGED counts
    <3>1. Cardinality(In(Handling)') = handlers + 1
      BY <2>0, <2>2, HandlersCounted DEF Phases, Handling
    <3> QED
      BY <1>0, <2>0, <2>2, <3>1
  <2> QED
    BY <1>8, <2>1, <2>2 DEF Route
\* A handler's reply is formed, and counted in the same step.
<1>9. ASSUME NEW c \in Callers, conn[c] \in Handling, conn' = [conn EXCEPT ![c] = "reply"],
             counts' \in CountRecords, counts'.requests = counts.requests + 1,
             Outcomes(counts') =< Outcomes(counts) + 1,
             UNCHANGED <<arrived, abandoned>>
      PROVE  CountsAddUp'
  <2>1. Cardinality(In(Handling)') = handlers - 1
    BY <1>9, HandlersCounted DEF Phases, Handling
  <2> QED
    BY <1>0, <1>9, <2>1 DEF Outcomes, CountRecords
<1>10. ASSUME NEW c \in Callers, Refuse(c) \/ Answered200or500(c) PROVE CountsAddUp'
  <2>1. counts' \in CountRecords /\ counts'.requests = counts.requests + 1
        /\ Outcomes(counts') =< Outcomes(counts) + 1
    BY <1>10, CountedIsCounted DEF Refuse, Answered200or500
  <2> QED
    BY <1>9, <1>10, <2>1 DEF Refuse, Answered200or500, Handling
<1>11. ASSUME NEW c \in Callers, AskModel(c) PROVE CountsAddUp'
  <2>1. CASE conn' = [conn EXCEPT ![c] = "ask"] /\ UNCHANGED counts
    <3>1. Cardinality(In(Handling)') = handlers
      BY <1>11, <2>1, HandlersCounted DEF AskModel, Phases, Handling
    <3> QED
      BY <1>0, <1>11, <2>1, <3>1 DEF AskModel
  <2>2. CASE conn' = [conn EXCEPT ![c] = "reply"] /\ counts' = CountedAnswer(want[c], call'[c])
    <3>1. conn[c] \in Handling /\ UNCHANGED <<arrived, abandoned>>
      BY <1>11 DEF AskModel, Handling
    <3>2. counts' \in CountRecords /\ counts'.requests = counts.requests + 1
          /\ Outcomes(counts') =< Outcomes(counts) + 1
      BY <2>2, CountedIsCounted
    <3> QED
      BY <1>9, <2>2, <3>1, <3>2
  <2> QED
    BY <1>11, <2>1, <2>2 DEF AskModel
<1>12. CASE UNCHANGED vars
  BY <1>1, <1>12 DEF vars, serveVars
<1> QED
  BY <1>2, <1>3, <1>4, <1>5, <1>6, <1>7, <1>8, <1>10, <1>11, <1>12 DEF ServeNext, MainStep, Handler, Client

-----------------------------------------------------------------------------
(* The theorems.                                                           *)

\* The invariant is inductive.
LEMMA ServeInvStep == ServeInv /\ [ServeNext]_vars => ServeInv'
<1> SUFFICES ASSUME ServeInv, [ServeNext]_vars PROVE ServeInv'
  OBVIOUS
<1>1. WorkerInv'
  BY WorkersStep, InvStep DEF ServeInv
<1> QED
  BY <1>1, ServeTypesStep, ToldStep, AsksStep, OutcomeStep, CountsStep DEF ServeInv

THEOREM ServeInvariant == ServeSpec => []ServeInv
BY ServeInitInv, ServeInvStep, PTL DEF ServeSpec

\* The server uses its models' threads as worker.rs means them to be used:
\* every behaviour of the server is one of the workers, so that no handler is
\* forgotten, and "gone" is true, inside the server too.
THEOREM ServerRunsWorkers == ServeSpec => WorkerSpec
<1>1. ServeInit => WorkerInit
  BY DEF ServeInit
<1>2. ServeInv /\ [ServeNext]_vars => [WorkerNext]_workerVars
  BY WorkersStep DEF ServeInv
<1> QED
  BY <1>1, <1>2, ServeInvariant, PTL DEF ServeSpec, WorkerSpec

\* And so each model of a running server, whichever is looked at, is the
\* service AskService describes: its questions are answered in order and once,
\* while connections come, hang up and are aborted.
THEOREM ServerKeepsItsServices == ServeSpec => ModelIsAService
BY ServerRunsWorkers, WorkerImplementsService

\* Clients can connect only while every model is loaded, and a connection
\* waits in its handler exactly while its ask is out (run, mod.rs; http.rs).
THEOREM HandlersAgree == ServeSpec => []HandlersAndAsksAgree
<1>1. ServeInv => HandlersAndAsksAgree
  BY DEF ServeInv
<1> QED
  BY <1>1, ServeInvariant, PTL

\* Every request read is counted once, still handled or abandoned, whatever
\* hangs up, times out or dies (counts.rs).
THEOREM EveryRequestIsCounted == ServeSpec => []CountsAddUp
<1>1. ServeInv => CountsAddUp
  BY DEF ServeInv
<1> QED
  BY <1>1, ServeInvariant, PTL

\* Exit status 0 takes a signal, status 1 a dead thread or a failed start
\* (stop_reason, mod.rs).
THEOREM ExitStatusIsTrue == ServeSpec => []ExitCodeIsTrue
<1>1. ServeInv => ExitCodeIsTrue
  BY DEF ServeInv, OutcomeStands
<1> QED
  BY <1>1, ServeInvariant, PTL

\* Only its client, the timeout, or the end of its reply closes a connection
\* that has a request in hand (serve_connection, server.rs).
THEOREM RepliesInFlightFinish == ServeSpec => ReplyInFlightFinishes
<1> DEFINE Finishes == \A c \in Callers :
                          conn[c] \in {"body", "ask", "reply"} /\ conn'[c] = "closed"
                          => \/ HangUp(c)
                             \/ TimedOut
                             \/ conn[c] = "reply" /\ told[c]
<1>1. ServeInv /\ [ServeNext]_vars => [Finishes]_vars
  <2> SUFFICES ASSUME ServeInv, ServeNext, NEW c \in Callers,
                      conn[c] \in {"body", "ask", "reply"}, conn'[c] = "closed",
                      ~HangUp(c), ~TimedOut
               PROVE  conn[c] = "reply" /\ told[c]
    BY DEF Finishes
  <2> USE DEF ServeInv, ServeTypes, restOfServe
  <2>1. ~\E m \in Models : LoadStep(m) \/ ModelStep(m)
    BY DEF LoadStep, ModelStep, serveVars
  <2>2. ~(StartFails \/ ServerStart \/ ShutdownSignal \/ AcceptFails \/ MainStep)
    BY DEF StartFails, ServerStart, ShutdownSignal, AcceptFails, MainStep, StopReason, AcceptAgain,
           Drained, In, Open
  <2>3. ASSUME NEW d \in Callers, \/ Connect(d) \/ Accept(d) \/ HangUp(d) \/ Route(d) \/ Refuse(d)
                                  \/ FirstPoll(d) \/ GracefulShutdown(d)
                                  \/ AskModel(d) \/ Answered200or500(d)
        PROVE  FALSE
    BY <2>3 DEF Connect, Accept, HangUp, Route, Refuse, FirstPoll, GracefulShutdown, AskModel, Answered200or500
  <2>4. ASSUME NEW d \in Callers, Written(d) PROVE conn[c] = "reply" /\ told[c]
    BY <2>4 DEF Written
  <2> QED
    BY <2>1, <2>2, <2>3, <2>4 DEF ServeNext, Handler, Client
<1> QED
  BY <1>1, ServeInvariant, PTL DEF ServeSpec, ReplyInFlightFinishes

\* Told to stop, a connection reads no further request (serve_connection,
\* server.rs).
THEOREM ToldReadNoMore == ServeSpec => NoRequestAfterStop
<1> DEFINE ReadsNone == \A c \in Callers : told[c] => ~(conn[c] \notin Handling /\ conn'[c] \in Handling)
<1>1. ServeInv /\ [ServeNext]_vars => [ReadsNone]_vars
  <2> SUFFICES ASSUME ServeInv, ServeNext, NEW c \in Callers, told[c],
                      conn[c] \notin Handling, conn'[c] \in Handling
               PROVE  FALSE
    BY DEF ReadsNone
  <2>1. conn[c] \in {"reply", "closed"}
    BY DEF ServeInv, ServeTypes, ToldIsLast, Phases, Handling
  <2> USE DEF ServeInv, ServeTypes, Handling, restOfServe
  <2>2. ~\E m \in Models : LoadStep(m) \/ ModelStep(m)
    BY DEF LoadStep, ModelStep, serveVars
  <2>3. ~(StartFails \/ ServerStart \/ ShutdownSignal \/ AcceptFails \/ MainStep \/ TimedOut)
    BY <2>1 DEF StartFails, ServerStart, ShutdownSignal, AcceptFails, MainStep, StopReason, AcceptAgain,
                Drained, TimedOut
  <2>4. ASSUME NEW d \in Callers, \/ Connect(d) \/ Accept(d) \/ HangUp(d) \/ Route(d)
                                  \/ Handler(d) \/ Client(d)
        PROVE  FALSE
    BY <2>1, <2>4 DEF Connect, Accept, HangUp, Route, Handler, FirstPoll, GracefulShutdown, Answered200or500,
                      Client, Written, Refuse, AskModel
  <2> QED
    BY <2>2, <2>3, <2>4 DEF ServeNext
<1> QED
  BY <1>1, ServeInvariant, PTL DEF ServeSpec, NoRequestAfterStop

-----------------------------------------------------------------------------
(* The socket: any number of kohagi-serve processes on one path.           *)

\* SocketTypeOK without what the stages say of the lock.
Types ==
    /\ pc \in [Procs -> SocketStages]
    /\ lock \in Procs \union {NoProc}
    /\ kind \in Seq({"socket", "other"}) /\ Len(kind) =< MaxFiles
    /\ path \in 0..Len(kind)
    /\ listening \subseteq Files /\ private \subseteq Files
    /\ sock \in [Procs -> 0..MaxFiles] /\ mine \in [Procs -> 0..MaxFiles]

\* A file made is the newest, and the others stay what they are.
LEMMA MakingAFile ==
    ASSUME kind \in Seq({"socket", "other"}), NEW k \in {"socket", "other"}
    PROVE  /\ Append(kind, k) \in Seq({"socket", "other"})
           /\ Len(Append(kind, k)) = Len(kind) + 1
           /\ Append(kind, k)[Len(kind) + 1] = k
           /\ \A i \in 1..Len(kind) : Append(kind, k)[i] = kind[i]
OBVIOUS

\* Every system call of a start and of Drop keeps the types.
LEMMA TypesStep == SocketTypeOK /\ [SocketNext]_socketVars => Types'
<1> SUFFICES ASSUME SocketTypeOK, [SocketNext]_socketVars PROVE Types'
  OBVIOUS
<1> USE MaxFilesIsNat DEF Types, SocketTypeOK, HoldsItsStage, HasSocket, SocketStages, Starting, Dropping, Over, Files
<1>1. ASSUME NEW p \in Procs, TryLock(p) PROVE Types'
  BY <1>1 DEF TryLock, Goto
<1>2. ASSUME NEW p \in Procs, Stat(p) PROVE Types'
  BY <1>2 DEF Stat, GiveUp, Goto
<1>3. ASSUME NEW p \in Procs, Probe(p) PROVE Types'
  BY <1>3 DEF Probe, GiveUp, Goto
<1>4. ASSUME NEW p \in Procs, Unlink(p) PROVE Types'
  <2>1. pc' \in [Procs -> SocketStages]
    BY <1>4 DEF Unlink, GiveUp, Goto
  <2>2. path' \in 0..Len(kind) /\ kind' = kind /\ lock' \in Procs \union {NoProc}
    BY <1>4 DEF Unlink, GiveUp
  <2> QED
    BY <1>4, <2>1, <2>2 DEF Unlink, GiveUp
<1>5. ASSUME NEW p \in Procs, Bind(p) PROVE Types'
  <2>1. pc' \in [Procs -> SocketStages]
    BY <1>5 DEF Bind, GiveUp, Goto
  <2>2. CASE path # 0
    BY <1>5, <2>1, <2>2 DEF Bind, GiveUp
  <2>3. CASE path = 0
    <3>0. kind' = Append(kind, "socket") /\ Len(kind) < MaxFiles
      BY <1>5, <2>3 DEF Bind
    <3>1. kind' \in Seq({"socket", "other"}) /\ Len(kind') = Len(kind) + 1 /\ Len(kind') =< MaxFiles
      BY <3>0, MakingAFile
    <3>2. path' = Len(kind') /\ sock' = [sock EXCEPT ![p] = Len(kind')]
      BY <1>5, <2>3 DEF Bind
    <3>3. Len(kind') \in Nat
      BY <3>1
    <3>4. sock' \in [Procs -> 0..MaxFiles]
      BY <3>1, <3>2, <3>3
    <3>5. path' \in 0..Len(kind') /\ UNCHANGED <<lock, listening, private, mine>>
      BY <1>5, <2>3, <3>2, <3>3 DEF Bind
    <3> QED
      BY <2>1, <3>1, <3>4, <3>5
  <2> QED
    BY <2>2, <2>3
<1>6. ASSUME NEW p \in Procs, Listen(p) PROVE Types'
  <2>1. pc' \in [Procs -> SocketStages]
    BY <1>6 DEF Listen, Goto
  <2>2. sock[p] \in Files
    BY <1>6 DEF Listen
  <2> QED
    BY <1>6, <2>1, <2>2 DEF Listen
<1>7. ASSUME NEW p \in Procs, SetMode(p) PROVE Types'
  <2>1. pc' \in [Procs -> SocketStages]
    BY <1>7 DEF SetMode, Goto
  <2>2. private' \subseteq Files
    <3>1. path # 0 => path \in Files
      BY MaxFilesIsNat
    <3>2. private' \in {private, private \union {path}}
      BY <1>7 DEF SetMode
    <3>3. path # 0 \/ private' = private
      BY <1>7 DEF SetMode
    <3> QED
      BY <3>1, <3>2, <3>3
  <2> QED
    BY <1>7, <2>1, <2>2 DEF SetMode
<1>8. ASSUME NEW p \in Procs, Record(p) PROVE Types'
  <2>1. pc' \in [Procs -> SocketStages]
    BY <1>8 DEF Record, Goto
  <2>2. mine' \in [Procs -> 0..MaxFiles]
    BY <1>8 DEF Record
  <2> QED
    BY <1>8, <2>1, <2>2 DEF Record
<1>9. ASSUME NEW p \in Procs, Stop(p) PROVE Types'
  BY <1>9 DEF Stop, Goto
<1>10. ASSUME NEW p \in Procs, Remove(p) PROVE Types'
  BY <1>10 DEF Remove, Goto
<1>11. ASSUME NEW p \in Procs, Close(p) PROVE Types'
  BY <1>11 DEF Close, Goto
<1>12. ASSUME NEW p \in Procs, Unlock(p) PROVE Types'
  BY <1>12 DEF Unlock, Goto
<1>13. ASSUME NEW p \in Procs, Crash(p) PROVE Types'
  BY <1>13 DEF Crash, Goto
<1>14. ASSUME NEW p \in Procs, KernelCloses(p) PROVE Types'
  BY <1>14 DEF KernelCloses, Goto
<1>15. ASSUME NEW p \in Procs, Restart(p) PROVE Types'
  BY <1>15 DEF Restart, Goto
<1>16. CASE Meddle
  <2>1. CASE path' = 0 /\ UNCHANGED <<kind, listening>>
    BY <1>16, <2>1 DEF Meddle
  <2>2. ASSUME Len(kind) < MaxFiles,
               NEW k \in {"socket", "other"}, kind' = Append(kind, k),
               path' = Len(kind'), listening' \subseteq listening \union {path'}
        PROVE  Types'
    <3>1. kind' \in Seq({"socket", "other"}) /\ Len(kind') = Len(kind) + 1
      BY <2>2
    <3>2. path' \in Files
      BY <2>2, <3>1
    <3> QED
      BY <1>16, <2>2, <3>1, <3>2 DEF Meddle
  <2> QED
    BY <1>16, <2>1, <2>2 DEF Meddle
<1>17. CASE UNCHANGED socketVars
  BY <1>17 DEF socketVars
<1> QED
  BY <1>1, <1>2, <1>3, <1>4, <1>5, <1>6, <1>7, <1>8, <1>9, <1>10, <1>11, <1>12, <1>13, <1>14, <1>15, <1>16, <1>17 DEF SocketNext, Start, Drop

\* A process is past the lock exactly while it has the lock file locked: no
\* other start or Drop touches the path meanwhile (listen.rs, acquire_lock).
LEMMA HoldsStep == SocketTypeOK /\ [SocketNext]_socketVars => (\A p \in Procs : HoldsItsStage(p))'
<1> SUFFICES ASSUME SocketTypeOK, [SocketNext]_socketVars, NEW q \in Procs PROVE HoldsItsStage(q)'
  OBVIOUS
<1> USE NoProcIsNone, MaxFilesIsNat DEF SocketTypeOK, HoldsItsStage, Locked, HasSocket, Starting, Dropping, Over
<1>1. ASSUME NEW p \in Procs, TryLock(p) PROVE HoldsItsStage(q)'
  BY <1>1 DEF TryLock, Goto
<1>2. ASSUME NEW p \in Procs, Stat(p) PROVE HoldsItsStage(q)'
  BY <1>2 DEF Stat, GiveUp, Goto
<1>3. ASSUME NEW p \in Procs, Probe(p) PROVE HoldsItsStage(q)'
  BY <1>3 DEF Probe, GiveUp, Goto
<1>4. ASSUME NEW p \in Procs, Unlink(p) PROVE HoldsItsStage(q)'
  BY <1>4 DEF Unlink, GiveUp, Goto
<1>5. ASSUME NEW p \in Procs, Bind(p) PROVE HoldsItsStage(q)'
  BY <1>5 DEF Bind, GiveUp, Goto
<1>6. ASSUME NEW p \in Procs, Listen(p) PROVE HoldsItsStage(q)'
  BY <1>6 DEF Listen, Goto
<1>7. ASSUME NEW p \in Procs, SetMode(p) PROVE HoldsItsStage(q)'
  BY <1>7 DEF SetMode, Goto
<1>8. ASSUME NEW p \in Procs, Record(p) PROVE HoldsItsStage(q)'
  BY <1>8 DEF Record, Goto
<1>9. ASSUME NEW p \in Procs, Stop(p) PROVE HoldsItsStage(q)'
  BY <1>9 DEF Stop, Goto
<1>10. ASSUME NEW p \in Procs, Remove(p) PROVE HoldsItsStage(q)'
  BY <1>10 DEF Remove, Goto
<1>11. ASSUME NEW p \in Procs, Close(p) PROVE HoldsItsStage(q)'
  BY <1>11 DEF Close, Goto
<1>12. ASSUME NEW p \in Procs, Unlock(p) PROVE HoldsItsStage(q)'
  BY <1>12 DEF Unlock, Goto
<1>13. ASSUME NEW p \in Procs, Crash(p) PROVE HoldsItsStage(q)'
  BY <1>13 DEF Crash, Goto
<1>14. ASSUME NEW p \in Procs, KernelCloses(p) PROVE HoldsItsStage(q)'
  BY <1>14 DEF KernelCloses, Goto
<1>15. ASSUME NEW p \in Procs, Restart(p) PROVE HoldsItsStage(q)'
  BY <1>15 DEF Restart, Goto
<1>16. CASE Meddle
  BY <1>16 DEF Meddle
<1>17. CASE UNCHANGED socketVars
  BY <1>17 DEF socketVars
<1> QED
  BY <1>1, <1>2, <1>3, <1>4, <1>5, <1>6, <1>7, <1>8, <1>9, <1>10, <1>11, <1>12, <1>13, <1>14, <1>15, <1>16, <1>17 DEF SocketNext, Start, Drop

\* At first nobody runs and nothing is locked.
LEMMA TypeInit == SocketInit => SocketTypeOK
BY NoProcIsNone, MaxFilesIsNat
   DEF SocketInit, SocketTypeOK, HoldsItsStage, Locked, HasSocket, SocketStages, Starting, Dropping, Over, Files

\* Every step of a start or a Drop is made by the holder of the lock, whatever
\* is done to the path.
THEOREM SocketTypeCorrect == SocketSpec => []SocketTypeOK
<1>1. SocketTypeOK /\ [SocketNext]_socketVars => SocketTypeOK'
  BY TypesStep, HoldsStep DEF Types, SocketTypeOK
<1> QED
  BY TypeInit, <1>1, PTL DEF SocketSpec

-----------------------------------------------------------------------------
(* A live socket stays: three steps of kohagi-serve change the path, and   *)
(* whoever makes one holds the lock, which a server that is up holds too.  *)

\* What each step can do to the path.
LEMMA PathChanges ==
    ASSUME SocketTypeOK, [SocketNext]_socketVars, path' # path, ~Meddle
    PROVE  \E q \in Procs : Unlink(q) \/ Bind(q) \/ Remove(q)
BY DEF SocketNext, Start, Drop, socketVars, TryLock, Stat, Probe, Listen, SetMode, Record, Stop,
       Close, Unlock, Crash, KernelCloses, Restart, GiveUp

\* While a kohagi-serve is up no other one takes its socket off the path.
THEOREM LiveSocketIsKept == SocketSpec => LiveSocketStays
<1> DEFINE Stays == \A p \in Procs : pc[p] = "up" /\ path = sock[p] /\ path' # path => Meddle
<1>1. SocketTypeOK /\ [SocketNext]_socketVars => [Stays]_socketVars
  <2> SUFFICES ASSUME SocketTypeOK, [SocketNext]_socketVars, NEW p \in Procs, pc[p] = "up", path' # path, ~Meddle
               PROVE  FALSE
    OBVIOUS
  <2>1. PICK q \in Procs : Unlink(q) \/ Bind(q) \/ Remove(q)
    BY PathChanges
  <2>2. pc[q] \in {"unlink", "bind", "remove"}
    BY <2>1 DEF Unlink, Bind, Remove
  <2>3. lock = p /\ lock = q
    BY <2>2 DEF SocketTypeOK, HoldsItsStage, Locked, Starting, Dropping
  <2> QED
    BY <2>2, <2>3
<1> QED
  BY <1>1, SocketTypeCorrect, PTL DEF SocketSpec, LiveSocketStays

-----------------------------------------------------------------------------
(* What holds besides when nobody else touches the path between the calls  *)
(* that look at it, or make a file there, and the calls that rely on it.   *)

Relying == {"connect", "unlink", "listen", "chmod", "record", "remove"}
OthersKeepOut == Meddling \cap Relying = {}

\* What a process has learnt about the path at each stage, and still holds.
Knows(p) ==
    /\ pc[p] \in {"connect", "unlink"} => path # 0 /\ kind[path] = "socket"
    /\ pc[p] = "unlink" => path \notin listening
    /\ pc[p] \in {"listen", "chmod", "record", "remove"} => path = sock[p]
    /\ pc[p] = "up" => mine[p] = sock[p]
    /\ pc[p] \in {"record", "up"} => sock[p] \in private
    /\ pc[p] \in {"close", "unlock", "stopped"} => path # sock[p] \/ path = 0
    /\ sock[p] \in 0..Len(kind)
    /\ sock[p] # 0 => kind[sock[p]] = "socket"

SocketInv == SocketTypeOK /\ \A p \in Procs : Knows(p)

\* While others keep out, what a start found at the path is still there when it
\* acts on it, and what a server recorded as its own is its own.
LEMMA KnowsStep ==
    ASSUME OthersKeepOut, SocketInv, [SocketNext]_socketVars, NEW q \in Procs
    PROVE  Knows(q)'
<1> USE NoProcIsNone DEF SocketInv, SocketTypeOK, Knows
<1>0. \A p \in Procs : pc[p] \in Relying \union {"bind"} /\ pc[q] \in Relying => p = q
  BY DEF HoldsItsStage, Locked, Starting, Dropping, Relying
<1>1. ASSUME NEW p \in Procs, TryLock(p) PROVE Knows(q)'
  BY <1>0, <1>1 DEF TryLock, Goto, Relying
<1>2. ASSUME NEW p \in Procs, Stat(p) PROVE Knows(q)'
  BY <1>0, <1>2 DEF Stat, GiveUp, Goto, Relying
<1>3. ASSUME NEW p \in Procs, Probe(p) PROVE Knows(q)'
  BY <1>0, <1>3 DEF Probe, GiveUp, Goto, Relying
<1>4. ASSUME NEW p \in Procs, Unlink(p) PROVE Knows(q)'
  BY <1>0, <1>4 DEF Unlink, GiveUp, Goto, Relying
<1>5. ASSUME NEW p \in Procs, Bind(p) PROVE Knows(q)'
  <2>1. CASE path # 0
    BY <1>0, <1>5, <2>1 DEF Bind, GiveUp, Goto, Relying
  <2>2. CASE path = 0
    <3>1. kind' = Append(kind, "socket") /\ path' = Len(kind') /\ pc[p] = "bind"
      BY <1>5, <2>2 DEF Bind
    <3>2. /\ pc' = [pc EXCEPT ![p] = "listen"] /\ sock' = [sock EXCEPT ![p] = path']
          /\ mine' = mine /\ private' = private
      BY <1>5, <2>2, <3>1 DEF Bind, Goto
    <3>3. Len(kind') = Len(kind) + 1 /\ \A i \in 1..Len(kind) : kind'[i] = kind[i]
      BY <3>1, MakingAFile
    <3>4. kind'[path'] = "socket"
      BY <3>1, MakingAFile
    <3>5. CASE q = p
      BY <3>1, <3>2, <3>3, <3>4, <3>5
    <3>6. CASE q # p
      <4>1. pc'[q] = pc[q] /\ sock'[q] = sock[q] /\ pc[q] \notin Relying
        BY <1>0, <3>1, <3>2, <3>6
      <4> QED
        BY <3>1, <3>2, <3>3, <4>1 DEF Relying
    <3> QED
      BY <3>5, <3>6
  <2> QED
    BY <2>1, <2>2
<1>6. ASSUME NEW p \in Procs, Listen(p) PROVE Knows(q)'
  BY <1>0, <1>6 DEF Listen, Goto, Relying
<1>7. ASSUME NEW p \in Procs, SetMode(p) PROVE Knows(q)'
  BY <1>0, <1>7 DEF SetMode, Goto, Relying
<1>8. ASSUME NEW p \in Procs, Record(p) PROVE Knows(q)'
  BY <1>0, <1>8 DEF Record, Goto, Relying
<1>9. ASSUME NEW p \in Procs, Stop(p) PROVE Knows(q)'
  BY <1>0, <1>9 DEF Stop, Goto, Relying
<1>10. ASSUME NEW p \in Procs, Remove(p) PROVE Knows(q)'
  BY <1>0, <1>10 DEF Remove, Goto, Relying
<1>11. ASSUME NEW p \in Procs, Close(p) PROVE Knows(q)'
  BY <1>0, <1>11 DEF Close, Goto, Relying
<1>12. ASSUME NEW p \in Procs, Unlock(p) PROVE Knows(q)'
  BY <1>0, <1>12 DEF Unlock, Goto, Relying
<1>13. ASSUME NEW p \in Procs, Crash(p) PROVE Knows(q)'
  BY <1>0, <1>13 DEF Crash, Goto, Relying
<1>14. ASSUME NEW p \in Procs, KernelCloses(p) PROVE Knows(q)'
  BY <1>0, <1>14 DEF KernelCloses, Goto, Relying
<1>15. ASSUME NEW p \in Procs, Restart(p) PROVE Knows(q)'
  BY <1>0, <1>15 DEF Restart, Goto, Relying
<1>16. CASE Meddle
  <2>1. pc' = pc /\ sock' = sock /\ mine' = mine /\ private' = private /\ pc[q] \notin Relying
    BY <1>16 DEF Meddle, OthersKeepOut
  <2>2. CASE path' = 0 /\ kind' = kind
    BY <2>1, <2>2 DEF Relying
  <2>3. ASSUME NEW k \in {"socket", "other"}, kind' = Append(kind, k), path' = Len(kind')
        PROVE  Knows(q)'
    <3>1. Len(kind') = Len(kind) + 1 /\ \A i \in 1..Len(kind) : kind'[i] = kind[i]
      BY <2>3, MakingAFile
    <3> QED
      BY <2>1, <2>3, <3>1 DEF Relying
  <2> QED
    BY <1>16, <2>2, <2>3 DEF Meddle
<1>17. CASE UNCHANGED socketVars
  BY <1>17 DEF socketVars
<1> QED
  BY <1>1, <1>2, <1>3, <1>4, <1>5, <1>6, <1>7, <1>8, <1>9, <1>10, <1>11, <1>12, <1>13, <1>14, <1>15, <1>16, <1>17 DEF SocketNext, Start, Drop

\* The strengthened invariant holds throughout while others keep out.
THEOREM SocketInvariant == ASSUME OthersKeepOut PROVE SocketSpec => []SocketInv
<1>1. SocketInit => SocketInv
  BY TypeInit DEF SocketInit, SocketInv, Knows
<1>2. SocketInv /\ [SocketNext]_socketVars => SocketInv'
  BY TypesStep, HoldsStep, KnowsStep DEF SocketInv, Types, SocketTypeOK
<1> QED
  BY <1>1, <1>2, PTL DEF SocketSpec

\* Nothing is lost that was not kohagi-serve's own or stale: no file that is no
\* socket, and no socket that somebody else listens on.
THEOREM NothingElseIsRemoved ==
    ASSUME OthersKeepOut PROVE SocketSpec => RemovesOnlyItsOwnOrStale
<1> DEFINE Removal ==
       path # 0 /\ path' # path /\ ~Meddle
       => /\ kind[path] = "socket"
          /\ \/ path \notin listening
             \/ \E p \in Procs : path = sock[p] /\ Remove(p)
<1>1. SocketInv /\ [SocketNext]_socketVars => [Removal]_socketVars
  <2> SUFFICES ASSUME SocketInv, [SocketNext]_socketVars, path # 0, path' # path, ~Meddle
               PROVE  /\ kind[path] = "socket"
                      /\ \/ path \notin listening
                         \/ \E p \in Procs : path = sock[p] /\ Remove(p)
    OBVIOUS
  <2>1. PICK q \in Procs : Unlink(q) \/ Bind(q) \/ Remove(q)
    BY PathChanges DEF SocketInv
  <2>2. ~Bind(q)
    BY DEF Bind, GiveUp
  <2>3. CASE Unlink(q)
    BY <2>3 DEF Unlink, SocketInv, Knows
  <2>4. CASE Remove(q)
    BY <2>4 DEF Remove, SocketInv, Knows
  <2> QED
    BY <2>1, <2>2, <2>3, <2>4
<1> QED
  BY <1>1, SocketInvariant, PTL DEF SocketSpec, RemovesOnlyItsOwnOrStale

\* A server that stopped in order left no socket of its own; one that is up has
\* set the mode of the socket it listens on.
THEOREM OrderedStopIsClean == ASSUME OthersKeepOut PROVE SocketSpec => []StopsClean
<1>1. SocketInv => StopsClean
  BY DEF SocketInv, Knows, StopsClean
<1> QED
  BY <1>1, SocketInvariant, PTL

-----------------------------------------------------------------------------
(* A crash never costs the next start. Besides what a process knows: who   *)
(* still holds the lock, and whose sockets still listen.                   *)

\* Others neither make a file where a start is about to bind one.
OthersLeaveStartsAlone == OthersKeepOut /\ "bind" \notin Meddling

\* A socket belongs to one process, which has none before it binds one and
\* none open once it is over; the path it found free for bind is free.
Owns(p) ==
    /\ pc[p] \in {"lock", "stat", "connect", "unlink", "bind", "refused"} => sock[p] = 0
    /\ pc[p] \in {"stopped", "dead"} => sock[p] \notin listening
    /\ pc[p] = "unlock" => sock[p] \notin listening
    /\ pc[p] = "bind" => path = 0
    /\ lock = p => pc[p] \in Locked \union {"dying"}
    /\ \A q \in Procs : sock[p] = sock[q] => p = q \/ sock[p] = 0

OwnershipInv == SocketInv /\ \A p \in Procs : Owns(p)

\* Every step leaves each process its own socket, and nobody else's.
LEMMA OwnsStep ==
    ASSUME OthersLeaveStartsAlone, OwnershipInv, [SocketNext]_socketVars, NEW q \in Procs
    PROVE  Owns(q)'
<1> USE NoProcIsNone DEF OwnershipInv, SocketInv, SocketTypeOK, Owns, Locked, Starting, Dropping
<1>0. \A p \in Procs : pc[p] \in Locked /\ pc[q] \in Locked => p = q
  BY DEF HoldsItsStage
<1>a. \A p \in Procs : sock[p] \in 0..Len(kind)
  BY DEF Knows
<1>1. ASSUME NEW p \in Procs, TryLock(p) PROVE Owns(q)'
  BY <1>0, <1>1 DEF TryLock, Goto
<1>2. ASSUME NEW p \in Procs, Stat(p) PROVE Owns(q)'
  BY <1>0, <1>2 DEF Stat, GiveUp, Goto
<1>3. ASSUME NEW p \in Procs, Probe(p) PROVE Owns(q)'
  BY <1>0, <1>3 DEF Probe, GiveUp, Goto
<1>4. ASSUME NEW p \in Procs, Unlink(p) PROVE Owns(q)'
  BY <1>0, <1>4 DEF Unlink, GiveUp, Goto
<1>5. ASSUME NEW p \in Procs, Bind(p) PROVE Owns(q)'
  <2>1. CASE path # 0
    BY <1>0, <1>5, <2>1 DEF Bind, GiveUp, Goto
  <2>2. CASE path = 0
    <3>1. kind' = Append(kind, "socket") /\ path' = Len(kind') /\ Len(kind') = Len(kind) + 1
      BY <1>5, <2>2, MakingAFile DEF Bind
    <3>2. /\ pc' = [pc EXCEPT ![p] = "listen"] /\ sock' = [sock EXCEPT ![p] = path']
          /\ lock' = lock /\ listening' = listening
      BY <1>5, <2>2, <3>1 DEF Bind, Goto
    <3>3. pc[p] = "bind" /\ \A r \in Procs : sock[r] # path'
      BY <1>5, <1>a, <3>1 DEF Bind
    <3> QED
      BY <1>0, <3>2, <3>3
  <2> QED
    BY <2>1, <2>2
<1>6. ASSUME NEW p \in Procs, Listen(p) PROVE Owns(q)'
  BY <1>0, <1>6 DEF Listen, Goto, HoldsItsStage, HasSocket
<1>7. ASSUME NEW p \in Procs, SetMode(p) PROVE Owns(q)'
  BY <1>0, <1>7 DEF SetMode, Goto
<1>8. ASSUME NEW p \in Procs, Record(p) PROVE Owns(q)'
  BY <1>0, <1>8 DEF Record, Goto
<1>9. ASSUME NEW p \in Procs, Stop(p) PROVE Owns(q)'
  BY <1>0, <1>9 DEF Stop, Goto
<1>10. ASSUME NEW p \in Procs, Remove(p) PROVE Owns(q)'
  BY <1>0, <1>10 DEF Remove, Goto
<1>11. ASSUME NEW p \in Procs, Close(p) PROVE Owns(q)'
  BY <1>0, <1>11 DEF Close, Goto
<1>12. ASSUME NEW p \in Procs, Unlock(p) PROVE Owns(q)'
  BY <1>0, <1>12 DEF Unlock, Goto
<1>13. ASSUME NEW p \in Procs, Crash(p) PROVE Owns(q)'
  BY <1>0, <1>13 DEF Crash, Goto
<1>14. ASSUME NEW p \in Procs, KernelCloses(p) PROVE Owns(q)'
  BY <1>0, <1>14 DEF KernelCloses, Goto
<1>15. ASSUME NEW p \in Procs, Restart(p) PROVE Owns(q)'
  BY <1>0, <1>15 DEF Restart, Goto, Over
<1>16. CASE Meddle
  <2>1. pc' = pc /\ sock' = sock /\ lock' = lock /\ pc[q] # "bind"
    BY <1>16 DEF Meddle, OthersLeaveStartsAlone
  <2>2. CASE path' = 0 /\ listening' = listening
    BY <2>1, <2>2
  <2>3. ASSUME NEW k \in {"socket", "other"}, kind' = Append(kind, k), path' = Len(kind'),
               listening' \subseteq listening \union {path'}
        PROVE  Owns(q)'
    <3>1. Len(kind') = Len(kind) + 1
      BY <2>3, MakingAFile
    <3>2. sock[q] # path'
      BY <1>a, <2>3, <3>1
    <3> QED
      BY <2>1, <2>3, <3>2
  <2> QED
    BY <1>16, <2>2, <2>3 DEF Meddle
<1>17. CASE UNCHANGED socketVars
  BY <1>17 DEF socketVars
<1> QED
  BY <1>1, <1>2, <1>3, <1>4, <1>5, <1>6, <1>7, <1>8, <1>9, <1>10, <1>11, <1>12, <1>13, <1>14, <1>15, <1>16, <1>17 DEF SocketNext, Start, Drop

\* The ownership invariant holds throughout.
THEOREM OwnershipInvariant == ASSUME OthersLeaveStartsAlone PROVE SocketSpec => []OwnershipInv
<1>1. SocketInit => OwnershipInv
  BY TypeInit, NoProcIsNone DEF SocketInit, OwnershipInv, SocketInv, Knows, Owns
<1>2. OwnershipInv /\ [SocketNext]_socketVars => OwnershipInv'
  BY TypesStep, HoldsStep, KnowsStep, OwnsStep
     DEF OwnershipInv, SocketInv, Types, SocketTypeOK, OthersLeaveStartsAlone
<1> QED
  BY <1>1, <1>2, PTL DEF SocketSpec

\* Which steps refuse a start.
LEMMA WhoRefuses ==
    ASSUME SocketTypeOK, [SocketNext]_socketVars, NEW p \in Procs, pc[p] # "refused", pc'[p] = "refused"
    PROVE  TryLock(p) \/ Stat(p) \/ Probe(p) \/ Unlink(p) \/ Bind(p)
<1>1. ASSUME NEW q \in Procs, Start(q) \/ Drop(q) \/ Crash(q) \/ KernelCloses(q) \/ Restart(q)
      PROVE  q = p
  BY <1>1 DEF SocketTypeOK, Start, Drop, TryLock, Stat, Probe, Unlink, Bind, Listen, SetMode, Record,
              Stop, Remove, Close, Unlock, Crash, KernelCloses, Restart, GiveUp, Goto
<1>2. ~(Listen(p) \/ SetMode(p) \/ Record(p) \/ Drop(p) \/ Crash(p) \/ KernelCloses(p) \/ Restart(p))
  BY DEF SocketTypeOK, Drop, Listen, SetMode, Record, Stop, Remove, Close, Unlock, Crash, KernelCloses,
         Restart, Goto
<1>3. ~Meddle /\ ~UNCHANGED socketVars
  BY DEF Meddle, socketVars
<1> QED
  BY <1>1, <1>2, <1>3 DEF SocketNext, Start

\* A start fails only for a reason that is there: another process that has not
\* let go, or a file or a live socket of somebody else's. What a crash left
\* behind, a dead socket at the path or a lock file nobody holds, is none.
THEOREM CrashCostsNoStart ==
    ASSUME OthersLeaveStartsAlone PROVE SocketSpec => NoRefusalWithoutCause
<1> DEFINE Caused(p) ==
       \/ \E q \in Procs \ {p} : pc[q] \notin Over \union {"lock"}
       \/ path # 0 /\ (kind[path] = "other"
                       \/ \A q \in Procs : sock[q] # path /\ path \in listening)
<1> DEFINE Refusal == \A p \in Procs : pc[p] # "refused" /\ pc'[p] = "refused" => Caused(p)
<1>1. OwnershipInv /\ [SocketNext]_socketVars => [Refusal]_socketVars
  <2> SUFFICES ASSUME OwnershipInv, [SocketNext]_socketVars, NEW p \in Procs,
                      pc[p] # "refused", pc'[p] = "refused"
               PROVE  Caused(p)
    OBVIOUS
  <2>1. TryLock(p) \/ Stat(p) \/ Probe(p) \/ Unlink(p) \/ Bind(p)
    BY WhoRefuses DEF OwnershipInv, SocketInv
  <2>2. CASE TryLock(p)
    <3>1. lock # NoProc /\ pc[p] = "lock"
      BY <2>2 DEF TryLock, Goto, OwnershipInv, SocketInv, SocketTypeOK
    <3>2. lock \in Procs /\ pc[lock] \in Locked \union {"dying"}
      BY <3>1 DEF OwnershipInv, Owns, SocketInv, SocketTypeOK
    <3> QED
      BY <3>1, <3>2 DEF Locked, Starting, Dropping, Over
  <2>3. CASE Stat(p)
    <3>1. path # 0 /\ kind[path] # "socket"
      BY <2>3 DEF Stat, Goto, OwnershipInv, SocketInv, SocketTypeOK
    <3> QED
      BY <3>1 DEF OwnershipInv, SocketInv, SocketTypeOK
  <2>4. CASE Probe(p)
    <3>1. path \in listening /\ path # 0 /\ sock[p] = 0
      BY <2>4 DEF Probe, Goto, OwnershipInv, SocketInv, SocketTypeOK, Knows, Owns
    <3>2. CASE \E q \in Procs : sock[q] = path
      <4>1. PICK q \in Procs : sock[q] = path
        BY <3>2
      <4>2. q # p /\ pc[q] \notin Over \union {"lock"}
        BY <3>1, <4>1 DEF OwnershipInv, Owns, Over
      <4> QED
        BY <4>2
    <3> QED
      BY <3>1, <3>2
  <2>5. ~Unlink(p) /\ ~Bind(p)
    BY DEF Unlink, Bind, Goto, OwnershipInv, SocketInv, SocketTypeOK, Knows, Owns
  <2> QED
    BY <2>1, <2>2, <2>3, <2>4, <2>5
<1> QED
  BY <1>1, OwnershipInvariant, PTL DEF SocketSpec, NoRefusalWithoutCause

=============================================================================
