----------------------------- MODULE AskService -----------------------------
(***************************************************************************)
(* What one model promises the handlers that ask it: a line of at most     *)
(* Capacity waiting questions behind the one being answered, answered one  *)
(* at a time and in the order they were accepted, each at most once; a     *)
(* refusal on the spot when the line is full or the service has closed;    *)
(* and, once it closes, "gone" for everyone still in line.                 *)
(* ModelWorker is shown to implement this, once for each loaded model.     *)
(***************************************************************************)
EXTENDS Naturals, Sequences

CONSTANTS Callers,   \* whoever may ask
          Capacity   \* questions that may wait behind the one being answered, > 0

VARIABLES line,     \* accepted and not answered yet, oldest first
          answer,   \* what was answered and not collected yet
          call,     \* how each caller's last question stands
          up        \* "open", "dying" (it will answer nothing more), "closed"

serviceVars == <<line, answer, call, up>>

Answers == {"ok", "failed", "gone"}

closed == up = "closed"

\* A caller with a question out neither asks another nor forgets it; one that
\* left never comes back.
Free(r) == call[r] \notin {"waiting", "left"}

InLine(r) == \E i \in 1..Len(line) : line[i] = r

Init == /\ line = <<>>
        /\ answer = [r \in Callers |-> "none"]
        /\ call = [r \in Callers |-> "idle"]
        /\ up = "open"

Accept(r) == /\ Free(r) /\ ~closed
             /\ Len(line) =< Capacity
             /\ line' = Append(line, r)
             /\ call' = [call EXCEPT ![r] = "waiting"]
             /\ UNCHANGED <<answer, up>>

\* A full line: the questions waiting, not counting the one being answered.
RefuseBusy(r) == /\ Free(r) /\ ~closed
                 /\ Len(line) >= Capacity
                 /\ call' = [call EXCEPT ![r] = "busy"]
                 /\ UNCHANGED <<line, answer, up>>

RefuseGone(r) == /\ Free(r) /\ closed
                 /\ call' = [call EXCEPT ![r] = "gone"]
                 /\ UNCHANGED <<line, answer, up>>

\* Only the head of the line is answered; a caller that left is answered too,
\* and nobody collects it. The first "gone" is the last answer of all.
Answer(a) == /\ up = "open" /\ line # <<>>
             /\ up' = IF a = "gone" THEN "dying" ELSE up
             /\ line' = Tail(line)
             /\ answer' = [answer EXCEPT ![Head(line)] =
                             IF call[Head(line)] = "waiting" THEN a ELSE @]
             /\ UNCHANGED call

Collect(r) == /\ call[r] = "waiting"
              /\ answer[r] # "none"
              /\ call' = [call EXCEPT ![r] = answer[r]]
              /\ answer' = [answer EXCEPT ![r] = "none"]
              /\ UNCHANGED <<line, up>>

\* The caller goes off to ask someone else.
Forget(r) == /\ Free(r)
             /\ call' = [call EXCEPT ![r] = "idle"]
             /\ UNCHANGED <<line, answer, up>>

\* Callers that give up: their questions keep their places in line.
Leave(R) == /\ \A r \in R : call[r] = "waiting"
            /\ call' = [r \in Callers |-> IF r \in R THEN "left" ELSE call[r]]
            /\ answer' = [r \in Callers |-> IF r \in R THEN "none" ELSE answer[r]]
            /\ UNCHANGED <<line, up>>

Close == /\ ~closed
         /\ up' = "closed"
         /\ line' = <<>>
         /\ answer' = [r \in Callers |->
                         IF InLine(r) /\ call[r] = "waiting" THEN "gone" ELSE answer[r]]
         /\ UNCHANGED call

Next == \/ \E r \in Callers : \/ Accept(r) \/ RefuseBusy(r) \/ RefuseGone(r)
                              \/ Collect(r) \/ Forget(r)
        \/ \E a \in Answers : Answer(a)
        \/ \E R \in SUBSET Callers : Leave(R)
        \/ Close

Spec == Init /\ [][Next]_serviceVars

=============================================================================
