----------------------------- MODULE UnixSocket -----------------------------
(***************************************************************************)
(* src/serve/listen.rs, the Unix half: several kohagi-serve processes that *)
(* are given the same unix:// path, started, stopped and killed at any     *)
(* moment, and the operator (or another program) who may put something     *)
(* else at the path. Every system call on the path is a step: the file can *)
(* change between any two of them.                                         *)
(*                                                                         *)
(* A file is its inode. A number is not used twice: a listening socket     *)
(* keeps its inode allocated after the path is gone.                       *)
(***************************************************************************)
EXTENDS Naturals, Sequences

CONSTANTS Procs,      \* kohagi-serve processes on one path
          MaxFiles,   \* files ever made at the path
          NoProc,
          Meddling    \* the stages of bind and Drop others may interfere with

VARIABLES pc,         \* each process, see SocketStages
          lock,       \* who holds the flock on <path>.lock
          path,       \* the file at the path, 0 for none
          kind,       \* what each file made so far is
          listening,  \* the files whose listening socket is open
          private,    \* the files whose mode was set to 0600
          sock,       \* the file each process bound
          mine        \* the file it recorded as its own: SocketFile's ino

socketVars == <<pc, lock, path, kind, listening, private, sock, mine>>

Files == 1..MaxFiles

\* The stage is the system call that comes next: try_lock, symlink_metadata,
\* connect, remove_file, bind, listen, chmod, and recording the inode; then the
\* server is up, and Drop looks, unlinks, closes and unlocks. A process that
\* failed after bind, or was killed, is dying until the kernel has closed what
\* it held.
Starting == {"lock", "stat", "connect", "unlink", "bind", "listen", "chmod", "record"}
Dropping == {"remove", "close", "unlock"}
Over == {"refused", "stopped", "dead"}
SocketStages == Starting \union {"up", "dying"} \union Dropping \union Over

ASSUME NoProcIsNone == NoProc \notin Procs
ASSUME MaxFilesIsNat == MaxFiles \in Nat
ASSUME MeddlingIsStages == Meddling \subseteq SocketStages

Locked == (Starting \ {"lock"}) \union {"up"} \union Dropping
HasSocket == {"listen", "chmod", "record", "up", "remove", "close"}

SocketInit ==
    /\ pc = [p \in Procs |-> "lock"]
    /\ lock = NoProc
    /\ path = 0 /\ kind = <<>>
    /\ listening = {} /\ private = {}
    /\ sock = [p \in Procs |-> 0]
    /\ mine = [p \in Procs |-> 0]

Goto(p, stage) == pc' = [pc EXCEPT ![p] = stage]

\* An error before there is a listener: the lock goes with it.
GiveUp(p) == /\ Goto(p, "refused")
             /\ lock' = NoProc
             /\ UNCHANGED <<path, kind, listening, private, sock, mine>>

-----------------------------------------------------------------------------
(* lock_socket and remove_stale_socket.                                    *)

\* Mutant: no lock; the probe alone decides.
TryLockNever(p) ==
    /\ pc[p] = "lock"
    /\ Goto(p, "stat") /\ lock' = p
    /\ UNCHANGED <<path, kind, listening, private, sock, mine>>

TryLock(p) ==
    /\ pc[p] = "lock"
    /\ IF lock = NoProc THEN lock' = p /\ Goto(p, "stat")
                        ELSE Goto(p, "refused") /\ UNCHANGED lock
    /\ UNCHANGED <<path, kind, listening, private, sock, mine>>

Stat(p) ==
    /\ pc[p] = "stat"
    /\ IF path # 0 /\ kind[path] # "socket"
       THEN GiveUp(p)
       ELSE /\ Goto(p, IF path = 0 THEN "bind" ELSE "connect")
            /\ UNCHANGED <<lock, path, kind, listening, private, sock, mine>>

\* Mutant: a socket at the path is always somebody's server.
ProbeTrustsTheFile(p) ==
    /\ pc[p] = "connect"
    /\ GiveUp(p)

\* ConnectionRefused is what a socket nobody listens on gives, and a file
\* that is no socket as well; a path that has gone is an error of its own.
Probe(p) ==
    /\ pc[p] = "connect"
    /\ IF path = 0 \/ path \in listening
       THEN GiveUp(p)
       ELSE Goto(p, "unlink") /\ UNCHANGED <<lock, path, kind, listening, private, sock, mine>>

Unlink(p) ==
    /\ pc[p] = "unlink"
    /\ IF path = 0
       THEN GiveUp(p)
       ELSE /\ path' = 0
            /\ Goto(p, "bind")
            /\ UNCHANGED <<lock, kind, listening, private, sock, mine>>

-----------------------------------------------------------------------------
(* bind_unix from bind on. An error leaves the file it bound behind.       *)

Bind(p) ==
    /\ pc[p] = "bind"
    /\ IF path # 0
       THEN GiveUp(p)  \* EADDRINUSE
       ELSE /\ Len(kind) < MaxFiles
            /\ kind' = Append(kind, "socket")
            /\ path' = Len(kind')
            /\ sock' = [sock EXCEPT ![p] = Len(kind')]
            /\ Goto(p, "listen")
            /\ UNCHANGED <<lock, listening, private, mine>>

Listen(p) ==
    /\ pc[p] = "listen"
    /\ listening' = listening \union {sock[p]}
    /\ Goto(p, "chmod")
    /\ UNCHANGED <<lock, path, kind, private, sock, mine>>

\* By path, like everything here: it is whatever is there now that is shut.
SetMode(p) ==
    /\ pc[p] = "chmod"
    /\ \/ path # 0 /\ private' = private \union {path} /\ Goto(p, "record")
       \/ Goto(p, "dying") /\ UNCHANGED private
    /\ UNCHANGED <<lock, path, kind, listening, sock, mine>>

\* Mutant: the lock is dropped once the start is over.
RecordDropsLock(p) ==
    /\ pc[p] = "record"
    /\ \/ path # 0 /\ mine' = [mine EXCEPT ![p] = path] /\ Goto(p, "up")
       \/ path = 0 /\ Goto(p, "dying") /\ UNCHANGED mine
    /\ lock' = NoProc
    /\ UNCHANGED <<path, kind, listening, private, sock>>

Record(p) ==
    /\ pc[p] = "record"
    /\ \/ path # 0 /\ mine' = [mine EXCEPT ![p] = path] /\ Goto(p, "up")
       \/ path = 0 /\ Goto(p, "dying") /\ UNCHANGED mine
    /\ UNCHANGED <<lock, path, kind, listening, private, sock>>

-----------------------------------------------------------------------------
(* Drop, when the server has stopped: look, unlink, then the fields go in  *)
(* order, the listener before the lock.                                    *)

\* Mutant: Drop unlinks the path, whatever is there.
StopUnchecked(p) ==
    /\ pc[p] = "up"
    /\ Goto(p, "remove")
    /\ UNCHANGED <<lock, path, kind, listening, private, sock, mine>>

\* Mutant: no Drop; closing the listener is taken to remove its file.
StopOnlyCloses(p) ==
    /\ pc[p] = "up"
    /\ Goto(p, "close")
    /\ UNCHANGED <<lock, path, kind, listening, private, sock, mine>>

Stop(p) ==
    /\ pc[p] = "up"
    /\ Goto(p, IF path # 0 /\ kind[path] = "socket" /\ path = mine[p] THEN "remove" ELSE "close")
    /\ UNCHANGED <<lock, path, kind, listening, private, sock, mine>>

Remove(p) ==
    /\ pc[p] = "remove"
    /\ path' = 0
    /\ Goto(p, "close")
    /\ UNCHANGED <<lock, kind, listening, private, sock, mine>>

Close(p) ==
    /\ pc[p] = "close"
    /\ listening' = listening \ {sock[p]}
    /\ Goto(p, "unlock")
    /\ UNCHANGED <<lock, path, kind, private, sock, mine>>

Unlock(p) ==
    /\ pc[p] = "unlock"
    /\ lock' = NoProc
    /\ Goto(p, "stopped")
    /\ UNCHANGED <<path, kind, listening, private, sock, mine>>

-----------------------------------------------------------------------------
(* A process is killed; the kernel closes its files, one by one, in        *)
(* whatever order; its supervisor starts it again.                         *)

Crash(p) ==
    /\ pc[p] \notin Over \union {"dying"}
    /\ Goto(p, "dying")
    /\ UNCHANGED <<lock, path, kind, listening, private, sock, mine>>

KernelCloses(p) ==
    /\ pc[p] = "dying"
    /\ \/ sock[p] \in listening /\ listening' = listening \ {sock[p]} /\ UNCHANGED <<pc, lock>>
       \/ lock = p /\ lock' = NoProc /\ UNCHANGED <<pc, listening>>
       \/ sock[p] \notin listening /\ lock # p /\ Goto(p, "dead") /\ UNCHANGED <<lock, listening>>
    /\ UNCHANGED <<path, kind, private, sock, mine>>

Restart(p) ==
    /\ pc[p] \in Over
    /\ Goto(p, "lock")
    /\ sock' = [sock EXCEPT ![p] = 0]
    /\ mine' = [mine EXCEPT ![p] = 0]
    /\ UNCHANGED <<lock, path, kind, listening, private>>

\* Someone else clears the path, or puts a file, a dead socket or a live one
\* of their own in the place of what is there.
Meddle ==
    /\ \A p \in Procs : pc[p] \in Meddling
    /\ \/ path # 0 /\ path' = 0 /\ UNCHANGED <<kind, listening>>
       \/ /\ Len(kind) < MaxFiles
          /\ \E k \in {"socket", "other"} : kind' = Append(kind, k)
          /\ path' = Len(kind')
          /\ listening' \in {listening} \union
                (IF kind'[path'] = "socket" THEN {listening \union {path'}} ELSE {})
    /\ UNCHANGED <<pc, lock, private, sock, mine>>

-----------------------------------------------------------------------------

Start(p) == \/ TryLock(p) \/ Stat(p) \/ Probe(p) \/ Unlink(p)
            \/ Bind(p) \/ Listen(p) \/ SetMode(p) \/ Record(p)
Drop(p) == Stop(p) \/ Remove(p) \/ Close(p) \/ Unlock(p)

SocketNext ==
    \/ \E p \in Procs : Start(p) \/ Drop(p) \/ Crash(p) \/ KernelCloses(p) \/ Restart(p)
    \/ Meddle

SocketSpec == SocketInit /\ [][SocketNext]_socketVars

-----------------------------------------------------------------------------
(* Properties.                                                             *)

\* With the stage go the resources: every step from the lock to the unlock is
\* made by the one process that holds the lock, and only it has a socket.
HoldsItsStage(p) == /\ pc[p] \in Locked => lock = p
                    /\ pc[p] \in HasSocket => sock[p] # 0

SocketTypeOK ==
    /\ pc \in [Procs -> SocketStages]
    /\ lock \in Procs \union {NoProc}
    /\ kind \in Seq({"socket", "other"}) /\ Len(kind) =< MaxFiles
    /\ path \in 0..Len(kind)
    /\ listening \subseteq Files /\ private \subseteq Files
    /\ sock \in [Procs -> 0..MaxFiles] /\ mine \in [Procs -> 0..MaxFiles]
    /\ \A p \in Procs : HoldsItsStage(p)

\* "The second then steals new clients": while a server is up, no other
\* kohagi-serve takes the path from it. Its socket stays there until it drops
\* it itself, unless others meddle (lock_socket's comment).
LiveSocketStays ==
    [][\A p \in Procs : pc[p] = "up" /\ path = sock[p] /\ path' # path => Meddle]_socketVars

\* What kohagi-serve takes off the path is its own socket or a stale one: never
\* a file that is no socket, never a socket somebody else listens on.
RemovesOnlyItsOwnOrStale ==
    [][path # 0 /\ path' # path /\ ~Meddle
       => /\ kind[path] = "socket"
          /\ \/ path \notin listening
             \/ \E p \in Procs : path = sock[p] /\ Remove(p)]_socketVars

\* A crash never costs the next start: a start fails only while another
\* process of kohagi-serve still holds something, when somebody else's file or
\* live socket is at the path, or on an error of chmod's.
NoRefusalWithoutCause ==
    [][\A p \in Procs : pc[p] # "refused" /\ pc'[p] = "refused"
         => \/ \E q \in Procs \ {p} : pc[q] \notin Over \union {"lock"}
            \/ path # 0 /\ (kind[path] = "other"
                            \/ \A q \in Procs : sock[q] # path /\ path \in listening)]_socketVars

\* A server that stopped in order leaves no socket of its own behind, and one
\* that is up has a socket only its owner can open.
StopsClean ==
    \A p \in Procs : /\ pc[p] \in {"close", "unlock", "stopped"} => path # sock[p] \/ path = 0
                     /\ pc[p] = "up" => sock[p] \in private

=============================================================================
