---------------------------- MODULE MCUnixSocket ----------------------------
(* UnixSocket for TLC.                                                     *)
EXTENDS UnixSocket, TLC

Symmetry == Permutations(Procs)

\* Others touch the path while a server is up or none is starting; not between
\* two of the system calls of one start or one Drop.
BetweenCalls == {"lock", "up", "close", "unlock", "dying"} \union Over
=============================================================================
