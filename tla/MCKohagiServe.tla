--------------------------- MODULE MCKohagiServe ---------------------------
(* KohagiServe for TLC.                                                    *)
EXTENDS KohagiServe, TLC

\* Connections are interchangeable (safety runs only).
Symmetry == Permutations(Callers)
=============================================================================
