---------------------------- MODULE MCBundleCache ----------------------------
(* BundleCache for TLC.                                                    *)
EXTENDS BundleCache, TLC

\* The second state of a checkpoint differs from the first beside the weights.
BesideThenWeights == [v \in 1..MaxVersions |-> IF v = 2 THEN 1 ELSE v]

Symmetry == Permutations(Procs) \union Permutations(Files)
=============================================================================
