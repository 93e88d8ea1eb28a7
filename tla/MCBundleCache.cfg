\* The bound on crashes and versions may be reached, but a process can always
\* start again: there is no deadlock.
SPECIFICATION Spec
CONSTANTS
    Procs = {p1, p2}
    Files = {manifest, weights}
    MaxVersions = 3
    MaxCrashes = 2
    Kinds = {"compile", "convert"}
    Concurrent = {"compile"}
    WeightsSince <- BesideThenWeights
    NoProc = NoProc
SYMMETRY Symmetry
INVARIANTS NeverStale AloneSucceeds SupersededGone
