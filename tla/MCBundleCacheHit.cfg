SPECIFICATION Spec
CONSTANTS
    Procs = {p1, p2}
    Files = {manifest, weights}
    MaxVersions = 1
    MaxCrashes = 0
    Kinds = {"convert"}
    Concurrent = {"convert"}
    WeightsSince <- BesideThenWeights
    NoProc = NoProc
INVARIANT HitIsWhole
