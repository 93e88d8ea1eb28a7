CONSTANTS
    Published <- MCPublished
    Local <- MCLocal
    Bundles <- MCBundles
    Built = {"coreml", "coreml-export", "metal"}
    Machines <- MCMachines
    MaxBucket = 16
    None = None
    Requests <- MCRequests
    Tokens <- MCTokens
    Score <- MCScore
SPECIFICATION Spec
INVARIANTS
    LoadedAsFlagged
    RepeatableOffline
    RepliesAreAsAsked
    RankedAsAsked
