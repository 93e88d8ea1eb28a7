\* A run ends: done, or failed.
SPECIFICATION Spec
CHECK_DEADLOCK FALSE
CONSTANTS
    BandBlock = 2
    NoWindow = NoWindow
    MR = 2
    NB = 2
    NLANE = 2
    NcBlocks = 4
    CpuBudget = 16
    GpuBudget = 32
    Deployments <- SiluOnBf16
    Checkpoints <- OneCheckpoint
    Batches <- SomeBatches
INVARIANTS ActivationIsTheConfigs
