\* A run ends.
SPECIFICATION Spec
CHECK_DEADLOCK FALSE
CONSTANTS
    BandBlock = 2
    NoWindow = NoWindow
    Window = 1
    CpuBudget = 32
    GpuBudget = 128
    Bf16Rows = 2
    Buckets = {4, 8}
    Pad = Pad
    MaxVersions = 2
    Positions = 8
    Lengths = {2, 6, 9}
    MaxRows = 1
    BatchSizes = {2, 3}
    MaxSeqs = {8, 9}
    Tasks = {"embed", "rerank"}
INVARIANT DigestNamesTheHead
