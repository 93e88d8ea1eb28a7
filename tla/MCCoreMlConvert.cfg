SPECIFICATION Spec
CONSTANTS
    ckpt1 = ckpt1
    ckpt2 = ckpt2
    ckpt3 = ckpt3
    None = None
    Sources <- Alike
    Orders <- SomeOrders
    Foreign <- SomeForeign
    Texts <- SomeTexts
    Paddings = {0, 3}
    MaxConversions = 2
    Swaps = {"idle"}
INVARIANTS
    VectorsAreAsLabelled
    BucketLengthsDoNotShow
    ProgramIsSound
    EndedConversionIsServed
    ResolvesTheSameWay
