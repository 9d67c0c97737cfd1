\* Every operation, but shrink() not while bytes lie in the reserved front.
CONSTANTS
    kInitialSize = 2
    kPrependSize = 2
    kMaxBufferSize = 6
    ExtraSize = 2
    MaxSize = 5
    ShrinkAnytime = FALSE
    Bytes = {1, 2}
    MaxLen = 2
    Data <- MCData
SPECIFICATION OwnerSpec
PROPERTY ImplementsByteQueue
