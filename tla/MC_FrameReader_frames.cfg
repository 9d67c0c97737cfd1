\* Frames, valid and refused ones, cut anywhere by the network and by the reads;
\* the receive queue never holds more than one readv takes, and the limit is
\* GrownSize, the least at which makeSpace need not throw.
CONSTANTS
    kInitialSize = 1
    kPrependSize = 1
    kMaxBufferSize = 17
    HeaderSize = 2
    MaxFrameSize = 2
    ExtraSize = 4
    ReceiveQueue = 4
    BodyLengths <- MixedLengths
    Streams <- MCStreams
SPECIFICATION FairSpec
INVARIANTS BytesInOrder DeliveredInOrder NeverThrows
PROPERTY CatchesUp
\* Without further bytes from the peer the server waits.
CHECK_DEADLOCK FALSE
