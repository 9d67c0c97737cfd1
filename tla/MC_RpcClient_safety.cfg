\* Two threads share the stub; the server may end, or close a connection.
CONSTANTS
    Threads = {t1, t2}
    MaxCalls = 3
    MaxStops = 1
    HeaderUnits = 1
    BodyUnits = 2
    MayTimeout = FALSE
    Nobody = Nobody
SPECIFICATION Spec
INVARIANTS UndisturbedSucceeds NoDescriptorLost
PROPERTY ImplementsRemoteCall
