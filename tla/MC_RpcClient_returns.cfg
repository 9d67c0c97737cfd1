\* Waits time out; nothing is asked of the server.
CONSTANTS
    Threads = {t1, t2}
    MaxCalls = 2
    MaxStops = 1
    HeaderUnits = 2
    BodyUnits = 1
    MayTimeout = TRUE
    Nobody = Nobody
SPECIFICATION FairSpec
INVARIANT ReturnedOnce
PROPERTIES  ExecutedOnce
