\* More clients than the server admits, one of which may leave at any time; stop() too.
CONSTANTS
    Conns = {c1, c2}
    Workers = {w1}
    MaxConnections = 1
    MaxFds = 2
    MaxRequests = 1
    Outstanding = 1
    Units = 2
    Patient = {c1}
    MayStop = TRUE
    Listener = Listener
    None = None
SPECIFICATION FairSpec
INVARIANTS SocketsBounded 
PROPERTIES  DescriptorsReturned StopReturns
\* When no client has anything left to do the server waits, or has stopped.
CHECK_DEADLOCK FALSE
