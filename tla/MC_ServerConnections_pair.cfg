\* Two clients at once, which leave when they have their answers, and stop() at any time.
CONSTANTS
    Conns = {c1, c2}
    Workers = {w1, w2}
    MaxConnections = 2
    MaxFds = 3
    MaxRequests = 2
    Outstanding = 1
    Units = 2
    Patient = {c1, c2}
    MayStop = TRUE
    Listener = Listener
    None = None
SPECIFICATION Spec
SYMMETRY Symmetry
INVARIANTS AnswersIntact  ClosedByOne
\* When no client has anything left to do the server waits, or has stopped.
CHECK_DEADLOCK FALSE
