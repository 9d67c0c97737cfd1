\* No waitForAllTasks(), stop() called twice: no wakeup is lost.
CONSTANTS
    Workers = {w1, w2}
    Submitters = {s1, s2}
    Waiters = {}
    Stoppers = {x1, x2}
    Tasks = {t1, t2}
    None = None
SPECIFICATION FairSpec
PROPERTIES StopTerminates ImplementsExecutor
\* An idle or stopped pool stands still.
CHECK_DEADLOCK FALSE
