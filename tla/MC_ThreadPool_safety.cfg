\* Two workers, two submitting threads, one waiter, one stop().
CONSTANTS
    Workers = {w1, w2}
    Submitters = {s1, s2}
    Waiters = {q1}
    Stoppers = {x1}
    Tasks = {t1, t2, t3}
    None = None
SPECIFICATION Spec
SYMMETRY Symmetry
INVARIANTS ExactlyOnce GracefulStop 
PROPERTY WaitMeansAllDone
\* An idle or stopped pool stands still.
CHECK_DEADLOCK FALSE
