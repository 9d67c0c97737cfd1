\* One thread, or two that share the stub; servers stop, the registry's answers
\* follow sooner or later, answers fail to come, the application disconnects.
CONSTANTS
    IndexRange = 2
    NoKey = ""
    DefaultKey = "default"
    Threads = {t1, t2}
    ThreadSets <- MCThreadSets
    Ids = {1, 2}
    Lists <- MCLists
    Names = {"RoundRobin", "LeastConnection"}
    MaxChanges = 2
    MaxRestarts = 1
    MaxFaults = 1
    MaxLost = 1
SPECIFICATION Spec
INVARIANTS SentToSelected CountsOpenAndLost
 
\* The bound on lost calls ends some behaviours.
CHECK_DEADLOCK FALSE
