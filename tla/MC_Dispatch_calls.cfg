\* Two clients, two objects of the calculator service that replace each other,
\* integers of 3 bits.
CONSTANTS
    W32 = 8
    W64 = 64
    NotUtf8 = {"not UTF-8"}
    Callers = {c1, c2}
    Objects = {o1, o2}
    NameOf <- MCNameOf
    Calls <- MCCalls
    CallsOf <- MCCallsOf
    Ids = {1}
    Registering = {}
    MaxChanges = 3
SPECIFICATION Spec
INVARIANTS ResultsAreExact FailsForAReason NoCallAfterRemoval
PROPERTY EveryCallAnswered
