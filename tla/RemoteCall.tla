----------------------------- MODULE RemoteCall -----------------------------
(***************************************************************************)
(* What a remote call promises its caller, without connections, threads or *)
(* messages: the method is executed at most once per call, and a call that *)
(* returns true returns the result of its own execution.  A call may fail  *)
(* whether or not its method is executed, before or after.                 *)
(***************************************************************************)
CONSTANT Calls

VARIABLES
    outcome,     \* "none", "running", "true" or "false", per call
    answer,      \* the call whose result was returned, NoAnswer without one
    executed     \* "no", or how the method ended: "ok" or "error"

CONSTANT NoAnswer

vars == <<outcome, answer, executed>>

Init ==
    /\ outcome = [r \in Calls |-> "none"]
    /\ answer = [r \in Calls |-> NoAnswer]
    /\ executed = [r \in Calls |-> "no"]

Call(r) ==
    /\ outcome[r] = "none"
    /\ outcome' = [outcome EXCEPT ![r] = "running"]
    /\ UNCHANGED <<answer, executed>>

Execute(r) ==
    /\ outcome[r] # "none"
    /\ executed[r] = "no"
    /\ \E how \in {"ok", "error"} : executed' = [executed EXCEPT ![r] = how]
    /\ UNCHANGED <<outcome, answer>>

Answer(r) ==
    /\ outcome[r] = "running"
    /\ executed[r] # "no"
    /\ outcome' = [outcome EXCEPT ![r] = "true"]
    /\ answer' = [answer EXCEPT ![r] = r]
    /\ UNCHANGED executed

Fail(r) ==
    /\ outcome[r] = "running"
    /\ outcome' = [outcome EXCEPT ![r] = "false"]
    /\ UNCHANGED <<answer, executed>>

Next == \E r \in Calls : Call(r) \/ Execute(r) \/ Answer(r) \/ Fail(r)

Spec == Init /\ [][Next]_vars
=============================================================================
