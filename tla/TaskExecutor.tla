---------------------------- MODULE TaskExecutor ----------------------------
(***************************************************************************)
(* What a thread pool promises its callers, without threads, locks or      *)
(* wakeups: a task accepted while the executor is open is executed once,   *)
(* and the executor only ends when all of those are done.  For a task      *)
(* taken in after closing nothing is promised, except that it is not       *)
(* executed after the end.                                                 *)
(***************************************************************************)
CONSTANT Tasks

VARIABLES status, open, ended

vars == <<status, open, ended>>

Move(t, from, to) ==
    /\ status[t] = from
    /\ status' = [status EXCEPT ![t] = to]
    /\ UNCHANGED <<open, ended>>

Init ==
    /\ status = [t \in Tasks |-> "new"]
    /\ open = TRUE
    /\ ended = FALSE

Accept(t)     == open /\ Move(t, "new", "accepted")
Refuse(t)     == ~open /\ Move(t, "new", "refused")
AcceptLate(t) == ~open /\ Move(t, "new", "late")

Complete(t)     == ~ended /\ Move(t, "accepted", "done")
CompleteLate(t) == ~ended /\ Move(t, "late", "done")

Close ==
    /\ open' = FALSE
    /\ UNCHANGED <<status, ended>>

End ==
    /\ ~open
    /\ \A t \in Tasks : status[t] # "accepted"
    /\ ended' = TRUE
    /\ UNCHANGED <<status, open>>

Next ==
    \/ \E t \in Tasks : \/ Accept(t) \/ Refuse(t) \/ AcceptLate(t)
                        \/ Complete(t) \/ CompleteLate(t)
    \/ Close
    \/ End

Spec == Init /\ [][Next]_vars

FairSpec == Spec /\ \A t \in Tasks : WF_vars(Complete(t))
=============================================================================
