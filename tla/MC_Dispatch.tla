----------------------------- MODULE MC_Dispatch -----------------------------
(* Dispatch with a sequence of calls. *)
EXTENDS Dispatch

Call(service, method, a, b) ==
    [service |-> service, method |-> method, a |-> a, b |-> b,
     more_fields |-> <<>>, more_arguments |-> <<>>]

(* A client built from a newer .proto: metadata, a field with an unknown   *)
(* number, one whose type has changed, and b written twice.                *)
Newer(call) ==
    [call EXCEPT !.more_fields = << Record(7, "bytes", <<"key", "value">>),
                                    Record(9, "varint", 1), Record(1, "bytes", <<>>) >>,
                 !.more_arguments = << Record(2, "varint", call.b % W64),
                                       Record(3, "bytes", <<>>) >>]

MCCalls == <<
    Call("Calculator", "Add", -4, 3),
    Call("Calculator", "Add", 3, 3),
    Call("Calculator", "Sub", 2, 2),
    Call("Calculator", "Mul", -4, -1),
    Call("Calculator", "Mul", -2, 1),
    Call("Calculator", "Div", 0, -1),
    Call("Calculator", "Div", 1, 0),
    Newer(Call("Calculator", "Sub", 3, -1)),
    Call("Calculator", "Mod", 1, 1),
    Call("Other", "Add", 1, 1),
    Call("Other", "not UTF-8", 0, 0),
    [Call("Calculator", "Add", 1, 1) EXCEPT !.more_arguments = <<Unreadable>>],
    [Call("Calculator", "Add", 1, 1) EXCEPT !.more_fields = <<Unreadable>>] >>

First == CHOOSE c \in Callers : TRUE
MCCallsOf == [c \in Callers |-> IF c = First THEN DOMAIN MCCalls ELSE {3}]

MCNameOf == [o \in Objects |-> "Calculator"]
=============================================================================
