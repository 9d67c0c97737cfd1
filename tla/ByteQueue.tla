------------------------------ MODULE ByteQueue ------------------------------
(***************************************************************************)
(* What an rpc::Buffer is to its owner: a queue of bytes.  Bytes are put   *)
(* at the back or pushed at the front, and taken from the front.           *)
(***************************************************************************)
EXTENDS Integers, Sequences

CONSTANTS
    Data        \* the byte strings that are written

VARIABLES
    queue,
    result      \* what was taken last

Init ==
    /\ queue = <<>>
    /\ result = <<>>

Put(data) ==
    /\ queue' = queue \o data
    /\ UNCHANGED result

PushFront(data) ==
    /\ queue' = data \o queue
    /\ UNCHANGED result

Take(n) ==
    /\ result' = SubSeq(queue, 1, n)
    /\ queue' = SubSeq(queue, n + 1, Len(queue))

Next ==
    \/ \E data \in Data : Put(data) \/ PushFront(data)
    \/ \E n \in 0 .. Len(queue) : Take(n)

Spec == Init /\ [][Next]_<<queue, result>>
=============================================================================
