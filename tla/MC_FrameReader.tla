--------------------------- MODULE MC_FrameReader ---------------------------
(* FrameReader with small sizes.  A stream is given by the body lengths of *)
(* its frames.                                                             *)
EXTENDS FrameReader

CONSTANT BodyLengths

(* Lengths above MaxFrameSize are refused. *)
MixedLengths == {<<2, 1, 2>>, <<1, 1, 1>>, <<1, 3, 1>>, <<3, 4, 4>>}
ValidLengths == {<<1, 1>>, <<1, 4>>, <<4, 1>>, <<4, 4>>}

Offset(lens, k) ==
    LET before[i \in 0..Len(lens)] ==
            IF i = 0 THEN 0 ELSE before[i - 1] + HeaderSize + lens[i]
    IN  before[k - 1]

MCStreams ==
    {[k \in 1..Len(lens) |-> [at |-> Offset(lens, k), len |-> lens[k]]] : lens \in BodyLengths}
=============================================================================
