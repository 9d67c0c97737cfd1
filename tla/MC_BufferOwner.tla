--------------------------- MODULE MC_BufferOwner ---------------------------
(* BufferOwner with two byte values and strings of up to MaxLen bytes.    *)
EXTENDS BufferOwner

CONSTANTS Bytes, MaxLen

MCData == UNION {[1..n -> Bytes] : n \in 0..MaxLen}
=============================================================================
