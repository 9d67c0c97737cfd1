----------------------------- MODULE BufferOwner -----------------------------
(***************************************************************************)
(* One rpc::Buffer and the calls of its owner, in any order that           *)
(* src/include/buffer.h allows.                                            *)
(***************************************************************************)
EXTENDS Buffer

CONSTANTS
    Data,           \* the byte strings that are written, or read from the fd
    MaxSize,        \* bound: the largest vector shrink() is asked for; unlike
                    \* makeSpace it has no limit of its own
    ShrinkAnytime   \* the owner also calls shrink() while prepended bytes lie
                    \* in the reserved front

ASSUME OwnerAssumption ==
    /\ \A data \in Data : data \in Seq(Nat)
    /\ \A data \in Data : \A n \in 0 .. Len(data) : SubSeq(data, 1, n) \in Data
    /\ MaxSize \in Nat
    /\ ShrinkAnytime \in BOOLEAN

VARIABLES
    buf,
    result      \* what retrieveAsVector returned last

OwnerInit ==
    /\ buf = NewBuffer
    /\ result = <<>>

(* append, appendInt.  When it throws nothing has changed. *)
DoAppend(data) ==
    /\ ~AppendThrows(buf, Len(data))
    /\ buf' = AppendBytes(buf, data)
    /\ UNCHANGED result

(* readFromFd; readv returns no more than it was offered.  When it throws, *)
(* the first part is in the buffer and the rest is lost.                   *)
DoReadFromFd(data) ==
    LET writable == WritableBytes(buf)
    IN  /\ Len(data) <= writable + (IF writable < ExtraSize THEN ExtraSize ELSE 0)
        /\ buf' = IF FillThrows(buf, Len(data))
                  THEN Write(buf, SubSeq(data, 1, writable))
                  ELSE FillFromFd(buf, data)
        /\ UNCHANGED result

(* retrieveAsVector and readInt, and retrieve, which returns nothing. *)
DoRetrieve(len) ==
    /\ result' = PeekAsVector(buf, IF len > ReadableBytes(buf) THEN ReadableBytes(buf) ELSE len)
    /\ buf' = Retrieve(buf, len)

DoPrepend(data) ==
    /\ ~PrependThrows(buf, Len(data))
    /\ buf' = Prepend(buf, data)
    /\ UNCHANGED result

DoShrink(reserve) ==
    /\ ShrinkAnytime \/ PrependableBytes(buf) >= kPrependSize
    /\ kPrependSize + ReadableBytes(buf) + reserve <= MaxSize
    /\ buf' = Shrink(buf, reserve)
    /\ UNCHANGED result

OwnerNext ==
    \/ \E data \in Data : DoAppend(data) \/ DoReadFromFd(data) \/ DoPrepend(data)
    \/ \E len \in 0 .. ReadableBytes(buf) + 1 : DoRetrieve(len)
    \/ \E reserve \in 0..MaxSize : DoShrink(reserve)

OwnerSpec == OwnerInit /\ [][OwnerNext]_<<buf, result>>

-----------------------------------------------------------------------------
(* Properties *)

(* reader_index_ <= writer_index_ <= buffer_.size(), after any calls: the  *)
(* unsigned differences that readableBytes() and writableBytes() return    *)
(* never wrap around (buffer.h:42-49).                                     *)
OwnerTypeOK == IsBuffer(buf) /\ result \in Seq(Nat)

(* The buffer behaves as a queue of bytes: growing, moving to the front,   *)
(* the reuse of the space in front and the split of readFromFd are never   *)
(* seen ("moves the valid data to the front", buffer.h:182 and :241).      *)
Queue == INSTANCE ByteQueue WITH queue <- Content(buf)
ImplementsByteQueue == Queue!Spec
=============================================================================
