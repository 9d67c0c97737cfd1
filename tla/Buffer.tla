------------------------------- MODULE Buffer -------------------------------
(***************************************************************************)
(* rpc::Buffer (src/include/buffer.h, src/src/utils/buffer.cpp): a byte    *)
(* vector with a reader and a writer index, as operators on a record       *)
(*   size    buffer_.size()                                                *)
(*   cells   the bytes, indexed from 0                                     *)
(*   reader  reader_index_                                                 *)
(*   writer  writer_index_                                                 *)
(* A byte is a natural number; what it stands for is the caller's matter.  *)
(***************************************************************************)
EXTENDS Integers, Sequences

CONSTANTS
    kInitialSize,
    kPrependSize,
    kMaxBufferSize,
    ExtraSize       \* sizeof(extra_buf) of readFromFd

ASSUME BufferAssumption ==
    /\ kInitialSize \in Nat
    /\ kPrependSize \in Nat
    /\ kMaxBufferSize \in Nat
    /\ ExtraSize \in Nat \ {0}

(* The indices are in order and inside the vector. *)
IsBuffer(b) ==
    /\ b.size \in Nat /\ b.reader \in Nat /\ b.writer \in Nat
    /\ b.cells \in [0 .. b.size - 1 -> Nat]
    /\ b.reader <= b.writer
    /\ b.writer <= b.size

Buf(size, cells, reader, writer) ==
    [size |-> size, cells |-> cells, reader |-> reader, writer |-> writer]

NewBuffer ==
    Buf(kPrependSize + kInitialSize,
        [i \in 0 .. kPrependSize + kInitialSize - 1 |-> 0],
        kPrependSize, kPrependSize)

ReadableBytes(b) == b.writer - b.reader
WritableBytes(b) == b.size - b.writer
PrependableBytes(b) == b.reader

(* The n bytes from peek() on; there are at least n. *)
PeekAsVector(b, n) == [i \in 1..n |-> b.cells[b.reader + i - 1]]

(* Everything that can be read. *)
Content(b) == PeekAsVector(b, ReadableBytes(b))

(* The bytes that can be read are numbered consecutively from p on. *)
Numbered(b, p) ==
    \A i \in b.reader .. b.writer - 1 : b.cells[i] = p + (i - b.reader)

(* Faulty variants, used only to test the properties. *)

(* The indices are reset and the bytes stay where they were. *)
MoveIndicesOnly(b) ==
    Buf(b.size, b.cells, kPrependSize, kPrependSize + ReadableBytes(b))

(* shrink() without its memmove. *)
ShrinkUnmoved(b, reserve) ==
    LET n == kPrependSize + ReadableBytes(b) + reserve
    IN  Buf(n, [i \in 0 .. n - 1 |-> IF i < b.size THEN b.cells[i] ELSE 0],
            kPrependSize, kPrependSize + ReadableBytes(b))

RetrieveAll(b) == Buf(b.size, b.cells, kPrependSize, kPrependSize)

Retrieve(b, len) ==
    IF len < ReadableBytes(b)
    THEN Buf(b.size, b.cells, b.reader + len, b.writer)
    ELSE RetrieveAll(b)

(* memcpy to beginWrite() and hasWritten(); the space is there. *)
Write(b, data) ==
    Buf(b.size,
        [i \in 0 .. b.size - 1 |->
            IF b.writer <= i /\ i < b.writer + Len(data)
            THEN data[i - b.writer + 1] ELSE b.cells[i]],
        b.reader, b.writer + Len(data))

(* memmove of what is readable to the front. *)
MoveToFront(b) ==
    Buf(b.size,
        [i \in 0 .. b.size - 1 |->
            IF kPrependSize <= i /\ i < kPrependSize + ReadableBytes(b)
            THEN b.cells[i - kPrependSize + b.reader] ELSE b.cells[i]],
        kPrependSize, kPrependSize + ReadableBytes(b))

(* std::vector::resize: new bytes are zero. *)
Resize(b, n) ==
    Buf(n, [i \in 0 .. n - 1 |-> IF i < b.size THEN b.cells[i] ELSE 0],
        b.reader, b.writer)

MustGrow(b, len) ==
    WritableBytes(b) + PrependableBytes(b) < len + kPrependSize

MakeSpace(b, len) ==
    IF MustGrow(b, len) THEN Resize(b, b.writer + len) ELSE MoveToFront(b)

(* makeSpace throws std::runtime_error instead of growing past the limit. *)
AppendThrows(b, len) ==
    /\ WritableBytes(b) < len
    /\ MustGrow(b, len)
    /\ b.writer + len > kMaxBufferSize

EnsureWritableBytes(b, len) ==
    IF WritableBytes(b) < len THEN MakeSpace(b, len) ELSE b

AppendBytes(b, data) == Write(EnsureWritableBytes(b, Len(data)), data)

(* readFromFd: readv fills the writable part first; what does not fit was   *)
(* read into extra_buf and is appended.  "data" is what readv returned.     *)
FillFromFd(b, data) ==
    LET writable == WritableBytes(b)
    IN  IF Len(data) <= writable
        THEN Write(b, data)
        ELSE AppendBytes(Write(b, SubSeq(data, 1, writable)),
                         SubSeq(data, writable + 1, Len(data)))

FillThrows(b, len) ==
    /\ len > WritableBytes(b)
    /\ AppendThrows(Buf(b.size, b.cells, b.reader, b.size), len - WritableBytes(b))

(* prepend throws when the space in front does not suffice. *)
PrependThrows(b, len) == len > PrependableBytes(b)

Prepend(b, data) ==
    Buf(b.size,
        [i \in 0 .. b.size - 1 |->
            IF b.reader - Len(data) <= i /\ i < b.reader
            THEN data[i - b.reader + Len(data) + 1] ELSE b.cells[i]],
        b.reader - Len(data), b.writer)

Shrink(b, reserve) ==
    Resize(MoveToFront(b), kPrependSize + ReadableBytes(b) + reserve)
=============================================================================
