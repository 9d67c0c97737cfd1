-------------------------- MODULE FrameReaderProofs --------------------------
(***************************************************************************)
(* Theorems about FrameReader and BufferOwner, for streams and sizes of    *)
(* any length.                                                             *)
(* First what the operators of Buffer do to bytes that are numbered        *)
(* consecutively: growing the vector and moving its content keep what can  *)
(* be read, and readFromFd adds to its end exactly what was read, however  *)
(* that is split between the vector and extra_buf.  Then two invariants:   *)
(* BytesInv says what the buffer holds and how full it is when the thread  *)
(* goes to read, Framing how far the decode loop has come.                 *)
(* Last the buffer by itself, whatever its owner calls (BufferOwner): it   *)
(* always holds some string of bytes (Holds), and each call does to it     *)
(* what it does to the queue of ByteQueue.                                 *)
(***************************************************************************)
EXTENDS FrameReader, BufferOwner, SequenceTheorems, TLAPS

-----------------------------------------------------------------------------
(* The buffer *)

(* A buffer with room for the reserved front. *)
Roomy(b) == IsBuffer(b) /\ kPrependSize <= b.size

(* n bytes in hand, numbered consecutively from p on. *)
Bytes(data, n, p) ==
    /\ data \in Seq(Nat) /\ Len(data) = n
    /\ \A i \in 1..n : data[i] = p + (i - 1)

LEMMA RoomyFields ==
    ASSUME NEW b, Roomy(b)
    PROVE  /\ b.size \in Nat /\ b.reader \in Nat /\ b.writer \in Nat
           /\ b.reader <= b.writer /\ b.writer <= b.size
           /\ kPrependSize \in Nat /\ kPrependSize <= b.size
           /\ ReadableBytes(b) = b.writer - b.reader /\ ReadableBytes(b) \in Nat
           /\ WritableBytes(b) = b.size - b.writer /\ WritableBytes(b) \in Nat
  <1>1. /\ b.size \in Nat /\ b.reader \in Nat /\ b.writer \in Nat
        /\ b.reader <= b.writer /\ b.writer <= b.size
        /\ kPrependSize \in Nat /\ kPrependSize <= b.size
    BY BufferAssumption DEF Roomy, IsBuffer
  <1>2. ReadableBytes(b) = b.writer - b.reader /\ WritableBytes(b) = b.size - b.writer
    BY DEF ReadableBytes, WritableBytes
  <1>3. b.writer - b.reader \in Nat /\ b.size - b.writer \in Nat
    BY <1>1
  <1> QED BY <1>1, <1>2, <1>3

LEMMA RoomyCells ==
    ASSUME NEW b, Roomy(b)
    PROVE  /\ b.cells \in [0 .. b.size - 1 -> Nat]
           /\ \A i \in 0 .. b.size - 1 : b.cells[i] \in Nat
  BY DEF Roomy, IsBuffer

LEMMA MakeRoomy ==
    ASSUME NEW size \in Nat, NEW cells \in [0 .. size - 1 -> Nat],
           NEW reader \in Nat, NEW writer \in Nat,
           reader <= writer, writer <= size, kPrependSize <= size
    PROVE  Roomy(Buf(size, cells, reader, writer))
  BY DEF Roomy, IsBuffer, Buf

LEMMA NewBufferNumbered ==
    /\ Roomy(NewBuffer) /\ Numbered(NewBuffer, 0)
    /\ ReadableBytes(NewBuffer) = 0
    /\ NewBuffer.size = kPrependSize + kInitialSize
  <1>1. Roomy(NewBuffer)
    BY BufferAssumption, MakeRoomy DEF NewBuffer
  <1>2. /\ NewBuffer.reader = kPrependSize /\ NewBuffer.writer = kPrependSize
        /\ NewBuffer.size = kPrependSize + kInitialSize
    BY DEF NewBuffer, Buf
  <1> QED BY <1>1, <1>2, BufferAssumption DEF Numbered, ReadableBytes

LEMMA RetrieveAllNumbered ==
    ASSUME NEW b, Roomy(b), NEW p
    PROVE  /\ Roomy(RetrieveAll(b)) /\ Numbered(RetrieveAll(b), p)
           /\ ReadableBytes(RetrieveAll(b)) = 0
           /\ RetrieveAll(b).size = b.size
  <1>r. /\ b.size \in Nat /\ b.reader \in Nat /\ b.writer \in Nat
        /\ b.reader <= b.writer /\ b.writer <= b.size
        /\ kPrependSize \in Nat /\ kPrependSize <= b.size
        /\ ReadableBytes(b) = b.writer - b.reader /\ ReadableBytes(b) \in Nat
        /\ WritableBytes(b) = b.size - b.writer /\ WritableBytes(b) \in Nat
    BY RoomyFields
  <1>0. SUFFICES ASSUME NEW c, c = RetrieveAll(b)
                 PROVE  /\ Roomy(c) /\ Numbered(c, p)
                        /\ ReadableBytes(c) = 0 /\ c.size = b.size
    OBVIOUS
  <1>1. Roomy(c)
    <2>1. c = Buf(b.size, b.cells, kPrependSize, kPrependSize)
      BY <1>0 DEF RetrieveAll
    <2>2. kPrependSize <= kPrependSize
      BY <1>r
    <2> QED BY <2>1, <2>2, <1>r, RoomyCells, MakeRoomy
  <1>2. c.reader = kPrependSize /\ c.writer = kPrependSize /\ c.size = b.size
    BY <1>0 DEF RetrieveAll, Buf
  <1> QED BY <1>1, <1>2, BufferAssumption DEF Numbered, ReadableBytes

LEMMA RetrieveNumbered ==
    ASSUME NEW b, Roomy(b), NEW p \in Int, Numbered(b, p),
           NEW n \in Nat, n <= ReadableBytes(b)
    PROVE  /\ Roomy(Retrieve(b, n)) /\ Numbered(Retrieve(b, n), p + n)
           /\ ReadableBytes(Retrieve(b, n)) = ReadableBytes(b) - n
           /\ Retrieve(b, n).size = b.size
  <1>r. /\ b.size \in Nat /\ b.reader \in Nat /\ b.writer \in Nat
        /\ b.reader <= b.writer /\ b.writer <= b.size
        /\ kPrependSize \in Nat /\ kPrependSize <= b.size
        /\ ReadableBytes(b) = b.writer - b.reader /\ ReadableBytes(b) \in Nat
        /\ WritableBytes(b) = b.size - b.writer /\ WritableBytes(b) \in Nat
    BY RoomyFields
  <1>0. SUFFICES ASSUME NEW c, c = Retrieve(b, n)
                 PROVE  /\ Roomy(c) /\ Numbered(c, p + n)
                        /\ ReadableBytes(c) = ReadableBytes(b) - n /\ c.size = b.size
    OBVIOUS
  <1>1. CASE n < ReadableBytes(b)
    <2>1. c = Buf(b.size, b.cells, b.reader + n, b.writer)
      BY <1>0, <1>1 DEF Retrieve
    <2>a. b.reader + n \in Nat /\ b.reader + n <= b.writer
      BY <1>1, <1>r
    <2>2. Roomy(c)
      BY <2>1, <2>a, <1>r, RoomyCells, MakeRoomy
    <2>3. c.size = b.size /\ c.cells = b.cells /\ c.reader = b.reader + n /\ c.writer = b.writer
      BY <2>1 DEF Buf
    <2>4. ASSUME NEW i \in c.reader .. c.writer - 1
          PROVE  c.cells[i] = (p + n) + (i - c.reader)
      <3>1. i \in b.reader .. b.writer - 1
        BY <2>3, <1>r
      <3>2. b.cells[i] = p + (i - b.reader)
        BY <3>1 DEF Numbered
      <3> QED BY <2>3, <3>1, <3>2, <1>r
    <2> QED BY <2>2, <2>3, <2>4, <1>r DEF Numbered, ReadableBytes
  <1>2. CASE ~(n < ReadableBytes(b))
    <2>1. n = ReadableBytes(b) /\ c = RetrieveAll(b)
      BY <1>0, <1>2, <1>r DEF Retrieve
    <2>2. ReadableBytes(b) - n = 0
      BY <2>1, <1>r
    <2> QED BY <2>1, <2>2, RetrieveAllNumbered
  <1> QED BY <1>1, <1>2

(* What peek() gives are the bytes from p on. *)
LEMMA PeekNumbered ==
    ASSUME NEW b, Roomy(b), NEW p \in Int, Numbered(b, p),
           NEW n \in Nat, n <= ReadableBytes(b)
    PROVE  /\ PeekAsVector(b, n) = [i \in 1..n |-> p + (i - 1)]
           /\ PeekAsVector(b, n) \in Seq(Nat)
  <1>r. /\ b.size \in Nat /\ b.reader \in Nat /\ b.writer \in Nat
        /\ b.reader <= b.writer /\ b.writer <= b.size
        /\ kPrependSize \in Nat /\ kPrependSize <= b.size
        /\ ReadableBytes(b) = b.writer - b.reader /\ ReadableBytes(b) \in Nat
        /\ WritableBytes(b) = b.size - b.writer /\ WritableBytes(b) \in Nat
    BY RoomyFields
  <1>1. ASSUME NEW i \in 1..n
        PROVE  /\ b.cells[b.reader + i - 1] = p + (i - 1)
               /\ b.cells[b.reader + i - 1] \in Nat
    <2>1. PICK k \in Int : k = b.reader + i - 1
      BY <1>r
    <2>2. k \in b.reader .. b.writer - 1 /\ k \in 0 .. b.size - 1 /\ k - b.reader = i - 1
      BY <2>1, <1>r
    <2>3. b.cells[k] = p + (k - b.reader)
      BY <2>2 DEF Numbered
    <2>4. b.cells[k] \in Nat
      BY <2>2, RoomyCells
    <2> QED BY <2>1, <2>2, <2>3, <2>4
  <1>2. PeekAsVector(b, n) = [i \in 1..n |-> b.cells[b.reader + i - 1]]
    BY DEF PeekAsVector
  <1>3. [i \in 1..n |-> b.cells[b.reader + i - 1]] = [i \in 1..n |-> p + (i - 1)]
    BY <1>1
  <1>4. [i \in 1..n |-> b.cells[b.reader + i - 1]] \in [1..n -> Nat]
    BY <1>1
  <1> QED BY <1>2, <1>3, <1>4, SeqDef

LEMMA WriteNumbered ==
    ASSUME NEW b, Roomy(b), NEW p \in Int, Numbered(b, p),
           NEW n \in Nat, n <= WritableBytes(b),
           NEW data, Bytes(data, n, p + ReadableBytes(b))
    PROVE  /\ Roomy(Write(b, data)) /\ Numbered(Write(b, data), p)
           /\ ReadableBytes(Write(b, data)) = ReadableBytes(b) + n
           /\ WritableBytes(Write(b, data)) = WritableBytes(b) - n
           /\ Write(b, data).size = b.size
           /\ Write(b, data).reader = b.reader
           /\ Write(b, data).writer = b.writer + n
  <1>r. /\ b.size \in Nat /\ b.reader \in Nat /\ b.writer \in Nat
        /\ b.reader <= b.writer /\ b.writer <= b.size
        /\ kPrependSize \in Nat /\ kPrependSize <= b.size
        /\ ReadableBytes(b) = b.writer - b.reader /\ ReadableBytes(b) \in Nat
        /\ WritableBytes(b) = b.size - b.writer /\ WritableBytes(b) \in Nat
    BY RoomyFields
  <1>0. SUFFICES ASSUME NEW c, c = Write(b, data)
                 PROVE  /\ Roomy(c) /\ Numbered(c, p)
                        /\ ReadableBytes(c) = ReadableBytes(b) + n
                        /\ WritableBytes(c) = WritableBytes(b) - n
                        /\ c.size = b.size /\ c.reader = b.reader
                        /\ c.writer = b.writer + n
    OBVIOUS
  <1>1. /\ Len(data) = n
        /\ \A i \in 1..n : data[i] \in Nat /\ data[i] = (p + ReadableBytes(b)) + (i - 1)
    BY DEF Bytes
  <1>2. c.size = b.size /\ c.reader = b.reader /\ c.writer = b.writer + n
    BY <1>0, <1>1 DEF Write, Buf
  <1>3. /\ DOMAIN c.cells = 0 .. b.size - 1
        /\ \A i \in 0 .. b.size - 1 :
              c.cells[i] = IF b.writer <= i /\ i < b.writer + n
                           THEN data[i - b.writer + 1] ELSE b.cells[i]
    BY <1>0, <1>1 DEF Write, Buf
  <1>4. ASSUME NEW i \in 0 .. b.size - 1, b.writer <= i, i < b.writer + n
        PROVE  /\ data[i - b.writer + 1] \in Nat
               /\ data[i - b.writer + 1] = p + (i - b.reader)
    <2>1. PICK k \in Int : k = i - b.writer + 1
      BY <1>r
    <2>2. k \in 1..n
      BY <1>4, <2>1, <1>r
    <2>3. data[k] \in Nat /\ data[k] = (p + ReadableBytes(b)) + (k - 1)
      BY <1>1, <2>2
    <2>4. (p + ReadableBytes(b)) + (k - 1) = p + (i - b.reader)
      BY <2>1, <1>r
    <2> QED BY <2>1, <2>2, <2>3, <2>4
  <1>5. c.cells \in [0 .. b.size - 1 -> Nat]
    <2>1. \A i \in 0 .. b.size - 1 : c.cells[i] \in Nat
      BY <1>3, <1>4, RoomyCells
    <2>2. c.cells = [i \in 0 .. b.size - 1 |-> c.cells[i]]
      BY <1>0 DEF Write, Buf
    <2> QED BY <2>1, <2>2
  <1>6. b.writer + n \in Nat /\ b.reader <= b.writer + n /\ b.writer + n <= b.size
    BY <1>r
  <1>7. Roomy(c)
    BY <1>2, <1>5, <1>6, <1>r DEF Roomy, IsBuffer
  <1>8. ASSUME NEW i \in c.reader .. c.writer - 1
        PROVE  c.cells[i] = p + (i - c.reader)
    <2>1. i \in 0 .. b.size - 1 /\ b.reader <= i /\ i < b.writer + n
      BY <1>2, <1>6, <1>r
    <2>2. CASE i < b.writer
      <3>1. ~(b.writer <= i) /\ i \in b.reader .. b.writer - 1
        BY <2>1, <2>2, <1>r
      <3>2. c.cells[i] = b.cells[i]
        BY <1>3, <2>1, <3>1
      <3> QED BY <1>2, <3>1, <3>2 DEF Numbered
    <2>3. CASE ~(i < b.writer)
      <3>1. b.writer <= i
        BY <2>1, <2>3, <1>r
      <3>2. c.cells[i] = data[i - b.writer + 1]
        BY <1>3, <2>1, <3>1
      <3> QED BY <1>2, <1>4, <2>1, <3>1, <3>2
    <2> QED BY <2>2, <2>3
  <1>9. ReadableBytes(c) = ReadableBytes(b) + n /\ WritableBytes(c) = WritableBytes(b) - n
    BY <1>2, <1>r DEF ReadableBytes, WritableBytes
  <1> QED BY <1>1, <1>2, <1>7, <1>8, <1>9 DEF Numbered

LEMMA MoveNumbered ==
    ASSUME NEW b, Roomy(b), NEW p \in Int, Numbered(b, p),
           kPrependSize + ReadableBytes(b) <= b.size
    PROVE  /\ Roomy(MoveToFront(b)) /\ Numbered(MoveToFront(b), p)
           /\ MoveToFront(b).size = b.size
           /\ MoveToFront(b).reader = kPrependSize
           /\ MoveToFront(b).writer = kPrependSize + ReadableBytes(b)
  <1>r. /\ b.size \in Nat /\ b.reader \in Nat /\ b.writer \in Nat
        /\ b.reader <= b.writer /\ b.writer <= b.size
        /\ kPrependSize \in Nat /\ kPrependSize <= b.size
        /\ ReadableBytes(b) = b.writer - b.reader /\ ReadableBytes(b) \in Nat
        /\ WritableBytes(b) = b.size - b.writer /\ WritableBytes(b) \in Nat
    BY RoomyFields
  <1>0. SUFFICES ASSUME NEW c, c = MoveToFront(b)
                 PROVE  /\ Roomy(c) /\ Numbered(c, p)
                        /\ c.size = b.size /\ c.reader = kPrependSize
                        /\ c.writer = kPrependSize + ReadableBytes(b)
    OBVIOUS
  <1>1. /\ c.size = b.size /\ c.reader = kPrependSize
        /\ c.writer = kPrependSize + ReadableBytes(b)
    BY <1>0 DEF MoveToFront, Buf
  <1>2. \A i \in 0 .. b.size - 1 :
           c.cells[i] = IF kPrependSize <= i /\ i < kPrependSize + ReadableBytes(b)
                        THEN b.cells[i - kPrependSize + b.reader] ELSE b.cells[i]
    BY <1>0 DEF MoveToFront, Buf
  <1>3. ASSUME NEW i \in 0 .. b.size - 1,
               kPrependSize <= i, i < kPrependSize + ReadableBytes(b)
        PROVE  c.cells[i] \in Nat /\ c.cells[i] = p + (i - kPrependSize)
    <2>1. PICK k \in Int : k = i - kPrependSize + b.reader
      BY <1>r
    <2>2. /\ k \in 0 .. b.size - 1 /\ k \in b.reader .. b.writer - 1
          /\ k - b.reader = i - kPrependSize
      BY <1>3, <2>1, <1>r
    <2>3. b.cells[k] \in Nat /\ b.cells[k] = p + (k - b.reader)
      BY <2>2, RoomyCells DEF Numbered
    <2>4. c.cells[i] = b.cells[k]
      BY <1>2, <1>3, <2>1
    <2> QED BY <2>2, <2>3, <2>4
  <1>4. c.cells \in [0 .. b.size - 1 -> Nat]
    <2>1. \A i \in 0 .. b.size - 1 : c.cells[i] \in Nat
      BY <1>2, <1>3, RoomyCells
    <2>2. c.cells = [i \in 0 .. b.size - 1 |-> c.cells[i]]
      BY <1>0 DEF MoveToFront, Buf
    <2> QED BY <2>1, <2>2
  <1>5. /\ kPrependSize + ReadableBytes(b) \in Nat
        /\ kPrependSize <= kPrependSize + ReadableBytes(b)
    BY <1>r
  <1>6. Roomy(c)
    BY <1>1, <1>4, <1>5, <1>r DEF Roomy, IsBuffer
  <1>7. ASSUME NEW i \in c.reader .. c.writer - 1
        PROVE  c.cells[i] = p + (i - c.reader)
    <2>1. /\ i \in 0 .. b.size - 1
          /\ kPrependSize <= i /\ i < kPrependSize + ReadableBytes(b)
      BY <1>1, <1>5, <1>r
    <2> QED BY <1>1, <1>3, <2>1
  <1> QED BY <1>1, <1>6, <1>7 DEF Numbered

LEMMA ResizeNumbered ==
    ASSUME NEW b, Roomy(b), NEW p \in Int, Numbered(b, p),
           NEW n \in Nat, b.size <= n
    PROVE  /\ Roomy(Resize(b, n)) /\ Numbered(Resize(b, n), p)
           /\ Resize(b, n).size = n
           /\ Resize(b, n).reader = b.reader
           /\ Resize(b, n).writer = b.writer
  <1>r. /\ b.size \in Nat /\ b.reader \in Nat /\ b.writer \in Nat
        /\ b.reader <= b.writer /\ b.writer <= b.size
        /\ kPrependSize \in Nat /\ kPrependSize <= b.size
        /\ ReadableBytes(b) = b.writer - b.reader /\ ReadableBytes(b) \in Nat
        /\ WritableBytes(b) = b.size - b.writer /\ WritableBytes(b) \in Nat
    BY RoomyFields
  <1>0. SUFFICES ASSUME NEW c, c = Resize(b, n)
                 PROVE  /\ Roomy(c) /\ Numbered(c, p)
                        /\ c.size = n /\ c.reader = b.reader /\ c.writer = b.writer
    OBVIOUS
  <1>1. c.size = n /\ c.reader = b.reader /\ c.writer = b.writer
    BY <1>0 DEF Resize, Buf
  <1>2. \A i \in 0 .. n - 1 : c.cells[i] = IF i < b.size THEN b.cells[i] ELSE 0
    BY <1>0 DEF Resize, Buf
  <1>3. ASSUME NEW i \in 0 .. n - 1
        PROVE  c.cells[i] \in Nat
    <2>1. CASE i < b.size
      <3>1. i \in 0 .. b.size - 1
        BY <2>1, <1>r
      <3> QED BY <1>2, <2>1, <3>1, RoomyCells
    <2>2. CASE ~(i < b.size)
      BY <1>2, <2>2
    <2> QED BY <2>1, <2>2
  <1>4. c.cells \in [0 .. n - 1 -> Nat]
    <2>1. c.cells = [i \in 0 .. n - 1 |-> c.cells[i]]
      BY <1>0 DEF Resize, Buf
    <2> QED BY <1>3, <2>1
  <1>5. b.writer <= n /\ kPrependSize <= n
    BY <1>r
  <1>6. Roomy(c)
    BY <1>1, <1>4, <1>5, <1>r DEF Roomy, IsBuffer
  <1>7. ASSUME NEW i \in c.reader .. c.writer - 1
        PROVE  c.cells[i] = p + (i - c.reader)
    <2>1. i \in 0 .. n - 1 /\ i < b.size /\ i \in b.reader .. b.writer - 1
      BY <1>1, <1>r
    <2>2. c.cells[i] = b.cells[i]
      BY <1>2, <2>1
    <2> QED BY <1>1, <2>1, <2>2 DEF Numbered
  <1> QED BY <1>1, <1>6, <1>7 DEF Numbered

(* Either nothing or only the indices and the place of the bytes change,   *)
(* or the vector grows to just the size needed.                            *)
LEMMA EnsureNumbered ==
    ASSUME NEW b, Roomy(b), NEW p \in Int, Numbered(b, p), NEW len \in Nat
    PROVE  LET c == EnsureWritableBytes(b, len)
           IN  /\ Roomy(c) /\ Numbered(c, p)
               /\ ReadableBytes(c) = ReadableBytes(b)
               /\ len <= WritableBytes(c)
               /\ \/ c.size = b.size
                  \/ MustGrow(b, len) /\ c.size = b.writer + len
  <1>r. /\ b.size \in Nat /\ b.reader \in Nat /\ b.writer \in Nat
        /\ b.reader <= b.writer /\ b.writer <= b.size
        /\ kPrependSize \in Nat /\ kPrependSize <= b.size
        /\ ReadableBytes(b) = b.writer - b.reader /\ ReadableBytes(b) \in Nat
        /\ WritableBytes(b) = b.size - b.writer /\ WritableBytes(b) \in Nat
    BY RoomyFields
  <1>0. SUFFICES ASSUME NEW c, c = EnsureWritableBytes(b, len)
                 PROVE  /\ Roomy(c) /\ Numbered(c, p)
                        /\ ReadableBytes(c) = ReadableBytes(b)
                        /\ len <= WritableBytes(c)
                        /\ \/ c.size = b.size
                           \/ MustGrow(b, len) /\ c.size = b.writer + len
    OBVIOUS
  <1>1. CASE ~(WritableBytes(b) < len)
    <2>1. c = b
      BY <1>0, <1>1 DEF EnsureWritableBytes
    <2> QED BY <1>1, <2>1, <1>r
  <1>2. CASE WritableBytes(b) < len /\ MustGrow(b, len)
    <2>1. c = Resize(b, b.writer + len)
      BY <1>0, <1>2 DEF EnsureWritableBytes, MakeSpace
    <2>2. b.writer + len \in Nat /\ b.size <= b.writer + len
      BY <1>2, <1>r
    <2>3. /\ Roomy(c) /\ Numbered(c, p) /\ c.size = b.writer + len
          /\ c.reader = b.reader /\ c.writer = b.writer
      BY <2>1, <2>2, ResizeNumbered
    <2> QED BY <1>2, <2>3, <1>r DEF ReadableBytes, WritableBytes
  <1>3. CASE WritableBytes(b) < len /\ ~MustGrow(b, len)
    <2>1. c = MoveToFront(b)
      BY <1>0, <1>3 DEF EnsureWritableBytes, MakeSpace
    <2>2. kPrependSize + ReadableBytes(b) + len <= b.size
      <3>1. ~((b.size - b.writer) + b.reader < len + kPrependSize)
        BY <1>3, <1>r DEF MustGrow, PrependableBytes
      <3> QED BY <3>1, <1>r
    <2>3. kPrependSize + ReadableBytes(b) <= b.size
      BY <2>2, <1>r
    <2>4. /\ Roomy(c) /\ Numbered(c, p) /\ c.size = b.size
          /\ c.reader = kPrependSize /\ c.writer = kPrependSize + ReadableBytes(b)
      BY <2>1, <2>3, MoveNumbered
    <2>5. /\ c.writer - c.reader = ReadableBytes(b)
          /\ len <= c.size - c.writer
      BY <2>2, <2>4, <1>r
    <2> QED BY <2>4, <2>5 DEF ReadableBytes, WritableBytes
  <1> QED BY <1>1, <1>2, <1>3

(* append() puts the bytes behind what can be read. *)
LEMMA AppendNumbered ==
    ASSUME NEW b, Roomy(b), NEW p \in Int, Numbered(b, p), NEW n \in Nat,
           NEW data, Bytes(data, n, p + ReadableBytes(b))
    PROVE  LET c == AppendBytes(b, data)
           IN  /\ Roomy(c) /\ Numbered(c, p)
               /\ ReadableBytes(c) = ReadableBytes(b) + n
               /\ \/ c.size = b.size
                  \/ MustGrow(b, n) /\ c.size = b.writer + n
  <1>0. SUFFICES ASSUME NEW c, c = AppendBytes(b, data),
                        NEW e, e = EnsureWritableBytes(b, n)
                 PROVE  /\ Roomy(c) /\ Numbered(c, p)
                        /\ ReadableBytes(c) = ReadableBytes(b) + n
                        /\ \/ c.size = b.size
                           \/ MustGrow(b, n) /\ c.size = b.writer + n
    OBVIOUS
  <1>1. /\ Roomy(e) /\ Numbered(e, p)
        /\ ReadableBytes(e) = ReadableBytes(b) /\ n <= WritableBytes(e)
        /\ \/ e.size = b.size
           \/ MustGrow(b, n) /\ e.size = b.writer + n
    BY <1>0, EnsureNumbered
  <1>2. c = Write(e, data)
    BY <1>0 DEF AppendBytes, Bytes
  <1>3. Bytes(data, n, p + ReadableBytes(e))
    BY <1>1
  <1>4. /\ Roomy(c) /\ Numbered(c, p)
        /\ ReadableBytes(c) = ReadableBytes(e) + n /\ c.size = e.size
    BY <1>1, <1>2, <1>3, WriteNumbered
  <1> QED BY <1>1, <1>4

LEMMA PrefixBytes ==
    ASSUME NEW n \in Nat, NEW p \in Int, NEW data, Bytes(data, n, p),
           NEW w \in Nat, w < n
    PROVE  Bytes(SubSeq(data, 1, w), w, p)
  <1>1. /\ data \in Seq(Nat) /\ Len(data) = n
        /\ \A i \in 1..n : data[i] = p + (i - 1)
    BY DEF Bytes
  <1>2. PICK head : head = SubSeq(data, 1, w)
    OBVIOUS
  <1>3. head \in Seq(Nat) /\ Len(head) = w /\ \A i \in 1..w : head[i] = data[i]
    BY <1>1, <1>2
  <1>4. ASSUME NEW i \in 1..w
        PROVE  head[i] = p + (i - 1)
    <2>1. i \in 1..n
      OBVIOUS
    <2> QED BY <1>1, <1>3, <2>1
  <1> QED BY <1>2, <1>3, <1>4 DEF Bytes

(* readFromFd adds to the end of what can be read exactly the bytes read.   *)
LEMMA FillNumbered ==
    ASSUME NEW b, Roomy(b), NEW p \in Int, Numbered(b, p), NEW n \in Nat,
           NEW data, Bytes(data, n, p + ReadableBytes(b))
    PROVE  LET c == FillFromFd(b, data)
           IN  /\ Roomy(c) /\ Numbered(c, p)
               /\ ReadableBytes(c) = ReadableBytes(b) + n
               /\ \/ c.size = b.size
                  \/ /\ WritableBytes(b) < n
                     /\ b.reader < (n - WritableBytes(b)) + kPrependSize
                     /\ c.size = b.size + (n - WritableBytes(b))
  <1>r. /\ b.size \in Nat /\ b.reader \in Nat /\ b.writer \in Nat
        /\ b.reader <= b.writer /\ b.writer <= b.size
        /\ kPrependSize \in Nat /\ kPrependSize <= b.size
        /\ ReadableBytes(b) = b.writer - b.reader /\ ReadableBytes(b) \in Nat
        /\ WritableBytes(b) = b.size - b.writer /\ WritableBytes(b) \in Nat
    BY RoomyFields
  <1>0. SUFFICES ASSUME NEW c, c = FillFromFd(b, data)
                 PROVE  /\ Roomy(c) /\ Numbered(c, p)
                        /\ ReadableBytes(c) = ReadableBytes(b) + n
                        /\ \/ c.size = b.size
                           \/ /\ WritableBytes(b) < n
                              /\ b.reader < (n - WritableBytes(b)) + kPrependSize
                              /\ c.size = b.size + (n - WritableBytes(b))
    OBVIOUS
  <1>1. /\ data \in Seq(Nat) /\ Len(data) = n
        /\ \A i \in 1..n : data[i] = (p + ReadableBytes(b)) + (i - 1)
    BY DEF Bytes
  <1>2. CASE n <= WritableBytes(b)
    <2>1. c = Write(b, data)
      BY <1>0, <1>1, <1>2 DEF FillFromFd
    <2> QED BY <1>2, <2>1, WriteNumbered
  <1>3. CASE ~(n <= WritableBytes(b))
    <2>1. PICK w \in Nat : w = WritableBytes(b)
      BY <1>r
    <2>2. PICK r \in Nat : r = ReadableBytes(b)
      BY <1>r
    <2>3. w < n /\ n - w \in Nat
      BY <1>3, <2>1
    <2>4. PICK head : head = SubSeq(data, 1, w)
      OBVIOUS
    <2>5. PICK tail : tail = SubSeq(data, w + 1, n)
      OBVIOUS
    <2>6. Bytes(head, w, p + r)
      BY <2>2, <2>3, <2>4, PrefixBytes
    <2>7. Bytes(tail, n - w, p + (r + w))
      <3>1. /\ tail \in Seq(Nat) /\ Len(tail) = n - w
            /\ \A i \in 1 .. n - w : tail[i] = data[w + i]
        <4>1. w + 1 \in 1 .. n + 1 /\ w + 1 <= n /\ n - (w + 1) + 1 = n - w
          BY <2>3
        <4>2. \A i \in w + 1 .. n : data[i] \in Nat
          <5> SUFFICES ASSUME NEW i \in w + 1 .. n PROVE data[i] \in Nat
            OBVIOUS
          <5>1. i \in 1..n
            OBVIOUS
          <5> QED BY <1>1, <5>1
        <4>3. /\ tail \in Seq(Nat)
              /\ Len(tail) = n - (w + 1) + 1
              /\ \A i \in 1 .. n - (w + 1) + 1 : tail[i] = data[(w + 1) + i - 1]
          BY <2>5, <4>1, <4>2, SubSeqProperties
        <4>4. \A i \in 1 .. n - w : (w + 1) + i - 1 = w + i
          OBVIOUS
        <4> QED BY <4>1, <4>3, <4>4
      <3>2. ASSUME NEW i \in 1 .. n - w
            PROVE  tail[i] = (p + (r + w)) + (i - 1)
        <4>1. PICK k \in Int : k = w + i
          OBVIOUS
        <4>2. k \in 1..n
          BY <2>3, <4>1
        <4>3. tail[i] = data[k]
          BY <3>1, <4>1
        <4>4. data[k] = (p + r) + (k - 1)
          BY <1>1, <2>2, <4>2
        <4>5. (p + r) + (k - 1) = (p + (r + w)) + (i - 1)
          BY <4>1
        <4> QED BY <4>3, <4>4, <4>5
      <3> QED BY <3>1, <3>2 DEF Bytes
    <2>8. PICK d : d = Write(b, head)
      OBVIOUS
    <2>9. /\ Roomy(d) /\ Numbered(d, p) /\ ReadableBytes(d) = r + w
          /\ WritableBytes(d) = 0 /\ d.size = b.size
          /\ d.reader = b.reader /\ d.writer = b.writer + w
      <3>1. w <= WritableBytes(b) /\ Bytes(head, w, p + ReadableBytes(b))
        BY <2>1, <2>2, <2>6
      <3>2. w - w = 0
        OBVIOUS
      <3> QED BY <2>1, <2>2, <2>8, <3>1, <3>2, WriteNumbered
    <2>10. c = AppendBytes(d, tail)
      BY <1>0, <1>1, <1>3, <2>1, <2>4, <2>5, <2>8 DEF FillFromFd
    <2>11. /\ Roomy(c) /\ Numbered(c, p)
           /\ ReadableBytes(c) = (r + w) + (n - w)
           /\ \/ c.size = d.size
              \/ MustGrow(d, n - w) /\ c.size = d.writer + (n - w)
      <3>1. Bytes(tail, n - w, p + ReadableBytes(d))
        BY <2>7, <2>9
      <3> QED BY <2>3, <2>9, <2>10, <3>1, AppendNumbered
    <2>12. (r + w) + (n - w) = r + n
      OBVIOUS
    <2>13. ASSUME MustGrow(d, n - w), c.size = d.writer + (n - w)
           PROVE  b.reader < (n - w) + kPrependSize /\ c.size = b.size + (n - w)
      <3>1. 0 + b.reader < (n - w) + kPrependSize
        BY <2>9, <2>13 DEF MustGrow, PrependableBytes
      <3>2. b.writer + w = b.size
        BY <2>1, <1>r
      <3> QED BY <2>9, <2>13, <3>1, <3>2, <1>r
    <2> QED BY <2>1, <2>2, <2>3, <2>9, <2>11, <2>12, <2>13
  <1> QED BY <1>2, <1>3

(* When the read overflows the limit. *)
LEMMA FillThrowsMeans ==
    ASSUME NEW b, Roomy(b), NEW n \in Nat
    PROVE  FillThrows(b, n) <=>
               /\ WritableBytes(b) < n
               /\ b.reader < (n - WritableBytes(b)) + kPrependSize
               /\ b.size + (n - WritableBytes(b)) > kMaxBufferSize
  <1>r. /\ b.size \in Nat /\ b.reader \in Nat /\ b.writer \in Nat
        /\ b.reader <= b.writer /\ b.writer <= b.size
        /\ kPrependSize \in Nat /\ kPrependSize <= b.size
        /\ ReadableBytes(b) = b.writer - b.reader /\ ReadableBytes(b) \in Nat
        /\ WritableBytes(b) = b.size - b.writer /\ WritableBytes(b) \in Nat
    BY RoomyFields
  <1>1. PICK d : d = Buf(b.size, b.cells, b.reader, b.size)
    OBVIOUS
  <1>2. d.size = b.size /\ d.reader = b.reader /\ d.writer = b.size
    BY <1>1 DEF Buf
  <1>3. FillThrows(b, n) <=> n > WritableBytes(b) /\ AppendThrows(d, n - WritableBytes(b))
    BY <1>1 DEF FillThrows
  <1>4. WritableBytes(d) = b.size - b.size /\ b.size - b.size = 0
    BY <1>2, <1>r DEF WritableBytes
  <1>5. AppendThrows(d, n - WritableBytes(b)) <=>
           /\ 0 < n - WritableBytes(b)
           /\ 0 + b.reader < (n - WritableBytes(b)) + kPrependSize
           /\ b.size + (n - WritableBytes(b)) > kMaxBufferSize
    BY <1>2, <1>4 DEF AppendThrows, MustGrow, PrependableBytes
  <1> QED BY <1>3, <1>5, <1>r

-----------------------------------------------------------------------------
(* What the buffer holds *)

Counts ==
    /\ frames \in Streams
    /\ arrived \in Nat /\ taken \in Nat /\ taken <= arrived
    /\ arrived <= Last(frames)
    /\ eof \in BOOLEAN /\ edge \in BOOLEAN /\ open \in BOOLEAN
    /\ pc \in {"epoll", "read", "decode", "dead"}
    /\ delivered \in Seq(Seq(Nat))

InHand ==
    /\ Roomy(input)
    /\ pc # "dead" => ReadableBytes(input) <= taken /\ Numbered(input, Position)
    /\ pc \in {"epoll", "read"} => ReadableBytes(input) < MaxFrameSize + HeaderSize

BytesInv == Counts /\ InHand

LEMMA StreamFacts ==
    ASSUME NEW fs \in Streams
    PROVE  /\ fs \in Seq([at : Nat, len : Nat])
           /\ Len(fs) > 0 => fs[1].at = 0
           /\ \A k \in 1 .. Len(fs) - 1 : fs[k + 1].at = End(fs[k])
           /\ \A j, k \in 1..Len(fs) : j < k => End(fs[j]) <= fs[k].at
           /\ \A k \in 1..Len(fs) :
                 /\ fs[k].at \in Nat /\ fs[k].len \in Nat
                 /\ End(fs[k]) \in Nat /\ fs[k].at < End(fs[k])
                 /\ End(fs[k]) = fs[k].at + HeaderSize + fs[k].len
           /\ Last(fs) \in Nat
  <1>1. IsStream(fs)
    BY StreamsAssumption
  <1>2. ASSUME NEW k \in 1..Len(fs)
        PROVE  /\ fs[k].at \in Nat /\ fs[k].len \in Nat
               /\ End(fs[k]) \in Nat /\ fs[k].at < End(fs[k])
               /\ End(fs[k]) = fs[k].at + HeaderSize + fs[k].len
    <2>1. fs[k] \in [at : Nat, len : Nat]
      <3>1. fs \in Seq([at : Nat, len : Nat])
        BY <1>1 DEF IsStream
      <3> QED BY <3>1, ElementOfSeq
    <2>2. fs[k].at \in Nat /\ fs[k].len \in Nat
      BY <2>1
    <2>3. End(fs[k]) = fs[k].at + HeaderSize + fs[k].len
      BY DEF End
    <2> QED BY <2>2, <2>3, SizesAssumption
  <1>3. Last(fs) \in Nat
    <2>1. CASE fs = <<>>
      BY <2>1 DEF Last
    <2>2. CASE fs # <<>>
      <3>1. Len(fs) \in 1..Len(fs)
        BY <1>1, <2>2 DEF IsStream
      <3> QED BY <1>2, <2>2, <3>1 DEF Last
    <2> QED BY <2>1, <2>2
  <1> QED BY <1>1, <1>2, <1>3 DEF IsStream

LEMMA BytesInit == Init => BytesInv
  <1> SUFFICES ASSUME Init PROVE BytesInv
    OBVIOUS
  <1>1. Counts
    <2>1. 0 <= Last(frames)
      BY StreamFacts DEF Init
    <2>2. delivered \in Seq(Seq(Nat))
      BY DEF Init
    <2>3. /\ arrived \in Nat /\ taken \in Nat /\ taken <= arrived
          /\ arrived <= Last(frames)
      BY <2>1 DEF Init
    <2> QED BY <2>2, <2>3 DEF Init, Counts
  <1>2. /\ Roomy(input) /\ Numbered(input, 0) /\ ReadableBytes(input) = 0
        /\ taken = 0 /\ Position = 0
    BY NewBufferNumbered DEF Init, Position
  <1>3. 0 < MaxFrameSize + HeaderSize
    BY SizesAssumption
  <1> QED BY <1>1, <1>2, <1>3 DEF BytesInv, InHand

(* The facts about one decoding step: a prefix of the content goes.         *)
LEMMA Consume ==
    ASSUME BytesInv, pc = "decode",
           NEW n \in Nat, n <= ReadableBytes(input)
    PROVE  LET c == Retrieve(input, n)
           IN  /\ Roomy(c) /\ Numbered(c, Position + n) /\ c.size = input.size
               /\ ReadableBytes(c) = ReadableBytes(input) - n
               /\ ReadableBytes(c) \in Nat
  <1>1. /\ Roomy(input) /\ Numbered(input, Position)
        /\ taken \in Nat /\ ReadableBytes(input) \in Nat
    BY RoomyFields DEF BytesInv, Counts, InHand
  <1>2. Position \in Int
    BY <1>1 DEF Position
  <1> QED BY <1>1, <1>2, RetrieveNumbered

LEMMA BytesStep == BytesInv /\ [Next]_vars => BytesInv'
  <1> SUFFICES ASSUME BytesInv, [Next]_vars PROVE BytesInv'
    OBVIOUS
  <1>a. Counts /\ InHand
    BY DEF BytesInv
  <1>b. /\ arrived \in Nat /\ taken \in Nat /\ taken <= arrived
        /\ arrived <= Last(frames) /\ Last(frames) \in Nat
    BY <1>a, StreamFacts DEF Counts
  <1>c. /\ HeaderSize \in Nat /\ 0 < HeaderSize
        /\ MaxFrameSize \in Nat /\ 0 < MaxFrameSize
    BY SizesAssumption
  <1>d. Roomy(input) /\ ReadableBytes(input) \in Nat
    BY <1>a, RoomyFields DEF InHand
  <1>1. ASSUME NEW n \in 1..ReceiveQueue, Arrive(n)
        PROVE  BytesInv'
    <2>1. n \in Nat
      BY SizesAssumption
    <2>2. Counts'
      <3>1. arrived' \in Nat /\ taken <= arrived' /\ arrived' <= Last(frames)
        BY <1>b, <1>1, <2>1 DEF Arrive
      <3> QED BY <1>a, <1>1, <3>1 DEF Arrive, Counts
    <2>3. InHand'
      BY <1>a, <1>1 DEF Arrive, InHand, Position
    <2> QED BY <2>2, <2>3 DEF BytesInv
  <1>2. CASE PeerClose
    BY <1>a, <1>2 DEF PeerClose, BytesInv, Counts, InHand, Position
  <1>3. CASE EpollWait
    BY <1>a, <1>3 DEF EpollWait, peer, BytesInv, Counts, InHand, Position
  <1>4. CASE HandleRead
    <2>1. PICK n : n = Smaller(Available, Offered)
      OBVIOUS
    <2>2. PICK data : data = [i \in 1..n |-> taken + (i - 1)]
      OBVIOUS
    <2>3. Available \in Nat /\ 0 < Available /\ Available = arrived - taken
      BY <1>4, <1>b DEF HandleRead, Available
    <2>4. Offered \in Nat
      BY <1>d, RoomyFields, BufferAssumption, SizesAssumption DEF Offered
    <2>5. n \in Nat /\ n <= Available
      BY <2>1, <2>3, <2>4 DEF Smaller
    <2>6. taken' = taken + n /\ taken' \in Nat /\ taken' <= arrived
      <3>1. taken' = taken + n
        BY <1>4, <2>1 DEF HandleRead
      <3> QED BY <1>b, <2>3, <2>5, <3>1
    <2>7. Bytes(data, n, taken)
      <3>1. \A i \in 1..n : taken + (i - 1) \in Nat
        BY <1>b, <2>5
      <3>2. data \in Seq(Nat) /\ Len(data) = n
        BY <2>2, <2>5, <3>1
      <3> QED BY <2>2, <3>2 DEF Bytes
    <2>8. pc = "read" /\ Numbered(input, Position) /\ ReadableBytes(input) <= taken
      BY <1>4, <1>a DEF HandleRead, InHand
    <2>9. Position \in Int /\ Position + ReadableBytes(input) = taken
      BY <1>b, <1>d DEF Position
    <2>10. Bytes(data, n, Position + ReadableBytes(input))
      BY <2>7, <2>9
    <2>11. Counts'
      <3>1. pc' \in {"decode", "dead"} /\ UNCHANGED <<frames, arrived, eof, edge, delivered, open>>
        BY <1>4 DEF HandleRead, peer
      <3> QED BY <1>a, <2>6, <3>1 DEF Counts
    <2>12. CASE FillThrows(input, n)
      <3>1. pc' = "dead" /\ input' = Write(input, SubSeq(data, 1, WritableBytes(input)))
        BY <1>4, <2>1, <2>2, <2>12 DEF HandleRead
      <3>2. Roomy(input')
        <4>1. PICK w \in Nat : w = WritableBytes(input)
          BY <1>d, RoomyFields
        <4>2. w < n
          BY <1>d, <2>5, <2>12, <4>1, FillThrowsMeans
        <4>3. Bytes(SubSeq(data, 1, w), w, Position + ReadableBytes(input))
          <5>1. n \in Nat /\ Position + ReadableBytes(input) \in Int
            BY <1>b, <2>5, <2>9
          <5> QED BY <2>10, <4>2, <5>1, PrefixBytes
        <4> QED BY <1>d, <2>8, <2>9, <3>1, <4>1, <4>3, WriteNumbered
      <3>3. InHand'
        BY <3>1, <3>2 DEF InHand
      <3> QED BY <2>11, <3>3 DEF BytesInv
    <2>13. CASE ~FillThrows(input, n)
      <3>1. pc' = "decode" /\ input' = FillFromFd(input, data)
        BY <1>4, <2>1, <2>2, <2>13 DEF HandleRead
      <3>2. /\ Roomy(input') /\ Numbered(input', Position)
            /\ ReadableBytes(input') = ReadableBytes(input) + n
        BY <1>d, <2>5, <2>8, <2>9, <2>10, <3>1, FillNumbered
      <3>3. Position' = Position /\ ReadableBytes(input)' = ReadableBytes(input')
        BY <1>b, <1>d, <2>5, <2>6, <3>2 DEF Position
      <3>4. ReadableBytes(input') <= taken'
        BY <1>b, <1>d, <2>5, <2>6, <2>8, <3>2
      <3>5. InHand'
        BY <3>1, <3>2, <3>3, <3>4 DEF InHand
      <3> QED BY <2>11, <3>5 DEF BytesInv
    <2> QED BY <2>12, <2>13
  <1>5. CASE HandleEof
    BY <1>a, <1>5 DEF HandleEof, peer, BytesInv, Counts, InHand, Position
  <1>6. CASE HandleAgain
    BY <1>a, <1>6 DEF HandleAgain, peer, BytesInv, Counts, InHand, Position
  <1>7. CASE DecodeNoHeader
    <2>1. ReadableBytes(input) < MaxFrameSize + HeaderSize
      BY <1>7, <1>c, <1>d DEF DecodeNoHeader
    <2> QED BY <1>a, <1>7, <2>1 DEF DecodeNoHeader, peer, BytesInv, Counts, InHand, Position
  <1>8. ASSUME NEW len \in Lengths, DecodeInvalid(len)
        PROVE  BytesInv'
    <2>1. /\ pc = "decode" /\ pc' = "epoll" /\ input' = RetrieveAll(input)
          /\ UNCHANGED <<frames, arrived, eof, taken, edge, delivered, open>>
      BY <1>8 DEF DecodeInvalid, peer
    <2>2. Roomy(input') /\ Numbered(input', taken) /\ ReadableBytes(input') = 0
      BY <1>d, <2>1, RetrieveAllNumbered
    <2>3. Position' = taken
      BY <1>b, <2>1, <2>2 DEF Position
    <2>4. InHand'
      <3>1. 0 < MaxFrameSize + HeaderSize /\ 0 <= taken
        BY <1>b, <1>c
      <3> QED BY <2>1, <2>2, <2>3, <3>1 DEF InHand
    <2>5. Counts'
      BY <1>a, <2>1 DEF Counts
    <2> QED BY <2>4, <2>5 DEF BytesInv
  <1>9. ASSUME NEW len \in Lengths, DecodeHalf(len)
        PROVE  BytesInv'
    <2>1. ReadableBytes(input) < MaxFrameSize + HeaderSize
      <3>1. len \in Int
        BY <1>a, <1>c, StreamFacts DEF Lengths, Counts
      <3> QED BY <1>9, <1>c, <1>d, <3>1 DEF DecodeHalf, Valid
    <2> QED BY <1>a, <1>9, <2>1 DEF DecodeHalf, peer, BytesInv, Counts, InHand, Position
  <1>10. ASSUME NEW len \in Lengths, DecodeFrame(len)
         PROVE  BytesInv'
    <2>1. /\ len \in Nat /\ pc = "decode" /\ HeaderSize + len <= ReadableBytes(input)
          /\ UNCHANGED <<frames, arrived, eof, taken, edge, pc, open>>
      <3>1. len \in Int
        BY <1>a, <1>c, StreamFacts DEF Lengths, Counts
      <3> QED BY <1>10, <1>c, <1>d, <3>1 DEF DecodeFrame, Valid, peer
    <2>2. PICK body : body = Retrieve(input, HeaderSize)
      OBVIOUS
    <2>3. /\ input' = Retrieve(body, len)
          /\ delivered' = Append(delivered, PeekAsVector(body, len))
      BY <1>10, <2>2 DEF DecodeFrame
    <2>4. /\ Roomy(body) /\ Numbered(body, Position + HeaderSize)
          /\ ReadableBytes(body) = ReadableBytes(input) - HeaderSize
      BY <1>c, <1>d, <2>1, <2>2, Consume
    <2>5. Position \in Int /\ Position + HeaderSize \in Int
      BY <1>b, <1>c, <1>d DEF Position
    <2>6. len <= ReadableBytes(body)
      BY <1>c, <1>d, <2>1, <2>4
    <2>7. /\ Roomy(input') /\ Numbered(input', (Position + HeaderSize) + len)
          /\ ReadableBytes(input') = ReadableBytes(body) - len
      BY <2>1, <2>3, <2>4, <2>5, <2>6, RetrieveNumbered
    <2>8. PeekAsVector(body, len) \in Seq(Nat)
      BY <2>1, <2>4, <2>5, <2>6, PeekNumbered
    <2>9. /\ Position' = (Position + HeaderSize) + len
          /\ ReadableBytes(input') <= taken'
      <3>1. Position' = taken - ReadableBytes(input') /\ Position = taken - ReadableBytes(input)
        BY <2>1 DEF Position
      <3>2. ReadableBytes(input) <= taken
        BY <1>a, <2>1 DEF InHand
      <3> QED BY <1>b, <1>c, <1>d, <2>1, <2>4, <2>7, <3>1, <3>2
    <2>10. InHand'
      BY <2>1, <2>7, <2>9 DEF InHand
    <2>11. Counts'
      <3>1. delivered' \in Seq(Seq(Nat))
        BY <1>a, <2>3, <2>8 DEF Counts
      <3> QED BY <1>a, <2>1, <3>1 DEF Counts
    <2> QED BY <2>10, <2>11 DEF BytesInv
  <1>11. CASE UNCHANGED vars
    BY <1>a, <1>11 DEF vars, BytesInv, Counts, InHand, Position
  <1> QED
    BY <1>1, <1>2, <1>3, <1>4, <1>5, <1>6, <1>7, <1>8, <1>9, <1>10, <1>11
    DEF Next, Server, Decode

-----------------------------------------------------------------------------
(* The types, and the bytes in the buffer. *)

LEMMA BytesAlways == Spec => []BytesInv
  <1> QED BY BytesInit, BytesStep, PTL DEF Spec

(* Every variable keeps its type, and the indices of the buffer stay in    *)
(* order and inside the vector.                                            *)
THEOREM ReaderTyped == Spec => []TypeOK
  <1>1. BytesInv => TypeOK
    BY DEF BytesInv, Counts, InHand, Roomy, TypeOK
  <1> QED BY <1>1, BytesAlways, PTL

(* The buffer holds exactly the latest bytes read, in order, for every     *)
(* size of the vector and every way the reads cut the stream.              *)
THEOREM ReaderKeepsBytes == Spec => []BytesInOrder
  <1>1. BytesInv => BytesInOrder
    BY DEF BytesInv, InHand, BytesInOrder
  <1> QED BY <1>1, BytesAlways, PTL

-----------------------------------------------------------------------------
(* The size of the vector. *)

(* A read that exceeds the vector's writable part adds at most ExtraSize.   *)
LEMMA ReadSize ==
    ASSUME BytesInv, HandleRead,
           NEW n, n = Smaller(Available, Offered)
    PROVE  /\ n \in Nat
           /\ \/ n <= WritableBytes(input)
              \/ /\ WritableBytes(input) < ExtraSize
                 /\ n <= WritableBytes(input) + ExtraSize
  <1>1. WritableBytes(input) \in Nat
    BY RoomyFields DEF BytesInv, InHand
  <1>2. ExtraSize \in Nat
    BY BufferAssumption
  <1>3. PICK offered : offered = Offered
    OBVIOUS
  <1>4. /\ offered \in Nat
        /\ \/ offered <= WritableBytes(input)
           \/ /\ WritableBytes(input) < ExtraSize
              /\ offered = WritableBytes(input) + ExtraSize
    BY <1>1, <1>2, <1>3 DEF Offered
  <1>5. PICK available : available = Available
    OBVIOUS
  <1>6. available \in Nat
    BY <1>5 DEF BytesInv, Counts, HandleRead, Available
  <1>7. n \in Nat /\ n <= offered
    BY <1>3, <1>4, <1>5, <1>6 DEF Smaller
  <1> QED BY <1>1, <1>2, <1>4, <1>7

(* What a read would grow the vector to stays within GrownSize.             *)
LEMMA GrowthBound ==
    ASSUME BytesInv, HandleRead,
           NEW n, n = Smaller(Available, Offered),
           WritableBytes(input) < n,
           input.reader < (n - WritableBytes(input)) + kPrependSize
    PROVE  input.size + (n - WritableBytes(input)) <= GrownSize
  <1>1. /\ Roomy(input) /\ ReadableBytes(input) < MaxFrameSize + HeaderSize
    BY DEF BytesInv, InHand, HandleRead
  <1>2. /\ input.size \in Nat /\ input.reader \in Nat /\ input.writer \in Nat
        /\ kPrependSize \in Nat /\ kPrependSize <= input.size
        /\ ReadableBytes(input) = input.writer - input.reader
        /\ WritableBytes(input) = input.size - input.writer
        /\ WritableBytes(input) \in Nat /\ ReadableBytes(input) \in Nat
    BY <1>1, RoomyFields
  <1>3. MaxFrameSize \in Nat /\ HeaderSize \in Nat /\ ExtraSize \in Nat
    BY BufferAssumption, SizesAssumption
  <1>4. /\ n \in Nat
        /\ WritableBytes(input) < ExtraSize
        /\ n <= WritableBytes(input) + ExtraSize
    BY <1>2, ReadSize
  <1>5. PICK grow \in Int : grow = n - WritableBytes(input)
    BY <1>2, <1>4
  <1>6. grow <= ExtraSize /\ input.reader < grow + kPrependSize
    BY <1>2, <1>3, <1>4, <1>5
  <1>7. input.size + grow = (input.reader + ReadableBytes(input)) + n
    BY <1>2, <1>4, <1>5
  <1>8. n <= 2 * ExtraSize
    BY <1>2, <1>3, <1>4
  <1>9. input.size + grow <= kPrependSize + MaxFrameSize + HeaderSize + 3 * ExtraSize
    BY <1>1, <1>2, <1>3, <1>4, <1>6, <1>7, <1>8
  <1> QED BY <1>5, <1>9 DEF GrownSize

LEMMA SizeStep ==
    ASSUME BytesInv, [Next]_vars
    PROVE  \/ input'.size = input.size
           \/ /\ input'.size <= GrownSize
              /\ input'.size <= kMaxBufferSize
  <1>a. Counts /\ InHand /\ Roomy(input) /\ ReadableBytes(input) \in Nat
    BY RoomyFields DEF BytesInv, InHand
  <1>1. CASE HandleRead
    <2>1. PICK n : n = Smaller(Available, Offered)
      OBVIOUS
    <2>2. PICK data : data = [i \in 1..n |-> taken + (i - 1)]
      OBVIOUS
    <2>3. n \in Nat
      BY <1>1, <2>1, ReadSize
    <2>4. CASE FillThrows(input, n)
      <3>1. input' = Write(input, SubSeq(data, 1, WritableBytes(input)))
        BY <1>1, <2>1, <2>2, <2>4 DEF HandleRead
      <3> QED BY <3>1 DEF Write, Buf
    <2>5. CASE ~FillThrows(input, n)
      <3>1. input' = FillFromFd(input, data)
        BY <1>1, <2>1, <2>2, <2>5 DEF HandleRead
      <3>2. /\ pc = "read" /\ Numbered(input, Position) /\ Position \in Int
            /\ Position + ReadableBytes(input) = taken /\ taken \in Nat
        BY <1>1, <1>a DEF HandleRead, Counts, InHand, Position
      <3>3. Bytes(data, n, Position + ReadableBytes(input))
        <4>1. \A i \in 1..n : taken + (i - 1) \in Nat
          BY <2>3, <3>2
        <4>2. data \in Seq(Nat) /\ Len(data) = n
          BY <2>2, <2>3, <4>1
        <4> QED BY <2>2, <3>2, <4>2 DEF Bytes
      <3>4. \/ input'.size = input.size
            \/ /\ WritableBytes(input) < n
               /\ input.reader < (n - WritableBytes(input)) + kPrependSize
               /\ input'.size = input.size + (n - WritableBytes(input))
        BY <1>a, <2>3, <3>1, <3>2, <3>3, FillNumbered
      <3>5. ASSUME WritableBytes(input) < n,
                   input.reader < (n - WritableBytes(input)) + kPrependSize,
                   input'.size = input.size + (n - WritableBytes(input))
            PROVE  input'.size <= GrownSize /\ input'.size <= kMaxBufferSize
        <4>1. input'.size <= GrownSize
          BY <1>1, <2>1, <3>5, GrowthBound
        <4>2. ~(input'.size > kMaxBufferSize)
          BY <1>a, <2>3, <2>5, <3>5, FillThrowsMeans
        <4>3. input'.size \in Int
          BY <1>a, <2>3, <3>5, RoomyFields
        <4> QED BY <4>1, <4>2, <4>3, BufferAssumption
      <3> QED BY <3>4, <3>5
    <2> QED BY <2>4, <2>5
  <1>2. ASSUME NEW len \in Lengths, DecodeInvalid(len)
        PROVE  input'.size = input.size
    BY <1>2 DEF DecodeInvalid, RetrieveAll, Buf
  <1>3. ASSUME NEW len \in Lengths, DecodeFrame(len)
        PROVE  input'.size = input.size
    <2>1. \A b, n : Retrieve(b, n).size = b.size
      BY DEF Retrieve, RetrieveAll, Buf
    <2> QED BY <1>3, <2>1 DEF DecodeFrame
  <1>4. CASE UNCHANGED input
    BY <1>4
  <1> QED
    BY <1>1, <1>2, <1>3, <1>4
    DEF Next, Server, Decode, vars, Arrive, PeerClose, EpollWait, HandleEof,
        HandleAgain, DecodeNoHeader, DecodeHalf

(* The vector's size stays bounded, however long the stream is.             *)
THEOREM ReaderBounded == Spec => []CapacityBound
  <1>1. Init => CapacityBound
    <2>1. kPrependSize + kInitialSize \in Nat /\ GrownSize \in Nat
      BY BufferAssumption, SizesAssumption DEF GrownSize
    <2> QED BY <2>1, NewBufferNumbered DEF Init, CapacityBound
  <1>2. BytesInv /\ CapacityBound /\ [Next]_vars => CapacityBound'
    <2> SUFFICES ASSUME BytesInv, CapacityBound, [Next]_vars PROVE CapacityBound'
      OBVIOUS
    <2>1. kPrependSize + kInitialSize \in Nat /\ GrownSize \in Nat
      BY BufferAssumption, SizesAssumption DEF GrownSize
    <2>2. input'.size \in Nat
      BY BytesStep DEF BytesInv, InHand, Roomy, IsBuffer
    <2>3. CASE input'.size = input.size
      BY <2>3 DEF CapacityBound, GrownSize
    <2>4. CASE input'.size <= GrownSize
      <3>1. input'.size <= IF GrownSize < kPrependSize + kInitialSize
                           THEN kPrependSize + kInitialSize ELSE GrownSize
        BY <2>1, <2>2, <2>4
      <3> QED BY <3>1 DEF CapacityBound, GrownSize
    <2> QED BY <2>3, <2>4, SizeStep
  <1> QED BY <1>1, <1>2, BytesAlways, PTL DEF Spec

(* makeSpace keeps the vector within its limit if the initial size is.      *)
THEOREM ReaderWithinLimit ==
    ASSUME kPrependSize + kInitialSize <= kMaxBufferSize
    PROVE  Spec => []WithinLimit
  <1>1. Init => WithinLimit
    BY NewBufferNumbered DEF Init, WithinLimit
  <1>2. BytesInv /\ WithinLimit /\ [Next]_vars => WithinLimit'
    BY SizeStep DEF WithinLimit
  <1> QED BY <1>1, <1>2, BytesAlways, PTL DEF Spec

(* With a limit of at least GrownSize no read throws.  The source's limit   *)
(* of 64 MB has room for a frame of 10 MB.                                  *)
THEOREM ReaderNeverThrows ==
    ASSUME GrownSize <= kMaxBufferSize
    PROVE  Spec => []NeverThrows
  <1>1. Init => NeverThrows
    BY DEF Init, NeverThrows
  <1>2. BytesInv /\ NeverThrows /\ [Next]_vars => NeverThrows'
    <2> SUFFICES ASSUME BytesInv, NeverThrows, [Next]_vars PROVE NeverThrows'
      OBVIOUS
    <2>1. CASE HandleRead
      <3>1. PICK n : n = Smaller(Available, Offered)
        OBVIOUS
      <3>2. n \in Nat /\ Roomy(input)
        BY <2>1, <3>1, ReadSize DEF BytesInv, InHand
      <3>3. ~FillThrows(input, n)
        <4> SUFFICES ASSUME FillThrows(input, n) PROVE FALSE
          OBVIOUS
        <4>1. /\ WritableBytes(input) < n
              /\ input.reader < (n - WritableBytes(input)) + kPrependSize
              /\ input.size + (n - WritableBytes(input)) > kMaxBufferSize
          BY <3>2, FillThrowsMeans
        <4>2. input.size + (n - WritableBytes(input)) <= GrownSize
          BY <2>1, <3>1, <4>1, GrowthBound
        <4>3. /\ input.size + (n - WritableBytes(input)) \in Int
              /\ GrownSize \in Int /\ kMaxBufferSize \in Int
          BY <3>2, RoomyFields, BufferAssumption, SizesAssumption DEF GrownSize
        <4> QED BY <4>1, <4>2, <4>3
      <3> QED BY <2>1, <3>1, <3>3 DEF HandleRead, NeverThrows
    <2> QED
      BY <2>1
      DEF Next, Server, Decode, vars, Arrive, PeerClose, EpollWait, HandleEof, HandleAgain,
          DecodeNoHeader, DecodeInvalid, DecodeHalf, DecodeFrame, NeverThrows
  <1> QED BY <1>1, <1>2, BytesAlways, PTL DEF Spec

-----------------------------------------------------------------------------
(* The frames.  Of a stream of valid frames the buffer always starts where *)
(* the first frame not yet delivered starts, and that frame is incomplete  *)
(* whenever the decode loop is not running.                                *)

Start(fs, k) == IF k < Len(fs) THEN fs[k + 1].at ELSE Last(fs)

Framing ==
    AllValid =>
        /\ Len(delivered) <= Len(frames)
        /\ \A k \in 1..Len(delivered) : delivered[k] = Body(frames[k])
        /\ pc # "dead" => Position = Start(frames, Len(delivered))
        /\ pc \in {"epoll", "read"} /\ Len(delivered) < Len(frames) =>
               taken < End(frames[Len(delivered) + 1])

LEMMA ReadKeepsPosition ==
    ASSUME BytesInv, HandleRead, pc' # "dead"
    PROVE  Position' = Position
  <1>a. Counts /\ InHand /\ Roomy(input) /\ ReadableBytes(input) \in Nat
    BY RoomyFields DEF BytesInv, InHand
  <1>1. PICK n : n = Smaller(Available, Offered)
    OBVIOUS
  <1>2. PICK data : data = [i \in 1..n |-> taken + (i - 1)]
    OBVIOUS
  <1>3. n \in Nat
    BY <1>1, ReadSize
  <1>4. input' = FillFromFd(input, data) /\ taken' = taken + n
    BY <1>1, <1>2 DEF HandleRead
  <1>5. /\ Numbered(input, Position) /\ Position \in Int
        /\ Position + ReadableBytes(input) = taken /\ taken \in Nat
    BY <1>a DEF HandleRead, Counts, InHand, Position
  <1>6. Bytes(data, n, Position + ReadableBytes(input))
    <2>1. \A i \in 1..n : taken + (i - 1) \in Nat
      BY <1>3, <1>5
    <2>2. data \in Seq(Nat) /\ Len(data) = n
      BY <1>2, <1>3, <2>1
    <2> QED BY <1>2, <1>5, <2>2 DEF Bytes
  <1>7. ReadableBytes(input') = ReadableBytes(input) + n
    BY <1>a, <1>3, <1>4, <1>5, <1>6, FillNumbered
  <1>8. Position' = (taken + n) - (ReadableBytes(input) + n)
    BY <1>4, <1>7 DEF Position
  <1> QED BY <1>a, <1>3, <1>5, <1>8

(* In the decode loop a complete header is that of the next frame.          *)
LEMMA HeaderIsNext ==
    ASSUME BytesInv, Framing, AllValid, pc = "decode",
           ReadableBytes(input) >= HeaderSize,
           NEW len, PeekLength(len)
    PROVE  /\ Len(delivered) < Len(frames)
           /\ Len(delivered) + 1 \in 1..Len(frames)
           /\ Position = frames[Len(delivered) + 1].at
           /\ len = frames[Len(delivered) + 1].len
  <1>1. /\ frames \in Streams /\ taken \in Nat /\ taken <= arrived
        /\ arrived \in Nat /\ arrived <= Last(frames) /\ Last(frames) \in Nat
        /\ ReadableBytes(input) \in Nat /\ HeaderSize \in Nat /\ 0 < HeaderSize
        /\ Len(frames) \in Nat /\ Len(delivered) \in Nat
    BY RoomyFields, StreamFacts, SizesAssumption DEF BytesInv, Counts, InHand
  <1>2. Position = Start(frames, Len(delivered)) /\ Position = taken - ReadableBytes(input)
    BY DEF Framing, Position
  <1>3. Len(delivered) < Len(frames)
    <2> SUFFICES ASSUME ~(Len(delivered) < Len(frames)) PROVE FALSE
      OBVIOUS
    <2>1. Position = Last(frames)
      BY <1>2 DEF Start
    <2> QED BY <1>1, <1>2, <2>1
  <1>4. PICK n \in Nat : n = Len(delivered) + 1
    BY <1>1
  <1>5. n \in 1..Len(frames) /\ Position = frames[n].at
    BY <1>1, <1>2, <1>3, <1>4 DEF Start
  <1>6. PICK k \in 1..Len(frames) : frames[k].at = Position /\ frames[k].len = len
    BY <1>5 DEF PeekLength
  <1>7. k = n
    <2>1. /\ frames[k].at \in Nat /\ frames[k].len \in Nat
          /\ frames[n].at \in Nat /\ frames[n].len \in Nat
          /\ End(frames[k]) = frames[k].at + HeaderSize + frames[k].len
          /\ End(frames[n]) = frames[n].at + HeaderSize + frames[n].len
          /\ k < n => End(frames[k]) <= frames[n].at
          /\ n < k => End(frames[n]) <= frames[k].at
      BY <1>1, <1>5, <1>6, StreamFacts
    <2>2. ~(k < n) /\ ~(n < k)
      BY SMTT(30), <1>1, <1>5, <1>6, <2>1
    <2> QED BY <1>1, <1>4, <1>6, <2>2
  <1> QED BY <1>3, <1>4, <1>5, <1>6, <1>7

LEMMA FramingInit == Init => Framing
  <1> SUFFICES ASSUME Init, AllValid PROVE Framing
    BY DEF Framing
  <1>1. /\ delivered = <<>> /\ taken = 0 /\ Len(delivered) = 0 /\ Len(frames) \in Nat
        /\ frames \in Streams /\ Position = 0
    BY NewBufferNumbered, StreamFacts DEF Init, Position
  <1>2. CASE Len(frames) = 0
    <2>1. Last(frames) = 0
      BY <1>1, <1>2, StreamFacts, EmptySeq DEF Last
    <2> QED BY <1>1, <1>2, <2>1 DEF Framing, Start
  <1>3. CASE 0 < Len(frames)
    <2>1. 1 \in 1..Len(frames) /\ frames[1].at = 0
      BY <1>1, <1>3, StreamFacts
    <2>2. End(frames[1]) = 0 + HeaderSize + frames[1].len /\ frames[1].len \in Nat
      BY <1>1, <2>1, StreamFacts
    <2>3. 0 < End(frames[1])
      BY <2>2, SizesAssumption
    <2>4. 0 + 1 = 1
      OBVIOUS
    <2> QED BY <1>1, <1>3, <2>1, <2>3, <2>4 DEF Framing, Start
  <1> QED BY <1>1, <1>2, <1>3

LEMMA FramingStep == BytesInv /\ Framing /\ [Next]_vars => Framing'
  <1> SUFFICES ASSUME BytesInv, Framing, [Next]_vars, AllValid' PROVE Framing'
    BY DEF Framing
  <1>a. UNCHANGED frames /\ AllValid
    BY DEF Next, Server, Decode, peer, vars, Arrive, PeerClose, EpollWait, HandleRead,
           HandleEof, HandleAgain, DecodeNoHeader, DecodeInvalid, DecodeHalf, DecodeFrame,
           AllValid
  <1>b. /\ frames \in Streams /\ taken \in Nat /\ taken <= arrived
        /\ arrived \in Nat /\ arrived <= Last(frames) /\ Last(frames) \in Nat
        /\ ReadableBytes(input) \in Nat /\ Roomy(input)
        /\ Len(frames) \in Nat /\ Len(delivered) \in Nat
    BY RoomyFields, StreamFacts DEF BytesInv, Counts, InHand
  <1>e. delivered \in Seq(Seq(Nat))
    BY DEF BytesInv, Counts
  <1>c. HeaderSize \in Nat /\ 0 < HeaderSize
    BY SizesAssumption
  <1>d. Position \in Int /\ Position + ReadableBytes(input) = taken
    BY <1>b DEF Position
  <1>1. CASE (\E n \in 1..ReceiveQueue : Arrive(n)) \/ PeerClose
    BY <1>a, <1>1 DEF Arrive, PeerClose, Framing, Position
  <1>2. CASE EpollWait
    BY <1>a, <1>2 DEF EpollWait, peer, Framing, Position
  <1>3. CASE HandleRead
    <2>1. /\ pc = "read" /\ pc' \in {"decode", "dead"} /\ UNCHANGED <<frames, delivered>>
      BY <1>3 DEF HandleRead, peer
    <2>2. pc' # "dead" => Position' = Position
      BY <1>3, ReadKeepsPosition
    <2> QED BY <1>a, <2>1, <2>2 DEF Framing
  <1>4. CASE HandleEof \/ HandleAgain
    BY <1>a, <1>4 DEF HandleEof, HandleAgain, peer, Framing, Position
  <1>5. ASSUME pc = "decode", pc' = "epoll", UNCHANGED <<frames, taken, input, delivered>>,
               Len(delivered) < Len(frames) => taken < End(frames[Len(delivered) + 1])
        PROVE  Framing'
    BY <1>a, <1>5 DEF Framing, Position
  <1>6. CASE DecodeNoHeader
    <2>1. /\ pc = "decode" /\ pc' = "epoll" /\ UNCHANGED <<frames, taken, input, delivered>>
          /\ ReadableBytes(input) < HeaderSize
      BY <1>6 DEF DecodeNoHeader, peer
    <2>2. ASSUME Len(delivered) < Len(frames)
          PROVE  taken < End(frames[Len(delivered) + 1])
      <3>1. PICK n \in Nat : n = Len(delivered) + 1
        BY <1>b
      <3>2. n \in 1..Len(frames) /\ Position = frames[n].at
        BY <1>a, <1>b, <2>1, <2>2, <3>1 DEF Framing, Start
      <3>3. /\ End(frames[n]) = frames[n].at + HeaderSize + frames[n].len
            /\ frames[n].at \in Nat /\ frames[n].len \in Nat
        BY <1>b, <3>2, StreamFacts
      <3>4. PICK at \in Nat, len0 \in Nat, r \in Nat :
               at = frames[n].at /\ len0 = frames[n].len /\ r = ReadableBytes(input)
        BY <1>b, <3>3
      <3>5. at + r = taken /\ r < len0 + HeaderSize
        BY <1>c, <1>d, <2>1, <3>2, <3>4
      <3>6. taken < at + HeaderSize + len0
        BY <1>b, <1>c, <3>5
      <3> QED BY <3>1, <3>3, <3>4, <3>6
    <2> QED BY <1>5, <2>1, <2>2
  <1>7. ASSUME NEW len \in Lengths, DecodeInvalid(len)
        PROVE  FALSE
    <2>1. /\ pc = "decode" /\ ReadableBytes(input) >= HeaderSize
          /\ PeekLength(len) /\ ~Valid(len)
      BY <1>7 DEF DecodeInvalid
    <2> QED BY <1>a, <2>1, HeaderIsNext DEF AllValid
  <1>8. ASSUME NEW len \in Lengths, DecodeHalf(len)
        PROVE  Framing'
    <2>1. /\ pc = "decode" /\ pc' = "epoll" /\ UNCHANGED <<frames, taken, input, delivered>>
          /\ ReadableBytes(input) >= HeaderSize /\ PeekLength(len)
          /\ ReadableBytes(input) < len + HeaderSize
      BY <1>8 DEF DecodeHalf, peer
    <2>2. taken < End(frames[Len(delivered) + 1])
      <3>1. PICK n : n = Len(delivered) + 1
        OBVIOUS
      <3>2. n \in 1..Len(frames) /\ Position = frames[n].at /\ len = frames[n].len
        BY <1>a, <2>1, <3>1, HeaderIsNext
      <3>3. /\ End(frames[n]) = frames[n].at + HeaderSize + frames[n].len
            /\ frames[n].at \in Nat /\ frames[n].len \in Nat
        BY <1>b, <3>2, StreamFacts
      <3>4. PICK at \in Nat, len0 \in Nat, r \in Nat :
               at = frames[n].at /\ len0 = frames[n].len /\ r = ReadableBytes(input)
        BY <1>b, <3>3
      <3>5. at + r = taken /\ r < len0 + HeaderSize
        BY <1>c, <1>d, <2>1, <3>2, <3>4
      <3>6. taken < at + HeaderSize + len0
        BY <1>b, <1>c, <3>5
      <3> QED BY <3>1, <3>3, <3>4, <3>6
    <2> QED BY <1>5, <2>1, <2>2
  <1>9. ASSUME NEW len \in Lengths, DecodeFrame(len)
        PROVE  Framing'
    <2>1. PICK body : body = Retrieve(input, HeaderSize)
      OBVIOUS
    <2>2. /\ pc = "decode" /\ UNCHANGED <<frames, taken, pc>>
          /\ ReadableBytes(input) >= HeaderSize /\ PeekLength(len) /\ Valid(len)
          /\ ReadableBytes(input) >= len + HeaderSize
          /\ input' = Retrieve(body, len)
          /\ delivered' = Append(delivered, PeekAsVector(body, len))
      BY <1>9, <2>1 DEF DecodeFrame, peer
    <2>3. PICK n \in Nat : n = Len(delivered) + 1
      BY <1>b
    <2>4. n \in 1..Len(frames) /\ Position = frames[n].at /\ len = frames[n].len
      BY <1>a, <2>2, <2>3, HeaderIsNext
    <2>5. /\ End(frames[n]) = frames[n].at + HeaderSize + frames[n].len
          /\ frames[n].at \in Nat /\ len \in Nat
      BY <1>b, <2>4, StreamFacts
    <2>6. /\ Roomy(body) /\ Numbered(body, Position + HeaderSize)
          /\ ReadableBytes(body) = ReadableBytes(input) - HeaderSize
      BY <1>b, <1>c, <2>1, <2>2, Consume
    <2>7. len <= ReadableBytes(body) /\ Position + HeaderSize \in Int
      BY SMTT(30), <1>b, <1>c, <1>d, <2>2, <2>5, <2>6
    <2>8. ReadableBytes(input') = ReadableBytes(body) - len
      BY <2>2, <2>5, <2>6, <2>7, RetrieveNumbered
    <2>9. Position' = End(frames[n])
      <3>1. Position' = taken - ReadableBytes(input')
        BY <2>2 DEF Position
      <3>2. ReadableBytes(input') = (ReadableBytes(input) - HeaderSize) - len
        BY <2>6, <2>8
      <3>3. Position' = (Position + HeaderSize) + len
        BY <1>b, <1>c, <1>d, <2>5, <3>1, <3>2
      <3> QED BY <2>4, <2>5, <3>3
    <2>10. PeekAsVector(body, len) = Body(frames[n])
      <3>1. PeekAsVector(body, len) = [i \in 1..len |-> (Position + HeaderSize) + (i - 1)]
        BY <2>5, <2>6, <2>7, PeekNumbered
      <3>2. Body(frames[n]) = [i \in 1..len |-> frames[n].at + HeaderSize + i - 1]
        BY <2>4 DEF Body
      <3>3. \A i \in 1..len :
              (Position + HeaderSize) + (i - 1) = frames[n].at + HeaderSize + i - 1
        BY <1>c, <2>4, <2>5
      <3> QED BY <3>1, <3>2, <3>3
    <2>11. /\ Len(delivered') = n
           /\ \A k \in 1..n : delivered'[k] = Body(frames[k])
      <3>1. /\ Len(delivered') = n /\ delivered'[n] = PeekAsVector(body, len)
            /\ \A k \in 1..Len(delivered) : delivered'[k] = delivered[k]
        BY <1>b, <1>e, <2>2, <2>3
      <3>2. \A k \in 1..n : k = n \/ k \in 1..Len(delivered)
        BY <1>b, <2>3
      <3> QED BY <1>a, <2>10, <3>1, <3>2 DEF Framing
    <2>12. Start(frames, n) = End(frames[n])
      <3>1. CASE n < Len(frames)
        <4>1. n \in 1 .. Len(frames) - 1
          BY <1>b, <2>4, <3>1
        <4> QED BY <1>b, <3>1, <4>1, StreamFacts DEF Start
      <3>2. CASE ~(n < Len(frames))
        <4>1. n = Len(frames) /\ frames # <<>>
          BY <1>b, <2>4, <3>2
        <4> QED BY <3>2, <4>1 DEF Start, Last
      <3> QED BY <3>1, <3>2
    <2> QED
      <3>1. n <= Len(frames)
        BY <2>4
      <3> QED BY <1>a, <2>2, <2>9, <2>11, <2>12, <3>1 DEF Framing
  <1>10. CASE UNCHANGED vars
    BY <1>a, <1>10 DEF vars, Framing, Position
  <1> QED
    BY <1>1, <1>2, <1>3, <1>4, <1>6, <1>7, <1>8, <1>9, <1>10
    DEF Next, Server, Decode

LEMMA FramingAlways == Spec => []Framing
  <1> QED BY FramingInit, FramingStep, BytesAlways, PTL DEF Spec

(* Of a stream of valid frames the callback gets a prefix, frame by frame,  *)
(* whatever the sizes and wherever the network and the reads cut it.        *)
THEOREM ReaderDelivers == Spec => []DeliveredInOrder
  <1>1. Framing => DeliveredInOrder
    BY DEF Framing, DeliveredInOrder
  <1> QED BY <1>1, FramingAlways, PTL

(* While the thread waits in epoll_wait, the buffer holds no whole frame.   *)
THEOREM ReaderLeavesNone == Spec => []NoFrameLeft
  <1>1. BytesInv /\ Framing => NoFrameLeft
    <2> SUFFICES ASSUME BytesInv, Framing, AllValid, pc = "epoll",
                        NEW k \in 1..Len(frames), frames[k].at >= Position
                 PROVE  taken < End(frames[k])
      BY DEF NoFrameLeft
    <2>1. /\ frames \in Streams /\ taken \in Nat
          /\ Len(frames) \in Nat /\ Len(delivered) \in Nat
          /\ HeaderSize \in Nat /\ 0 < HeaderSize
      BY StreamFacts, SizesAssumption DEF BytesInv, Counts
    <2>2. /\ frames[k].at \in Nat /\ frames[k].len \in Nat
          /\ End(frames[k]) = frames[k].at + HeaderSize + frames[k].len
      BY <2>1, StreamFacts
    <2>3. CASE Len(delivered) < Len(frames)
      <3>1. PICK n \in Nat : n = Len(delivered) + 1
        BY <2>1
      <3>2. n \in 1..Len(frames) /\ Position = frames[n].at /\ taken < End(frames[n])
        BY <2>1, <2>3, <3>1 DEF Framing, Start
      <3>3. /\ frames[n].at \in Nat /\ End(frames[n]) \in Nat
            /\ n < k => End(frames[n]) <= frames[k].at
            /\ k < n => End(frames[k]) <= frames[n].at
        BY <2>1, <3>2, StreamFacts
      <3>4. ~(k < n)
        BY SMTT(30), <2>1, <2>2, <3>2, <3>3
      <3>5. CASE n < k
        BY SMTT(30), <2>1, <2>2, <3>2, <3>3, <3>5
      <3> QED BY <3>2, <3>4, <3>5
    <2>4. CASE ~(Len(delivered) < Len(frames))
      <3>1. PICK n \in Nat : n = Len(frames)
        BY <2>1
      <3>2. Position = Last(frames)
        BY <2>4 DEF Framing, Start
      <3>3. n \in 1..Len(frames) /\ frames # <<>>
        BY <2>1, <3>1
      <3>4. Last(frames) = End(frames[n])
        BY <3>1, <3>3 DEF Last
      <3>5. /\ frames[n].at \in Nat /\ frames[n].len \in Nat
            /\ End(frames[n]) = frames[n].at + HeaderSize + frames[n].len
            /\ k < n => End(frames[k]) <= frames[n].at
        BY <2>1, <3>3, StreamFacts
      <3>6. k = n \/ k < n
        BY <3>1
      <3>7. CASE k = n
        <4>1. frames[k].at >= End(frames[k])
          BY <3>2, <3>4, <3>7
        <4> QED BY <2>1, <2>2, <4>1
      <3>8. CASE k < n
        <4>1. End(frames[k]) <= frames[n].at
          BY <3>5, <3>8
        <4>2. frames[k].at >= End(frames[n])
          BY <3>2, <3>4
        <4>3. /\ frames[n].at < End(frames[n]) /\ frames[k].at < End(frames[k])
              /\ End(frames[n]) \in Nat /\ End(frames[k]) \in Nat
          BY <2>1, <3>3, StreamFacts
        <4> QED BY <2>2, <3>5, <4>1, <4>2, <4>3
      <3> QED BY <3>6, <3>7, <3>8
    <2> QED BY <2>3, <2>4
  <1> QED BY <1>1, BytesAlways, FramingAlways, PTL

-----------------------------------------------------------------------------
(* BufferOwner implements ByteQueue: whatever calls the owner makes, the   *)
(* bytes between the two indices are those that a queue would hold.  Each  *)
(* operator of Buffer gets a lemma of the form: if b holds the bytes s,    *)
(* then what it returns holds ....                                         *)

(* What can be read from b is s. *)
At(b, s) == \A i \in b.reader .. b.writer - 1 : b.cells[i] = s[i - b.reader + 1]
Holds(b, s) == Roomy(b) /\ s \in Seq(Nat) /\ Len(s) = ReadableBytes(b) /\ At(b, s)

(* The fields of b, under names. *)
Parts(b, s, size, cells, reader, writer, m) ==
    /\ b.size = size /\ b.cells = cells /\ b.reader = reader /\ b.writer = writer
    /\ reader <= writer /\ writer <= size /\ kPrependSize <= size
    /\ m = writer - reader /\ ReadableBytes(b) = m /\ WritableBytes(b) = size - writer
    /\ Len(s) = m /\ \A i \in reader .. writer - 1 : cells[i] = s[i - reader + 1]

LEMMA HoldsParts ==
    ASSUME NEW b, NEW s, Holds(b, s)
    PROVE  /\ s \in Seq(Nat)
           /\ \E size, reader, writer, m \in Nat : \E cells \in [0 .. size - 1 -> Nat] :
                 Parts(b, s, size, cells, reader, writer, m)
<1>1. /\ b.size \in Nat /\ b.reader \in Nat /\ b.writer \in Nat
      /\ b.reader <= b.writer /\ b.writer <= b.size /\ kPrependSize <= b.size
      /\ b.cells \in [0 .. b.size - 1 -> Nat]
  BY DEF Holds, Roomy, IsBuffer
<1>2. ReadableBytes(b) = b.writer - b.reader /\ WritableBytes(b) = b.size - b.writer
  BY DEF ReadableBytes, WritableBytes
<1>3. PICK m \in Nat : m = b.writer - b.reader
  BY <1>1
<1>4. s \in Seq(Nat) /\ Len(s) = m /\ At(b, s)
  BY <1>2, <1>3 DEF Holds
<1>5. Parts(b, s, b.size, b.cells, b.reader, b.writer, m)
  BY <1>1, <1>2, <1>3, <1>4 DEF Parts, At
<1> QED
  BY <1>1, <1>3, <1>4, <1>5

(* A vector of bytes with indices in order, and s between them. *)
Placed(size, cells, reader, writer, s) ==
    /\ size \in Nat /\ reader \in Nat /\ writer \in Nat /\ cells \in [0 .. size - 1 -> Nat]
    /\ reader <= writer /\ writer <= size /\ kPrependSize <= size
    /\ s \in Seq(Nat) /\ Len(s) = writer - reader
    /\ \A i \in reader .. writer - 1 : cells[i] = s[i - reader + 1]

LEMMA MakeHolds ==
    ASSUME NEW size, NEW cells, NEW reader, NEW writer, NEW s,
           Placed(size, cells, reader, writer, s)
    PROVE  Holds(Buf(size, cells, reader, writer), s)
<1>1. PICK b : b = Buf(size, cells, reader, writer)
  OBVIOUS
<1>2. b.size = size /\ b.cells = cells /\ b.reader = reader /\ b.writer = writer
  BY <1>1 DEF Buf
<1>3. Roomy(b)
  BY <1>2 DEF Roomy, IsBuffer, Placed
<1>4. At(b, s)
  BY <1>2 DEF At, Placed
<1>5. Len(s) = ReadableBytes(b)
  BY <1>2 DEF ReadableBytes, Placed
<1> QED
  BY <1>1, <1>3, <1>4, <1>5 DEF Holds, Placed

(* Two sequences with the same elements are one. *)
LEMMA SameBytes ==
    ASSUME NEW s \in Seq(Nat), NEW n \in Nat, Len(s) = n, NEW f,
           f = [i \in 1..n |-> f[i]], \A i \in 1..n : f[i] = s[i]
    PROVE  f = s
<1>1. s = [i \in 1..n |-> s[i]]
  OBVIOUS
<1> QED
  BY <1>1

(* The bytes behind the first n. *)
LEMMA Rest ==
    ASSUME NEW s \in Seq(Nat), NEW m \in Nat, Len(s) = m, NEW n \in Nat, n <= m,
           NEW t, t = SubSeq(s, n + 1, m)
    PROVE  t \in Seq(Nat) /\ Len(t) = m - n /\ \A i \in 1 .. m - n : t[i] = s[n + i]
<1>1. \A i \in n + 1 .. m : s[i] \in Nat
  <2> SUFFICES ASSUME NEW i \in n + 1 .. m PROVE s[i] \in Nat
    OBVIOUS
  <2>1. i \in 1..m
    OBVIOUS
  <2> QED
    BY <2>1
<1>2. /\ t \in Seq(Nat) /\ Len(t) = IF n + 1 <= m THEN m - (n + 1) + 1 ELSE 0
      /\ \A i \in 1 .. m - (n + 1) + 1 : t[i] = s[(n + 1) + i - 1]
  BY SMTT(30), <1>1, SubSeqProperties
<1>3. m - (n + 1) + 1 = m - n /\ (~(n + 1 <= m) => m - n = 0)
  OBVIOUS
<1>4. \A i \in 1 .. m - n : (n + 1) + i - 1 = n + i
  OBVIOUS
<1> QED
  BY <1>2, <1>3, <1>4

LEMMA PeekHolds ==
    ASSUME NEW b, NEW s, Holds(b, s), NEW n \in Nat, n <= ReadableBytes(b)
    PROVE  PeekAsVector(b, n) = SubSeq(s, 1, n)
<1>1. s \in Seq(Nat)
  BY HoldsParts
<1>2. PICK size, reader, writer, m \in Nat :
          \E cells \in [0 .. size - 1 -> Nat] : Parts(b, s, size, cells, reader, writer, m)
  BY HoldsParts
<1>3. PICK cells \in [0 .. size - 1 -> Nat] : Parts(b, s, size, cells, reader, writer, m)
  BY <1>2
<1>4. PICK p : p = PeekAsVector(b, n)
  OBVIOUS
<1>5. p = [i \in 1..n |-> p[i]] /\ \A i \in 1..n : p[i] = cells[reader + i - 1]
  BY <1>3, <1>4 DEF PeekAsVector, Parts
<1>6. PICK t : t = SubSeq(s, 1, n)
  OBVIOUS
<1>7. n <= m /\ Len(s) = m
  BY <1>3 DEF Parts
<1>8. t \in Seq(Nat) /\ Len(t) = n /\ \A i \in 1..n : t[i] = s[i]
  BY <1>1, <1>6, <1>7
<1>9. ASSUME NEW i \in 1..n
      PROVE  p[i] = t[i]
  <2>1. PICK k \in Int : k = reader + i - 1
    OBVIOUS
  <2>2. k \in reader .. writer - 1 /\ k - reader + 1 = i
    BY <1>3, <1>7, <2>1 DEF Parts
  <2>3. cells[k] = s[k - reader + 1]
    BY <1>3, <2>2 DEF Parts
  <2> QED
    BY <1>5, <1>8, <2>1, <2>2, <2>3
<1>10. p = t
  BY <1>5, <1>8, <1>9, SameBytes
<1> QED
  BY <1>4, <1>6, <1>10

LEMMA ContentIs ==
    ASSUME NEW b, NEW s, Holds(b, s)
    PROVE  Content(b) = s
<1>1. s \in Seq(Nat)
  BY HoldsParts
<1>2. PICK m \in Nat : ReadableBytes(b) = m /\ Len(s) = m
  BY HoldsParts DEF Parts
<1>3. Content(b) = SubSeq(s, 1, Len(s))
  BY <1>2, PeekHolds DEF Content
<1> QED
  BY <1>1, <1>3, SubSeqFull

LEMMA NewHolds == Holds(NewBuffer, <<>>)
<1>1. PICK k \in Nat : k = kPrependSize
  BY BufferAssumption
<1>2. PICK size \in Nat : size = kPrependSize + kInitialSize /\ k <= size
  BY <1>1, BufferAssumption
<1>3. PICK cells : cells = [i \in 0 .. kPrependSize + kInitialSize - 1 |-> 0]
  OBVIOUS
<1>4. cells \in [0 .. size - 1 -> Nat]
  <2>1. cells \in [0 .. kPrependSize + kInitialSize - 1 -> Nat]
    BY <1>3
  <2> QED
    BY <1>2, <2>1, BufferAssumption
<1>5. Placed(size, cells, k, k, <<>>)
  <2>1. Len(<<>>) = k - k /\ <<>> \in Seq(Nat) /\ k .. k - 1 = {}
    OBVIOUS
  <2> QED
    BY <1>1, <1>2, <1>4, <2>1 DEF Placed
<1>6. Holds(Buf(size, cells, k, k), <<>>)
  BY <1>5, MakeHolds
<1>7. NewBuffer = Buf(size, cells, k, k)
  BY <1>1, <1>2, <1>3 DEF NewBuffer
<1> QED
  BY <1>6, <1>7

(* retrieve() takes from the front; when it takes all, the indices go back *)
(* to the front.                                                           *)
LEMMA RetrieveHolds ==
    ASSUME NEW b, NEW s, Holds(b, s), NEW n \in Nat, NEW len \in Nat,
           n = IF len > ReadableBytes(b) THEN ReadableBytes(b) ELSE len
    PROVE  Holds(Retrieve(b, len), SubSeq(s, n + 1, Len(s)))
<1>1. s \in Seq(Nat)
  BY HoldsParts
<1>2. PICK size, reader, writer, m \in Nat :
          \E cells \in [0 .. size - 1 -> Nat] : Parts(b, s, size, cells, reader, writer, m)
  BY HoldsParts
<1>3. PICK cells \in [0 .. size - 1 -> Nat] : Parts(b, s, size, cells, reader, writer, m)
  BY <1>2
<1>4. /\ n <= m /\ Len(s) = m /\ ReadableBytes(b) = m /\ kPrependSize <= size
  BY <1>3 DEF Parts
<1>5. m = writer - reader
  BY <1>3 DEF Parts
<1>6. PICK t : t = SubSeq(s, n + 1, m)
  OBVIOUS
<1>7. t \in Seq(Nat) /\ Len(t) = m - n /\ \A i \in 1 .. m - n : t[i] = s[n + i]
  BY <1>1, <1>4, <1>6, Rest
<1>8. CASE len < m
  <2>1. n = len
    BY <1>2, <1>4, <1>8
  <2>2. PICK r \in Nat : r = reader + n
    <3>1. reader + n \in Nat
      BY <1>2
    <3> QED
      BY <3>1
  <2>3. Retrieve(b, len) = Buf(size, cells, r, writer)
    BY <1>3, <1>4, <1>8, <2>1, <2>2 DEF Retrieve, Parts
  <2>4. r <= writer /\ Len(t) = writer - r
    BY <1>2, <1>3, <1>4, <1>7, <1>8, <2>1, <2>2 DEF Parts
  <2>5. ASSUME NEW i \in r .. writer - 1
        PROVE  cells[i] = t[i - r + 1]
    <3>1. PICK k \in Int : k = i - r + 1
      BY <2>2
    <3>2. k \in 1 .. m - n /\ n + k = i - reader + 1 /\ i \in reader .. writer - 1
      BY <1>2, <1>4, <1>5, <2>2, <3>1
    <3>3. cells[i] = s[i - reader + 1]
      BY <1>3, <3>2 DEF Parts
    <3> QED
      BY <1>7, <3>1, <3>2, <3>3
  <2>6. Placed(size, cells, r, writer, t)
    BY <1>2, <1>3, <1>7, <2>2, <2>4, <2>5 DEF Placed, Parts
  <2> QED
    BY <1>4, <1>6, <2>3, <2>6, MakeHolds
<1>9. CASE ~(len < m)
  <2>1. PICK k \in Nat : k = kPrependSize
    BY BufferAssumption
  <2>2. n = m
    BY <1>2, <1>4, <1>9
  <2>3. Retrieve(b, len) = Buf(size, cells, k, k)
    BY <1>3, <1>4, <1>9, <2>1 DEF Retrieve, RetrieveAll, Parts
  <2>4. Len(t) = k - k /\ k .. k - 1 = {} /\ k <= size
    BY <1>2, <1>4, <1>7, <2>1, <2>2
  <2>5. Placed(size, cells, k, k, t)
    <3>1. \A i \in k .. k - 1 : cells[i] = t[i - k + 1]
      BY <2>4
    <3> QED
      BY <1>2, <1>3, <1>4, <1>7, <2>1, <2>4, <3>1 DEF Placed
  <2> QED
    BY <1>4, <1>6, <2>3, <2>5, MakeHolds
<1> QED
  BY <1>8, <1>9

(* What is written is put behind what can be read. *)
LEMMA WriteHolds ==
    ASSUME NEW b, NEW s, Holds(b, s), NEW data \in Seq(Nat), Len(data) <= WritableBytes(b)
    PROVE  /\ Holds(Write(b, data), s \o data)
           /\ Write(b, data).size = b.size /\ Write(b, data).reader = b.reader
           /\ Write(b, data).writer = b.writer + Len(data)
<1>1. s \in Seq(Nat)
  BY HoldsParts
<1>2. PICK size, reader, writer, m \in Nat :
          \E cells \in [0 .. size - 1 -> Nat] : Parts(b, s, size, cells, reader, writer, m)
  BY HoldsParts
<1>3. PICK cells \in [0 .. size - 1 -> Nat] : Parts(b, s, size, cells, reader, writer, m)
  BY <1>2
<1>4. PICK n \in Nat : n = Len(data)
  OBVIOUS
<1>5. PICK new : new = [i \in 0 .. size - 1 |->
                          IF writer <= i /\ i < writer + n
                          THEN data[i - writer + 1] ELSE cells[i]]
  OBVIOUS
<1>6. Write(b, data) = Buf(size, new, reader, writer + n)
  BY <1>3, <1>4, <1>5 DEF Write, Parts
<1>7. PICK t : t = s \o data
  OBVIOUS
<1>8. /\ t \in Seq(Nat) /\ Len(t) = m + n
      /\ \A i \in 1 .. m + n : t[i] = IF i <= m THEN s[i] ELSE data[i - m]
  <2>1. Len(s) = m
    BY <1>3 DEF Parts
  <2>2. /\ t \in Seq(Nat) /\ Len(t) = Len(s) + Len(data)
        /\ \A i \in 1 .. Len(s) + Len(data) :
             t[i] = IF i <= Len(s) THEN s[i] ELSE data[i - Len(s)]
    BY <1>1, <1>7, ConcatProperties
  <2> QED
    BY <1>4, <2>1, <2>2
<1>9. \A i \in 0 .. size - 1 :
         new[i] = IF writer <= i /\ i < writer + n THEN data[i - writer + 1] ELSE cells[i]
  BY <1>5
<1>10. ASSUME NEW i \in 0 .. size - 1
      PROVE  new[i] \in Nat
  <2>1. CASE writer <= i /\ i < writer + n
    <3>1. PICK k \in Int : k = i - writer + 1
      OBVIOUS
    <3>2. k \in 1..n
      BY <2>1, <3>1
    <3>3. data[k] \in Nat
      BY <1>4, <3>2
    <3> QED
      BY <1>9, <2>1, <3>1, <3>3
  <2>2. CASE ~(writer <= i /\ i < writer + n)
    BY <1>9, <2>2
  <2> QED
    BY <2>1, <2>2
<1>11. ASSUME NEW i \in reader .. writer + n - 1
       PROVE  new[i] = t[i - reader + 1]
  <2>1. PICK k \in Int : k = i - reader + 1
    OBVIOUS
  <2>2. i \in 0 .. size - 1 /\ k \in 1 .. m + n
    BY <1>3, <1>4, <2>1 DEF Parts
  <2>3. CASE i < writer
    <3>1. i \in reader .. writer - 1 /\ k <= m
      BY SMTT(30), <1>3, <2>1, <2>3 DEF Parts
    <3>2. cells[i] = s[k]
      BY <1>3, <2>1, <3>1 DEF Parts
    <3>3. ~(writer <= i)
      BY <2>3
    <3>4. new[i] = cells[i] /\ t[k] = s[k]
      BY <1>8, <1>9, <2>2, <3>1, <3>3
    <3> QED
      BY <2>1, <3>2, <3>4
  <2>4. CASE ~(i < writer)
    <3>1. writer <= i /\ i < writer + n /\ ~(k <= m) /\ k - m = i - writer + 1
      BY <1>3, <2>1, <2>4 DEF Parts
    <3>2. t[k] = data[k - m] /\ new[i] = data[i - writer + 1]
      BY <1>8, <1>9, <2>2, <3>1
    <3> QED
      BY <2>1, <3>1, <3>2
  <2> QED
    BY <2>3, <2>4
<1>12. PICK w \in Nat : w = writer + n
  BY <1>2
<1>13. /\ reader <= w /\ w <= size /\ kPrependSize <= size /\ Len(t) = w - reader
  BY <1>2, <1>3, <1>4, <1>8, <1>12 DEF Parts
<1>14. new \in [0 .. size - 1 -> Nat]
  BY <1>5, <1>10
<1>15. Placed(size, new, reader, w, t)
  BY SMTT(30), <1>2, <1>8, <1>11, <1>12, <1>13, <1>14 DEF Placed
<1>16. Holds(Buf(size, new, reader, w), t)
  BY <1>15, MakeHolds
<1> QED
  BY <1>2, <1>3, <1>4, <1>6, <1>7, <1>12, <1>16 DEF Buf, Parts

(* makeSpace, when nothing has to grow: what can be read goes to the front, *)
(* where it fits because it fitted behind the reader.                      *)
LEMMA MoveHolds ==
    ASSUME NEW b, NEW s, Holds(b, s), kPrependSize + ReadableBytes(b) <= b.size
    PROVE  /\ Holds(MoveToFront(b), s)
           /\ MoveToFront(b).size = b.size /\ MoveToFront(b).reader = kPrependSize
           /\ MoveToFront(b).writer = kPrependSize + ReadableBytes(b)
<1>1. s \in Seq(Nat)
  BY HoldsParts
<1>2. PICK size, reader, writer, m \in Nat :
          \E cells \in [0 .. size - 1 -> Nat] : Parts(b, s, size, cells, reader, writer, m)
  BY HoldsParts
<1>3. PICK cells \in [0 .. size - 1 -> Nat] : Parts(b, s, size, cells, reader, writer, m)
  BY <1>2
<1>4. PICK k \in Nat : k = kPrependSize
  BY BufferAssumption
<1>5. /\ ReadableBytes(b) = m /\ m = writer - reader /\ k + m <= size
      /\ Len(s) = m /\ reader <= writer /\ writer <= size
  BY <1>3, <1>4 DEF Parts
<1>6. PICK w \in Nat : w = k + m
  BY <1>2, <1>4
<1>7. PICK new : new = [i \in 0 .. size - 1 |->
                          IF k <= i /\ i < w THEN cells[i - k + reader] ELSE cells[i]]
  OBVIOUS
<1>8. MoveToFront(b) = Buf(size, new, k, w)
  BY <1>3, <1>4, <1>5, <1>6, <1>7 DEF MoveToFront, Parts
<1>9. ASSUME NEW i \in k .. w - 1
      PROVE  i \in 0 .. size - 1 /\ i - k + reader \in reader .. writer - 1
                /\ i - k + reader \in 0 .. size - 1
                /\ (i - k + reader) - reader + 1 = i - k + 1
  BY <1>2, <1>4, <1>5, <1>6
<1>10. \A i \in 0 .. size - 1 :
         new[i] = IF k <= i /\ i < w THEN cells[i - k + reader] ELSE cells[i]
  BY <1>7
<1>11. ASSUME NEW i \in 0 .. size - 1
       PROVE  new[i] \in Nat
  <2>1. CASE k <= i /\ i < w
    <3>1. i - k + reader \in 0 .. size - 1
      BY <1>4, <1>6, <1>9, <2>1
    <3>2. PICK j \in 0 .. size - 1 : j = i - k + reader
      BY <3>1
    <3> QED
      BY <1>3, <1>10, <2>1, <3>2
  <2>2. CASE ~(k <= i /\ i < w)
    BY <1>3, <1>10, <2>2
  <2> QED
    BY <2>1, <2>2
<1>12. ASSUME NEW i \in k .. w - 1
       PROVE  new[i] = s[i - k + 1]
  <2>1. PICK j : j = i - k + reader
    OBVIOUS
  <2>2. i \in 0 .. size - 1 /\ j \in reader .. writer - 1 /\ j - reader + 1 = i - k + 1
    BY <1>9, <2>1
  <2>3. new[i] = cells[j]
    BY <1>4, <1>6, <1>10, <2>1, <2>2
  <2>4. cells[j] = s[j - reader + 1]
    BY <1>3, <2>2 DEF Parts
  <2> QED
    BY <2>2, <2>3, <2>4
<1>13. k <= w /\ w <= size /\ Len(s) = w - k
  BY <1>2, <1>4, <1>5, <1>6
<1>14. new \in [0 .. size - 1 -> Nat]
  BY <1>7, <1>11
<1>15. Placed(size, new, k, w, s)
  BY SMTT(30), <1>1, <1>2, <1>4, <1>5, <1>6, <1>12, <1>13, <1>14 DEF Placed
<1> QED
  BY <1>3, <1>4, <1>5, <1>6, <1>8, <1>15, MakeHolds DEF Buf, Parts

(* A vector that is not cut below the writer keeps what can be read. *)
LEMMA ResizeHolds ==
    ASSUME NEW b, NEW s, Holds(b, s), NEW n \in Nat, b.writer <= n, kPrependSize <= n
    PROVE  /\ Holds(Resize(b, n), s)
           /\ Resize(b, n).size = n /\ Resize(b, n).reader = b.reader
           /\ Resize(b, n).writer = b.writer
<1>1. s \in Seq(Nat)
  BY HoldsParts
<1>2. PICK size, reader, writer, m \in Nat :
          \E cells \in [0 .. size - 1 -> Nat] : Parts(b, s, size, cells, reader, writer, m)
  BY HoldsParts
<1>3. PICK cells \in [0 .. size - 1 -> Nat] : Parts(b, s, size, cells, reader, writer, m)
  BY <1>2
<1>4. PICK new : new = [i \in 0 .. n - 1 |-> IF i < size THEN cells[i] ELSE 0]
  OBVIOUS
<1>5. Resize(b, n) = Buf(n, new, reader, writer)
  BY <1>3, <1>4 DEF Resize, Parts
<1>6. \A i \in 0 .. n - 1 : new[i] = IF i < size THEN cells[i] ELSE 0
  BY <1>4
<1>7. ASSUME NEW i \in 0 .. n - 1
      PROVE  new[i] \in Nat
  <2>1. CASE i < size
    <3>1. i \in 0 .. size - 1
      BY <1>2, <2>1
    <3> QED
      BY <1>3, <1>6, <2>1, <3>1
  <2>2. CASE ~(i < size)
    BY <1>6, <2>2
  <2> QED
    BY <2>1, <2>2
<1>8. new \in [0 .. n - 1 -> Nat]
  BY <1>4, <1>7
<1>9. writer <= n /\ reader <= writer /\ writer <= size /\ Len(s) = writer - reader
  BY <1>3 DEF Parts
<1>10. ASSUME NEW i \in reader .. writer - 1
       PROVE  new[i] = s[i - reader + 1]
  <2>1. i \in 0 .. n - 1 /\ i < size
    BY <1>2, <1>9
  <2>2. cells[i] = s[i - reader + 1]
    BY <1>3 DEF Parts
  <2> QED
    BY <1>6, <2>1, <2>2
<1>11. Placed(n, new, reader, writer, s)
  BY <1>1, <1>2, <1>8, <1>9, <1>10 DEF Placed
<1> QED
  BY <1>3, <1>5, <1>11, MakeHolds DEF Buf, Parts

(* ensureWritableBytes, whether it grows, moves or has the space already. *)
LEMMA EnsureHolds ==
    ASSUME NEW b, NEW s, Holds(b, s), NEW len \in Nat
    PROVE  /\ Holds(EnsureWritableBytes(b, len), s)
           /\ len <= WritableBytes(EnsureWritableBytes(b, len))
<1>1. PICK size, reader, writer, m \in Nat :
          \E cells \in [0 .. size - 1 -> Nat] : Parts(b, s, size, cells, reader, writer, m)
  BY HoldsParts
<1>2. /\ b.size = size /\ b.writer = writer /\ PrependableBytes(b) = reader
      /\ ReadableBytes(b) = m /\ m = writer - reader /\ WritableBytes(b) = size - writer
      /\ reader <= writer /\ writer <= size /\ kPrependSize <= size
  BY <1>1 DEF Parts, PrependableBytes
<1>3. CASE ~(WritableBytes(b) < len)
  <2>1. EnsureWritableBytes(b, len) = b /\ len <= WritableBytes(b)
    BY <1>1, <1>2, <1>3 DEF EnsureWritableBytes
  <2> QED
    BY <2>1
<1>4. CASE WritableBytes(b) < len /\ MustGrow(b, len)
  <2>1. PICK n \in Nat : n = writer + len
    BY <1>1
  <2>2. EnsureWritableBytes(b, len) = Resize(b, n)
    BY <1>2, <1>4, <2>1 DEF EnsureWritableBytes, MakeSpace
  <2>3. b.writer <= n /\ kPrependSize <= n
    BY <1>1, <1>2, <1>4, <2>1, BufferAssumption
  <2>4. Holds(Resize(b, n), s) /\ WritableBytes(Resize(b, n)) = n - writer
    BY <1>2, <2>3, ResizeHolds DEF WritableBytes
  <2> QED
    BY <1>1, <2>1, <2>2, <2>4
<1>5. CASE WritableBytes(b) < len /\ ~MustGrow(b, len)
  <2>1. EnsureWritableBytes(b, len) = MoveToFront(b)
    BY <1>5 DEF EnsureWritableBytes, MakeSpace
  <2>2. size - writer + reader >= len + kPrependSize
    BY <1>1, <1>2, <1>5, BufferAssumption DEF MustGrow
  <2>3. kPrependSize + ReadableBytes(b) <= b.size
    BY <1>1, <1>2, <2>2, BufferAssumption
  <2>4. /\ Holds(MoveToFront(b), s)
        /\ WritableBytes(MoveToFront(b)) = size - (kPrependSize + m)
    BY <1>2, <2>3, MoveHolds DEF WritableBytes
  <2>5. len <= size - (kPrependSize + m)
    BY <1>1, <1>2, <2>2, BufferAssumption
  <2> QED
    BY <2>1, <2>4, <2>5
<1> QED
  BY <1>3, <1>4, <1>5

(* append puts behind what can be read. *)
LEMMA AppendHolds ==
    ASSUME NEW b, NEW s, Holds(b, s), NEW data \in Seq(Nat)
    PROVE  Holds(AppendBytes(b, data), s \o data)
<1>1. PICK c : c = EnsureWritableBytes(b, Len(data))
  OBVIOUS
<1>2. Holds(c, s) /\ Len(data) <= WritableBytes(c)
  BY <1>1, EnsureHolds
<1>3. Holds(Write(c, data), s \o data)
  BY <1>2, WriteHolds
<1> QED
  BY <1>1, <1>3 DEF AppendBytes

(* A string of bytes and where it is cut. *)
LEMMA Halves ==
    ASSUME NEW data \in Seq(Nat), NEW n \in Nat, n <= Len(data)
    PROVE  /\ SubSeq(data, 1, n) \in Seq(Nat) /\ Len(SubSeq(data, 1, n)) = n
           /\ SubSeq(data, n + 1, Len(data)) \in Seq(Nat)
           /\ SubSeq(data, 1, n) \o SubSeq(data, n + 1, Len(data)) = data
<1>1. SubSeq(data, 1, n) \in Seq(Nat) /\ Len(SubSeq(data, 1, n)) = n
  OBVIOUS
<1>2. SubSeq(data, n + 1, Len(data)) \in Seq(Nat)
  BY Rest
<1>3. /\ 1 \in 1 .. Len(data) + 1 /\ n \in 1 - 1 .. Len(data)
      /\ Len(data) \in n .. Len(data) /\ SubSeq(data, 1, Len(data)) = data
  BY SubSeqFull
<1>4. SubSeq(data, 1, n) \o SubSeq(data, n + 1, Len(data)) = SubSeq(data, 1, Len(data))
  BY <1>3, ConcatAdjacentSubSeq
<1> QED
  BY <1>1, <1>2, <1>3, <1>4

(* readFromFd: the part that fitted and the part that was appended are one *)
(* string.                                                                 *)
LEMMA FillHolds ==
    ASSUME NEW b, NEW s, Holds(b, s), NEW data \in Seq(Nat)
    PROVE  Holds(FillFromFd(b, data), s \o data)
<1>1. s \in Seq(Nat)
  BY HoldsParts
<1>2. PICK n \in Nat : n = WritableBytes(b)
  <2>1. WritableBytes(b) \in Nat
    BY HoldsParts DEF Parts
  <2> QED
    BY <2>1
<1>3. CASE Len(data) <= n
  <2>1. FillFromFd(b, data) = Write(b, data)
    BY <1>2, <1>3 DEF FillFromFd
  <2> QED
    BY <1>2, <1>3, <2>1, WriteHolds
<1>4. CASE ~(Len(data) <= n)
  <2>1. PICK head, tail : head = SubSeq(data, 1, n) /\ tail = SubSeq(data, n + 1, Len(data))
    OBVIOUS
  <2>2. n <= Len(data)
    BY <1>4
  <2>3. head \in Seq(Nat) /\ Len(head) = n /\ tail \in Seq(Nat) /\ head \o tail = data
    BY <2>1, <2>2, Halves
  <2>4. Holds(Write(b, head), s \o head)
    BY <1>2, <2>3, WriteHolds
  <2>5. Holds(AppendBytes(Write(b, head), tail), (s \o head) \o tail)
    BY <2>3, <2>4, AppendHolds
  <2>6. (s \o head) \o tail = s \o data
    <3>1. (s \o head) \o tail = s \o (head \o tail)
      <4>1. s \in Seq(Nat) /\ head \in Seq(Nat) /\ tail \in Seq(Nat)
        BY <1>1, <2>3
      <4> QED
        BY ONLY SMTT(30), <4>1, ConcatAssociative
    <3> QED
      BY <2>3, <3>1
  <2>7. FillFromFd(b, data) = AppendBytes(Write(b, head), tail)
    BY <1>2, <1>4, <2>1 DEF FillFromFd
  <2> QED
    BY <2>5, <2>6, <2>7
<1> QED
  BY <1>3, <1>4

(* prepend puts in front of what can be read. *)
LEMMA PrependHolds ==
    ASSUME NEW b, NEW s, Holds(b, s), NEW data \in Seq(Nat), ~PrependThrows(b, Len(data))
    PROVE  Holds(Prepend(b, data), data \o s)
<1>1. s \in Seq(Nat)
  BY HoldsParts
<1>2. PICK size, reader, writer, m \in Nat :
          \E cells \in [0 .. size - 1 -> Nat] : Parts(b, s, size, cells, reader, writer, m)
  BY HoldsParts
<1>3. PICK cells \in [0 .. size - 1 -> Nat] : Parts(b, s, size, cells, reader, writer, m)
  BY <1>2
<1>4. PICK n \in Nat : n = Len(data)
  OBVIOUS
<1>5. /\ reader <= writer /\ writer <= size /\ kPrependSize <= size /\ m = writer - reader
      /\ Len(s) = m /\ b.reader = reader
  BY <1>3 DEF Parts
<1>6. n <= reader
  BY <1>2, <1>4, <1>5 DEF PrependThrows, PrependableBytes
<1>7. PICK r \in Nat : r = reader - n
  <2>1. reader - n \in Nat
    BY <1>2, <1>4, <1>6
  <2> QED
    BY <2>1
<1>8. PICK new : new = [i \in 0 .. size - 1 |->
                          IF r <= i /\ i < reader
                          THEN data[i - reader + n + 1] ELSE cells[i]]
  OBVIOUS
<1>9. Prepend(b, data) = Buf(size, new, r, writer)
  BY <1>3, <1>4, <1>7, <1>8 DEF Prepend, Parts
<1>10. \A i \in 0 .. size - 1 :
         new[i] = IF r <= i /\ i < reader THEN data[i - reader + n + 1] ELSE cells[i]
  BY <1>8
<1>11. PICK t : t = data \o s
  OBVIOUS
<1>12. /\ t \in Seq(Nat) /\ Len(t) = n + m
       /\ \A i \in 1 .. n + m : t[i] = IF i <= n THEN data[i] ELSE s[i - n]
  <2>1. /\ t \in Seq(Nat) /\ Len(t) = Len(data) + Len(s)
        /\ \A i \in 1 .. Len(data) + Len(s) :
             t[i] = IF i <= Len(data) THEN data[i] ELSE s[i - Len(data)]
    BY <1>1, <1>11, ConcatProperties
  <2> QED
    BY <1>4, <1>5, <2>1
<1>13. ASSUME NEW i \in 0 .. size - 1
       PROVE  new[i] \in Nat
  <2>1. CASE r <= i /\ i < reader
    <3>1. i - reader + n + 1 \in Int
      BY <1>2, <1>4
    <3>2. PICK k \in Int : k = i - reader + n + 1
      BY <3>1
    <3>3. k \in 1..n
      BY <1>2, <1>4, <1>7, <2>1, <3>2
    <3>4. data[k] \in Nat
      BY <1>4, <3>3
    <3> QED
      BY <1>10, <2>1, <3>2, <3>4
  <2>2. CASE ~(r <= i /\ i < reader)
    BY <1>3, <1>10, <2>2
  <2> QED
    BY <2>1, <2>2
<1>14. new \in [0 .. size - 1 -> Nat]
  BY <1>8, <1>13
<1>15. ASSUME NEW i \in r .. writer - 1
       PROVE  new[i] = t[i - r + 1]
  <2>1. PICK k \in Int : k = i - r + 1
    BY <1>7
  <2>2. i \in 0 .. size - 1 /\ k \in 1 .. n + m
    BY <1>2, <1>4, <1>5, <1>7, <2>1
  <2>3. CASE i < reader
    <3>1. r <= i /\ k <= n /\ i - reader + n + 1 = k
      BY <1>2, <1>4, <1>7, <2>1, <2>3
    <3>2. new[i] = data[k] /\ t[k] = data[k]
      BY <1>10, <1>12, <2>2, <2>3, <3>1
    <3> QED
      BY <2>1, <3>2
  <2>4. CASE ~(i < reader)
    <3>1. i \in reader .. writer - 1 /\ ~(k <= n) /\ k - n = i - reader + 1
      BY <1>2, <1>4, <1>7, <2>1, <2>4
    <3>2. cells[i] = s[i - reader + 1]
      BY <1>3, <3>1 DEF Parts
    <3>3. new[i] = cells[i] /\ t[k] = s[k - n]
      BY <1>10, <1>12, <2>2, <2>4, <3>1
    <3> QED
      BY <2>1, <3>1, <3>2, <3>3
  <2> QED
    BY <2>3, <2>4
<1>16. r <= writer /\ Len(t) = writer - r
  BY <1>2, <1>4, <1>5, <1>7, <1>12
<1>17. Placed(size, new, r, writer, t)
  BY <1>2, <1>5, <1>7, <1>12, <1>14, <1>15, <1>16 DEF Placed
<1> QED
  BY <1>9, <1>11, <1>17, MakeHolds

(* shrink, when the reserved front is free. *)
LEMMA ShrinkHolds ==
    ASSUME NEW b, NEW s, Holds(b, s), NEW reserve \in Nat, PrependableBytes(b) >= kPrependSize
    PROVE  Holds(Shrink(b, reserve), s)
<1>1. PICK size, reader, writer, m \in Nat :
          \E cells \in [0 .. size - 1 -> Nat] : Parts(b, s, size, cells, reader, writer, m)
  BY HoldsParts
<1>2. /\ b.size = size /\ PrependableBytes(b) = reader /\ ReadableBytes(b) = m
      /\ m = writer - reader /\ reader <= writer /\ writer <= size
  BY <1>1 DEF Parts, PrependableBytes
<1>3. kPrependSize + ReadableBytes(b) <= b.size
  BY <1>1, <1>2, BufferAssumption
<1>4. PICK c : c = MoveToFront(b)
  OBVIOUS
<1>5. Holds(c, s) /\ c.writer = kPrependSize + m
  BY <1>2, <1>3, <1>4, MoveHolds
<1>6. PICK n \in Nat : n = kPrependSize + m + reserve
  <2>1. kPrependSize + m + reserve \in Nat
    BY <1>1, BufferAssumption
  <2> QED
    BY <2>1
<1>7. c.writer <= n /\ kPrependSize <= n
  BY <1>1, <1>5, <1>6, BufferAssumption
<1>8. Holds(Resize(c, n), s)
  BY <1>5, <1>7, ResizeHolds
<1> QED
  BY <1>2, <1>4, <1>6, <1>8 DEF Shrink

-----------------------------------------------------------------------------
(* The refinement *)

(* The inductive invariant: there is a string that the buffer holds. *)
OwnerInv == \E s : Holds(buf, s)

(* Every call is a step of the queue, or changes nothing that it shows. *)
LEMMA StepImplements ==
    ASSUME ~ShrinkAnytime, OwnerInv, OwnerNext
    PROVE  OwnerInv' /\ [Queue!Next]_<<Content(buf), result>>
<1>1. PICK s : Holds(buf, s)
  BY DEF OwnerInv
<1>2. Content(buf) = s /\ s \in Seq(Nat)
  BY <1>1, ContentIs, HoldsParts
<1>3. SUFFICES \E t : Holds(buf', t)
                       /\ ((Queue!Next /\ Content(buf)' = t) \/ (t = s /\ UNCHANGED result))
  <2>1. PICK t : Holds(buf', t)
                 /\ ((Queue!Next /\ Content(buf)' = t) \/ (t = s /\ UNCHANGED result))
    BY <1>3
  <2>2. Content(buf)' = t
    BY <2>1, ContentIs
  <2> QED
    BY <1>2, <2>1, <2>2 DEF OwnerInv
<1>4. ASSUME NEW t, Holds(buf', t)
      PROVE  Content(buf)' = t
  BY <1>4, ContentIs
<1>5. ASSUME NEW data \in Data, NEW piece \in Data, Holds(buf', s \o piece), UNCHANGED result
      PROVE  Queue!Next
  <2>1. Queue!Put(piece)
    BY <1>2, <1>4, <1>5 DEF Queue!Put
  <2> QED
    BY <2>1 DEF Queue!Next
<1>6. CASE \E data \in Data : DoAppend(data)
  <2>1. PICK data \in Data : DoAppend(data)
    BY <1>6
  <2>2. data \in Seq(Nat)
    BY OwnerAssumption
  <2>3. Holds(buf', s \o data)
    BY <1>1, <2>1, <2>2, AppendHolds DEF DoAppend
  <2>4. UNCHANGED result
    BY <2>1 DEF DoAppend
  <2> QED
    BY <1>4, <1>5, <2>3, <2>4
<1>7. CASE \E data \in Data : DoReadFromFd(data)
  <2>1. PICK data \in Data : DoReadFromFd(data)
    BY <1>7
  <2>2. data \in Seq(Nat)
    BY OwnerAssumption
  <2>3. UNCHANGED result
    BY <2>1 DEF DoReadFromFd
  <2>4. CASE ~FillThrows(buf, Len(data))
    <3>1. Holds(buf', s \o data)
      BY <1>1, <2>1, <2>2, <2>4, FillHolds DEF DoReadFromFd
    <3> QED
      BY <1>4, <1>5, <2>3, <3>1
  <2>5. CASE FillThrows(buf, Len(data))
    <3>1. PICK n \in Nat : n = WritableBytes(buf)
      <4>1. WritableBytes(buf) \in Nat
        BY <1>1, HoldsParts DEF Parts
      <4> QED
        BY <4>1
    <3>2. n \in 0 .. Len(data)
      BY <2>2, <2>5, <3>1 DEF FillThrows
    <3>3. PICK head : head = SubSeq(data, 1, n)
      OBVIOUS
    <3>4. head \in Data
      BY <3>2, <3>3, OwnerAssumption
    <3>5. head \in Seq(Nat) /\ Len(head) = n
      BY <2>2, <3>2, <3>3, Halves
    <3>6. buf' = Write(buf, head)
      BY <2>1, <2>5, <3>1, <3>3 DEF DoReadFromFd
    <3>7. Holds(buf', s \o head)
      BY <1>1, <3>1, <3>5, <3>6, WriteHolds
    <3> QED
      BY <1>4, <1>5, <2>3, <3>4, <3>7
  <2> QED
    BY <2>4, <2>5
<1>8. CASE \E data \in Data : DoPrepend(data)
  <2>1. PICK data \in Data : DoPrepend(data)
    BY <1>8
  <2>2. data \in Seq(Nat)
    BY OwnerAssumption
  <2>3. Holds(buf', data \o s)
    BY <1>1, <2>1, <2>2, PrependHolds DEF DoPrepend
  <2>4. Queue!PushFront(data)
    BY <1>2, <1>4, <2>1, <2>3 DEF DoPrepend, Queue!PushFront
  <2>5. Queue!Next
    BY <2>1, <2>4 DEF Queue!Next
  <2>6. PICK t : t = data \o s
    OBVIOUS
  <2>7. Holds(buf', t) /\ Content(buf)' = t
    BY <1>4, <2>3, <2>6
  <2> QED
    BY <2>5, <2>7
<1>9. CASE \E len \in 0 .. ReadableBytes(buf) + 1 : DoRetrieve(len)
  <2>1. PICK m \in Nat : ReadableBytes(buf) = m /\ Len(s) = m
    BY <1>1, HoldsParts DEF Parts
  <2>2. PICK len \in Nat : DoRetrieve(len)
    BY <1>9, <2>1
  <2>3. PICK n : n = IF len > ReadableBytes(buf) THEN ReadableBytes(buf) ELSE len
    OBVIOUS
  <2>4. n \in Nat /\ n <= m
    BY <2>1, <2>2, <2>3
  <2>5. result' = SubSeq(s, 1, n)
    BY <1>1, <2>1, <2>2, <2>3, <2>4, PeekHolds DEF DoRetrieve
  <2>6. Holds(buf', SubSeq(s, n + 1, Len(s)))
    BY <1>1, <2>2, <2>3, <2>4, RetrieveHolds DEF DoRetrieve
  <2>7. Queue!Take(n)
    BY <1>2, <1>4, <2>5, <2>6 DEF Queue!Take
  <2>8. n \in 0 .. Len(Content(buf))
    BY <1>2, <2>1, <2>4
  <2>9. Queue!Next
    BY <2>7, <2>8 DEF Queue!Next
  <2>10. PICK t : t = SubSeq(s, n + 1, Len(s))
    OBVIOUS
  <2>11. Holds(buf', t) /\ Content(buf)' = t
    BY <1>4, <2>6, <2>10
  <2> QED
    BY <2>9, <2>11
<1>10. CASE \E reserve \in 0..MaxSize : DoShrink(reserve)
  <2>1. PICK reserve \in Nat : DoShrink(reserve)
    BY <1>10, OwnerAssumption
  <2>2. Holds(buf', s)
    BY <1>1, <2>1, ShrinkHolds DEF DoShrink
  <2> QED
    BY <2>1, <2>2 DEF DoShrink
<1> QED
  BY <1>6, <1>7, <1>8, <1>9, <1>10 DEF OwnerNext

(* The buffer behaves as a queue of bytes (append, prepend, retrieve and   *)
(* readFromFd, buffer.h and buffer.cpp): growing, moving to the front, the *)
(* reuse of the space in front and the split of readFromFd are never seen, *)
(* as long as shrink() is called only while the reserved front is free.    *)
THEOREM BufferImplementsByteQueue == ~ShrinkAnytime => (OwnerSpec => ImplementsByteQueue)
<1> SUFFICES ASSUME ~ShrinkAnytime PROVE OwnerSpec => ImplementsByteQueue
  OBVIOUS
<1>1. OwnerInit => OwnerInv /\ Queue!Init
  <2> SUFFICES ASSUME OwnerInit PROVE OwnerInv /\ Queue!Init
    OBVIOUS
  <2>1. Holds(buf, <<>>)
    BY NewHolds DEF OwnerInit
  <2>2. Content(buf) = <<>>
    BY <2>1, ContentIs
  <2> QED
    BY <2>1, <2>2 DEF OwnerInit, OwnerInv, Queue!Init
<1>2. OwnerInv /\ [OwnerNext]_<<buf, result>> => OwnerInv' /\ [Queue!Next]_<<Content(buf), result>>
  <2>1. CASE OwnerInv /\ OwnerNext
    BY <2>1, StepImplements
  <2>2. CASE OwnerInv /\ UNCHANGED <<buf, result>>
    BY <2>2 DEF OwnerInv, Content, PeekAsVector, ReadableBytes
  <2> QED
    BY <2>1, <2>2
<1> QED
  BY <1>1, <1>2, PTL DEF OwnerSpec, ImplementsByteQueue, Queue!Spec

(* reader_index_ <= writer_index_ <= buffer_.size() after any calls        *)
(* (buffer.h:42-49): what readableBytes() and writableBytes() return never *)
(* wraps around.                                                           *)
THEOREM BufferType == ~ShrinkAnytime => (OwnerSpec => []OwnerTypeOK)
<1> SUFFICES ASSUME ~ShrinkAnytime PROVE OwnerSpec => []OwnerTypeOK
  OBVIOUS
<1> DEFINE Typed == OwnerInv /\ result \in Seq(Nat)
<1>1. OwnerInit => Typed
  <2> SUFFICES ASSUME OwnerInit PROVE Typed
    OBVIOUS
  <2>1. Holds(buf, <<>>)
    BY NewHolds DEF OwnerInit
  <2>2. result \in Seq(Nat)
    BY DEF OwnerInit
  <2> QED
    BY <2>1, <2>2 DEF OwnerInv
<1>2. Typed /\ [OwnerNext]_<<buf, result>> => Typed'
  <2>1. ASSUME OwnerInv, OwnerNext, result \in Seq(Nat)
        PROVE  OwnerInv' /\ result' \in Seq(Nat)
    <3>1. OwnerInv'
      BY <2>1, StepImplements
    <3>2. PICK s : Holds(buf, s)
      BY <2>1 DEF OwnerInv
    <3>3. CASE \E len \in 0 .. ReadableBytes(buf) + 1 : DoRetrieve(len)
      <4>1. PICK m \in Nat : ReadableBytes(buf) = m /\ Len(s) = m
        BY <3>2, HoldsParts DEF Parts
      <4>2. PICK len \in Nat : DoRetrieve(len)
        BY <3>3, <4>1
      <4>3. PICK n : n = IF len > ReadableBytes(buf) THEN ReadableBytes(buf) ELSE len
        OBVIOUS
      <4>4. n \in Nat /\ n <= m
        BY <4>1, <4>2, <4>3
      <4>5. result' = SubSeq(s, 1, n)
        BY <3>2, <4>1, <4>2, <4>3, <4>4, PeekHolds DEF DoRetrieve
      <4>6. s \in Seq(Nat)
        BY <3>2, HoldsParts
      <4> QED
        BY <3>1, <4>1, <4>4, <4>5, <4>6, Halves
    <3>4. CASE UNCHANGED result
      BY <2>1, <3>1, <3>4
    <3>5. \/ UNCHANGED result
          \/ \E len \in 0 .. ReadableBytes(buf) + 1 : DoRetrieve(len)
      BY <2>1 DEF OwnerNext, DoAppend, DoReadFromFd, DoPrepend, DoShrink
    <3> QED
      BY <3>3, <3>4, <3>5
  <2>2. CASE Typed /\ UNCHANGED <<buf, result>>
    BY <2>2 DEF OwnerInv
  <2> QED
    BY <2>1, <2>2
<1>3. Typed => OwnerTypeOK
  BY DEF OwnerInv, Holds, Roomy, OwnerTypeOK
<1> QED
  BY <1>1, <1>2, <1>3, PTL DEF OwnerSpec
=============================================================================
