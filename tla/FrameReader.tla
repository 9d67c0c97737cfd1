----------------------------- MODULE FrameReader -----------------------------
(***************************************************************************)
(* The receiving side of one server connection: the socket's receive queue,*)
(* the edge-triggered epoll event, TcpConnectionImpl's input_buffer_, and  *)
(* the loop of TcpServerImpl::handleClientRead that cuts the byte stream   *)
(* into frames (src/src/transport/tcp_server.cpp, tcp_connection.cpp).     *)
(*                                                                         *)
(* The peer's byte stream is numbered from 0, and the byte at offset p is  *)
(* represented by p itself.  A frame is a header of HeaderSize bytes that  *)
(* announces "len" and starts at offset "at", followed by len bytes.       *)
(***************************************************************************)
EXTENDS Buffer, FiniteSets

CONSTANTS
    HeaderSize,     \* sizeof(uint32_t)
    MaxFrameSize,   \* MAX_FRAME_SIZE of decodeFrame
    ReceiveQueue,   \* how much the kernel holds for the socket
    Streams         \* the sequences of frames a peer may send

ASSUME SizesAssumption ==
    /\ HeaderSize \in Nat \ {0}
    /\ MaxFrameSize \in Nat \ {0}
    /\ ReceiveQueue \in Nat \ {0}

End(f) == f.at + HeaderSize + f.len

(* Frames follow one another, from offset 0, without gaps. *)
IsStream(fs) ==
    /\ fs \in Seq([at : Nat, len : Nat])
    /\ Len(fs) > 0 => fs[1].at = 0
    /\ \A k \in 1 .. Len(fs) - 1 : fs[k + 1].at = End(fs[k])
    /\ \A j, k \in 1..Len(fs) : j < k => End(fs[j]) <= fs[k].at

ASSUME StreamsAssumption == \A fs \in Streams : IsStream(fs)

VARIABLES
    frames,      \* what this peer sends, fixed
    arrived,     \* bytes that have reached the socket
    taken,       \* bytes read from the socket
    eof,         \* the peer has closed its end
    edge,        \* epoll has an event to report for the socket
    pc,          \* "epoll": in epoll_wait; "read": the event has been returned;
                 \* "decode": in the decode loop; "dead": an exception left it
    input,       \* input_buffer_
    delivered,   \* the frames handed to the message callback, as their bytes
    open         \* the connection has not been closed

vars == <<frames, arrived, taken, eof, edge, pc, input, delivered, open>>

peer == <<frames, arrived, eof>>

Last(fs) == IF fs = <<>> THEN 0 ELSE End(fs[Len(fs)])

Available == arrived - taken

Smaller(m, n) == IF m < n THEN m ELSE n

Init ==
    /\ frames \in Streams
    /\ arrived = 0
    /\ taken = 0
    /\ eof = FALSE
    /\ edge = FALSE
    /\ pc = "epoll"
    /\ input = NewBuffer
    /\ delivered = <<>>
    /\ open = TRUE

-----------------------------------------------------------------------------
(* The peer and the network.  The arrival of bytes, and of the peer's FIN, *)
(* is an edge; what stays in the queue is not.                             *)

Arrive(n) ==
    /\ ~eof
    /\ arrived + n <= Last(frames)
    /\ Available + n <= ReceiveQueue
    /\ arrived' = arrived + n
    /\ edge' = TRUE
    /\ UNCHANGED <<frames, taken, eof, pc, input, delivered, open>>

PeerClose ==
    /\ ~eof
    /\ eof' = TRUE
    /\ edge' = TRUE
    /\ UNCHANGED <<frames, arrived, taken, pc, input, delivered, open>>

-----------------------------------------------------------------------------
(* epoll_wait returns the event, which is thereby used up.                 *)
EpollWait ==
    /\ pc = "epoll"
    /\ open /\ edge
    /\ edge' = FALSE
    /\ pc' = "read"
    /\ UNCHANGED <<peer, taken, input, delivered, open>>

(* handleClientRead: one readv per event.  extra_buf is only offered to    *)
(* readv when the buffer's own writable part is smaller.                   *)
Offered ==
    LET writable == WritableBytes(input)
    IN  writable + (IF writable < ExtraSize THEN ExtraSize ELSE 0)

HandleRead ==
    /\ pc = "read"
    /\ Available > 0
    /\ LET n == Smaller(Available, Offered)
           data == [i \in 1..n |-> taken + (i - 1)]
       IN  /\ taken' = taken + n
           /\ \/ /\ FillThrows(input, n)
                 /\ input' = Write(input, SubSeq(data, 1, WritableBytes(input)))
                 /\ pc' = "dead"
              \/ /\ ~FillThrows(input, n)
                 /\ input' = FillFromFd(input, data)
                 /\ pc' = "decode"
    /\ UNCHANGED <<peer, edge, delivered, open>>

(* readv returned 0: handleClientClose. *)
HandleEof ==
    /\ pc = "read"
    /\ Available = 0 /\ eof
    /\ open' = FALSE
    /\ pc' = "epoll"
    /\ UNCHANGED <<peer, taken, edge, input, delivered>>

(* readv returned EAGAIN: the data was taken by an earlier event. *)
HandleAgain ==
    /\ pc = "read"
    /\ Available = 0 /\ ~eof
    /\ pc' = "epoll"
    /\ UNCHANGED <<peer, taken, edge, input, delivered, open>>

-----------------------------------------------------------------------------
(* decodeFrame, once per iteration of the loop.  The header is read from   *)
(* wherever peek() points: at the start of a frame it is that frame's      *)
(* length, anywhere else it is whatever the bytes there happen to say.     *)

Position == taken - ReadableBytes(input)

PeekLength(len) ==
    IF \E k \in 1..Len(frames) : frames[k].at = Position
    THEN \E k \in 1..Len(frames) : frames[k].at = Position /\ frames[k].len = len
    ELSE len \in 0 .. MaxFrameSize + 1

Valid(len) == len > 0 /\ len <= MaxFrameSize

DecodeNoHeader ==
    /\ pc = "decode"
    /\ ReadableBytes(input) < HeaderSize
    /\ pc' = "epoll"
    /\ UNCHANGED <<peer, taken, edge, input, delivered, open>>

(* Faulty variant, used only to test the properties: nothing is discarded.  *)
DecodeInvalidKeep(len) ==
    /\ pc = "decode"
    /\ ReadableBytes(input) >= HeaderSize
    /\ PeekLength(len)
    /\ ~Valid(len)
    /\ pc' = "epoll"
    /\ UNCHANGED <<peer, taken, edge, input, delivered, open>>

DecodeInvalid(len) ==
    /\ pc = "decode"
    /\ ReadableBytes(input) >= HeaderSize
    /\ PeekLength(len)
    /\ ~Valid(len)
    /\ input' = RetrieveAll(input)
    /\ pc' = "epoll"
    /\ UNCHANGED <<peer, taken, edge, delivered, open>>

DecodeHalf(len) ==
    /\ pc = "decode"
    /\ ReadableBytes(input) >= HeaderSize
    /\ PeekLength(len)
    /\ Valid(len)
    /\ ReadableBytes(input) < len + HeaderSize
    /\ pc' = "epoll"
    /\ UNCHANGED <<peer, taken, edge, input, delivered, open>>

(* Faulty variants, used only to test the properties: the loop is an if,   *)
(* and the header is not removed.                                          *)
DecodeOneFrame(len) ==
    /\ pc = "decode"
    /\ ReadableBytes(input) >= HeaderSize
    /\ PeekLength(len)
    /\ Valid(len)
    /\ ReadableBytes(input) >= len + HeaderSize
    /\ LET body == Retrieve(input, HeaderSize)
       IN  /\ delivered' = Append(delivered, PeekAsVector(body, len))
           /\ input' = Retrieve(body, len)
    /\ pc' = "epoll"
    /\ UNCHANGED <<peer, taken, edge, open>>

DecodeWithHeader(len) ==
    /\ pc = "decode"
    /\ ReadableBytes(input) >= HeaderSize
    /\ PeekLength(len)
    /\ Valid(len)
    /\ ReadableBytes(input) >= len + HeaderSize
    /\ delivered' = Append(delivered, PeekAsVector(input, len))
    /\ input' = Retrieve(input, len)
    /\ UNCHANGED <<peer, taken, edge, pc, open>>

DecodeFrame(len) ==
    /\ pc = "decode"
    /\ ReadableBytes(input) >= HeaderSize
    /\ PeekLength(len)
    /\ Valid(len)
    /\ ReadableBytes(input) >= len + HeaderSize
    /\ LET body == Retrieve(input, HeaderSize)
       IN  /\ delivered' = Append(delivered, PeekAsVector(body, len))
           /\ input' = Retrieve(body, len)
    /\ UNCHANGED <<peer, taken, edge, pc, open>>

Lengths == (0 .. MaxFrameSize + 1) \cup {frames[k].len : k \in 1..Len(frames)}

Decode ==
    \/ DecodeNoHeader
    \/ \E len \in Lengths : DecodeInvalid(len) \/ DecodeHalf(len) \/ DecodeFrame(len)

Server == EpollWait \/ HandleRead \/ HandleEof \/ HandleAgain \/ Decode

Next ==
    \/ \E n \in 1..ReceiveQueue : Arrive(n)
    \/ PeerClose
    \/ Server

Spec == Init /\ [][Next]_vars

(* The server thread serves the events that epoll reports; the peer need   *)
(* not send, nor close.                                                    *)
FairSpec == Spec /\ WF_vars(Server)

-----------------------------------------------------------------------------
(* Properties *)

TypeOK ==
    /\ frames \in Streams
    /\ arrived \in Nat /\ taken \in Nat /\ taken <= arrived
    /\ eof \in BOOLEAN /\ edge \in BOOLEAN /\ open \in BOOLEAN
    /\ pc \in {"epoll", "read", "decode", "dead"}
    /\ IsBuffer(input)
    /\ delivered \in Seq(Seq(Nat))

(* What can be read from the buffer is, byte for byte, the latest part of  *)
(* what was read from the socket: neither growing the vector, nor moving   *)
(* its content, nor the split between the vector and extra_buf loses,      *)
(* repeats or reorders a byte (buffer.h:231-247, buffer.cpp:10-37).        *)
BytesInOrder ==
    pc # "dead" =>
        /\ ReadableBytes(input) <= taken
        /\ Numbered(input, Position)

(* One incomplete frame and what one readv adds, behind the front part. *)
GrownSize == kPrependSize + MaxFrameSize + HeaderSize + 3 * ExtraSize

(* The vector stays below a bound that does not depend on how much the     *)
(* peer sends: at most one incomplete frame waits while the socket is read.*)
CapacityBound ==
    input.size <= IF GrownSize < kPrependSize + kInitialSize
                  THEN kPrependSize + kInitialSize ELSE GrownSize

(* makeSpace never grows the vector past its limit. *)
WithinLimit == input.size <= kMaxBufferSize

(* The limit of makeSpace is never hit, so no exception ends the server    *)
(* thread, which has no handler for one.                                   *)
NeverThrows == pc # "dead"

Body(f) == [i \in 1 .. f.len |-> f.at + HeaderSize + i - 1]

AllValid == \A k \in 1..Len(frames) : Valid(frames[k].len)

(* From a stream of valid frames the callback gets exactly the frames the  *)
(* peer sent, whole and in order, wherever the reads cut the stream.       *)
DeliveredInOrder ==
    AllValid =>
        /\ Len(delivered) <= Len(frames)
        /\ \A k \in 1..Len(delivered) : delivered[k] = Body(frames[k])

(* Whatever the peer announces, each delivered frame is one it sent: after *)
(* an invalid length the buffer is emptied "to prevent further errors"     *)
(* (tcp_connection.cpp:149).                                               *)
OnlySentFrames ==
    \A k \in 1..Len(delivered) :
        \E j \in 1..Len(frames) : delivered[k] = Body(frames[j])

(* No complete frame waits in the buffer while the thread is in            *)
(* epoll_wait, where only further bytes would bring it out.                *)
NoFrameLeft ==
    AllValid /\ pc = "epoll" =>
        \A k \in 1..Len(frames) :
            frames[k].at >= Position => taken < End(frames[k])

(* The frames of which every byte has reached the socket. *)
ArrivedFrames == {k \in 1..Len(frames) : End(frames[k]) <= arrived}

(* The server keeps up: whenever the peer of valid frames pauses, and it   *)
(* may wait for an answer, every frame that has completely arrived gets    *)
(* delivered.                                                              *)
CatchesUp == AllValid => []<>(Len(delivered) = Cardinality(ArrivedFrames))

(* A peer's close is noticed and the connection closed. *)
CloseIsNoticed == eof ~> ~open
=============================================================================
