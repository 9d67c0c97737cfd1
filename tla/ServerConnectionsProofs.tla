----------------------- MODULE ServerConnectionsProofs -----------------------
(***************************************************************************)
(* Theorems about ServerConnections, for any number of clients, workers,   *)
(* descriptors and requests and for responses of any size.                 *)
(*                                                                         *)
(* Bounded holds whatever the clients do, and bounds the descriptors.      *)
(* Serving is about clients that wait for their answer, as RpcClient does: *)
(* then a connection that an event or a response is about is still in the  *)
(* lists, and its descriptor is its own.                                   *)
(* Anchored is about any clients again, until the first of them resets its *)
(* connection or stop() is called: what has a socket has an entry in       *)
(* RpcServer's list, so what an event names has not been destroyed.        *)
(***************************************************************************)
EXTENDS ServerConnections, FiniteSetTheorems, FunctionTheorems, SequenceTheorems, TLAPS

-----------------------------------------------------------------------------
(* Any clients *)

Handling == {"admit", "push", "callback", "erase", "close", "sysclose"}

Requests == Conns \X (1..MaxRequests)

(* The types, and the values that go with a place in the code. *)
ClientTypes ==
    /\ peer \in [Conns -> {"new", "open", "closed"}]
    /\ sent \in [Conns -> 0..MaxRequests] /\ taken \in [Conns -> 0..MaxRequests]
    /\ \A c \in Conns : taken[c] <= sent[c]
    /\ received \in [Conns -> Seq(Conns \X (1..MaxRequests) \X (1..Units))]
    /\ backlog \subseteq Conns /\ reset \subseteq Conns /\ ready \subseteq Conns

ServerTypes ==
    /\ descriptor \in [Fds -> Conns \cup {None}]
    /\ state \in [Conns -> {"NONE", "CONNECTED", "DISCONNECTING", "DISCONNECTED"}]
    /\ sockfd \in [Conns -> {0} \cup Fds]
    /\ running \in BOOLEAN /\ listening \in BOOLEAN
    /\ tcpConnections \subseteq Conns /\ rpcConnections \subseteq Conns
    /\ tasks \in Seq(Requests)
    /\ crashed \in {"no", "freed", "wild"}

EventTypes ==
    /\ epc \in {"loop", "wait", "next", "accept", "ended"} \cup Handling
    /\ batch \subseteq Conns \cup {Listener} /\ hangups \subseteq Conns
    /\ at \in Conns \cup {None} /\ closes \in 0..2
    /\ epc \in Handling => at \in Conns
    /\ epc \in {"erase", "close", "sysclose"} => closes \in 1..2

WorkerTypes ==
    /\ wpc \in [Workers -> {"idle", "handle", "load", "send", "error", "end"}]
    /\ task \in [Workers -> Requests \cup {<<None, 0>>}]
    /\ fd \in [Workers -> {0} \cup Fds] /\ done \in [Workers -> 0..Units]
    /\ \A w \in Workers : wpc[w] # "idle" => task[w] \in Requests
    /\ \A w \in Workers : wpc[w] \in {"idle", "handle", "load", "send"} => done[w] < Units

StopTypes ==
    /\ spc \in {"no", "listener", "lock", "closing", "sysclose", "epoll", "join", "stopped"}
    /\ toClose \subseteq Conns /\ closing \in Conns \cup {None}
    /\ spc = "sysclose" => closing \in Conns

Basic == ClientTypes /\ ServerTypes /\ EventTypes /\ WorkerTypes /\ StopTypes

(* While stop() holds connections_mutex_ it closes what is in the list,    *)
(* and the event thread closes what it has taken from the list.            *)
Lists ==
    /\ epc \in {"admit", "push", "close", "sysclose"} => at \notin tcpConnections
    /\ Locked => toClose \subseteq tcpConnections
    /\ spc = "sysclose" => closing \in tcpConnections \ toClose
    /\ Locked => \A c \in tcpConnections \ toClose :
          state[c] = "DISCONNECTED" \/ (spc = "sysclose" /\ c = closing)

(* A connection that no accept() has returned. *)
Unaccepted(c) == peer[c] = "new" \/ c \in backlog

Strange(c) ==
    /\ c \notin tcpConnections \cup rpcConnections \cup ready \cup batch
    /\ c # at
    /\ state[c] = "NONE" /\ ~HasSocket(c) /\ taken[c] = 0
    /\ \A i \in 1..Len(tasks) : tasks[i][1] # c
    /\ \A w \in Workers : wpc[w] # "idle" => task[w][1] # c

Strangers ==
    /\ \A c \in Conns : Unaccepted(c) => Strange(c)
    /\ \A c \in backlog : peer[c] # "new"

(* A connection knows its descriptor, and so does who is to send on it.    *)
Known ==
    /\ \A f \in Fds : descriptor[f] # None => sockfd[descriptor[f]] = f
    /\ \A w \in Workers : \A f \in Fds :
          wpc[w] = "send" /\ descriptor[f] = task[w][1] => fd[w] = f

(* As long as no client has reset its connection, those that have a        *)
(* descriptor are in the list or on the way into it or out of it.          *)
Placed ==
    reset = {} => \A c \in Conns : HasSocket(c) =>
        /\ state[c] # "DISCONNECTED"
        /\ \/ c \in tcpConnections
           \/ at = c /\ epc \in {"admit", "push", "close", "sysclose"}

(* Who is on the way has a place in the list. *)
Room ==
    /\ Cardinality(tcpConnections) <= MaxConnections
    /\ epc = "push" => Cardinality(tcpConnections) < MaxConnections
    /\ reset = {} /\ epc \in {"close", "sysclose"} /\ HasSocket(at) =>
          Cardinality(tcpConnections) < MaxConnections

Bounded == Basic /\ Lists /\ Strangers /\ Known /\ Placed /\ Room

-----------------------------------------------------------------------------
(* Clients that wait for their answer *)

Waiting == Patient = Conns /\ Outstanding = 1

Busy(w) == wpc[w] \in {"handle", "load", "send", "error"}

(* No worker has, or will have, anything to send on c. *)
Quiet(c) ==
    /\ \A i \in 1..Len(tasks) : tasks[i][1] # c
    /\ \A w \in Workers : Busy(w) => task[w][1] # c

(* The requests: one at a time, taken when the one before it is answered.  *)
Turns ==
    \A c \in Conns :
        /\ Len(received[c]) <= taken[c] * Units
        /\ taken[c] < sent[c] => sent[c] = taken[c] + 1 /\ Len(received[c]) = taken[c] * Units

Queue ==
    /\ \A i \in 1..Len(tasks) : LET c == tasks[i][1] IN
          /\ tasks[i][2] = taken[c] /\ taken[c] = sent[c]
          /\ Len(received[c]) = (taken[c] - 1) * Units
          /\ \A w \in Workers : Busy(w) => task[w][1] # c
    /\ \A i, j \in 1..Len(tasks) : tasks[i][1] = tasks[j][1] => i = j

Working ==
    /\ \A w \in Workers : Busy(w) => LET c == task[w][1] IN
          /\ task[w][2] = taken[c] /\ taken[c] = sent[c]
          /\ Len(received[c]) = (taken[c] - 1) * Units + done[w]
          /\ done[w] < Units
    /\ \A v, w \in Workers : Busy(v) /\ Busy(w) /\ task[v][1] = task[w][1] => v = w
    /\ \A w \in Workers : wpc[w] \in {"idle", "handle"} => done[w] = 0

(* The descriptor of a connection with a request is its own, until stop()  *)
(* closes it; from then on no descriptor is given out.                     *)
Own ==
    /\ reset = {} /\ hangups = {}
    /\ listening <=> spc \in {"no", "listener"}
    /\ \A c \in Conns : sockfd[c] # 0 => descriptor[sockfd[c]] = c
    /\ \A c \in Conns : ~Quiet(c) /\ ~HasSocket(c) => ~listening
    /\ \A w \in Workers : wpc[w] = "send" =>
          \/ fd[w] = sockfd[task[w][1]]
          \/ ~listening /\ (fd[w] # 0 => descriptor[fd[w]] = None)
    /\ \A w \in Workers : wpc[w] = "error" => ~HasSocket(task[w][1])

(* Who has a request that is not answered does not leave. *)
Stays ==
    \A c \in Conns : (c \in backlog \/ HasSocket(c)) /\ (taken[c] < sent[c] \/ ~Quiet(c)) =>
        peer[c] = "open"

(* There is a reason for an event, and it comes once. *)
Pending ==
    /\ \A c \in Conns : c \in ready \cup batch =>
          Quiet(c) /\ (taken[c] < sent[c] \/ peer[c] = "closed" \/ ~HasSocket(c))
    /\ ready \cap batch = {}
    /\ epc \in Handling => Quiet(at)
    /\ epc = "admit" => state[at] = "NONE" /\ taken[at] = 0 /\ at \notin ready \cup batch

(* RpcServer's list keeps what the event thread may still come to use.     *)
Kept ==
    /\ \A c \in Referenced \ tcpConnections :
          state[c] = "DISCONNECTED" \/ (at = c /\ epc \in {"push", "close", "sysclose"})
    /\ spc = "stopped" => epc = "ended"
    /\ spc # "stopped" =>
          /\ \A c \in Conns : HasSocket(c) =>
                c \in rpcConnections \/ (at = c /\ epc \in {"admit", "push", "callback"})
          /\ \A c \in Conns : c \in ready \cup batch =>
                c \in rpcConnections \/ (at = c /\ epc \in {"push", "callback"})
          /\ epc \in {"erase", "close", "sysclose"} => at \in rpcConnections

Serving ==
    Turns /\ Queue /\ Working /\ Own /\ Stays /\ Pending /\ Kept /\ AnswersIntact /\ NoUseAfterFree

Good == Basic /\ Lists /\ Strangers /\ Known /\ Serving

-----------------------------------------------------------------------------
(* Types *)

LEMMA BasicInit == Init => Basic
  <1> SUFFICES ASSUME Init PROVE Basic
    OBVIOUS
  <1>1. ClientTypes
    <2>1. /\ sent \in [Conns -> 0..MaxRequests] /\ taken \in [Conns -> 0..MaxRequests]
          /\ \A c \in Conns : taken[c] <= sent[c]
      BY ServerAssumption DEF Init
    <2>2. received \in [Conns -> Seq(Conns \X (1..MaxRequests) \X (1..Units))]
      BY EmptySeq DEF Init
    <2> QED BY <2>1, <2>2 DEF Init, ClientTypes
  <1>2. ServerTypes
    <2>1. tasks \in Seq(Requests)
      BY EmptySeq DEF Init
    <2>2. running \in BOOLEAN /\ listening \in BOOLEAN
      BY DEF Init
    <2> QED BY <2>1, <2>2 DEF Init, ServerTypes
  <1>3. EventTypes
    BY DEF Init, EventTypes, Handling
  <1>4. WorkerTypes
    BY ServerAssumption DEF Init, WorkerTypes
  <1>5. StopTypes
    BY DEF Init, StopTypes
  <1> QED BY <1>1, <1>2, <1>3, <1>4, <1>5 DEF Basic

LEMMA BasicType == Basic => TypeOK
  BY DEF Basic, TypeOK, ClientTypes, ServerTypes, EventTypes, WorkerTypes, StopTypes, Handling,
         Requests

(* What an action leaves alone keeps its type. *)
LEMMA ClientTypesAlone ==
    ASSUME Basic, UNCHANGED <<peers, taken, received, backlog, reset>>, ready' \subseteq Conns
    PROVE  ClientTypes'
  BY DEF Basic, ClientTypes, peers

LEMMA ServerTypesAlone ==
    ASSUME Basic,
           UNCHANGED <<descriptor, objects, flags, tcpConnections, rpcConnections, tasks, crashed>>
    PROVE  ServerTypes'
  BY DEF Basic, ServerTypes, objects, flags

LEMMA EventTypesAlone == Basic /\ UNCHANGED event => EventTypes'
  BY DEF Basic, EventTypes, event

LEMMA WorkerTypesAlone == Basic /\ UNCHANGED worker => WorkerTypes'
  BY DEF Basic, WorkerTypes, worker

LEMMA StopTypesAlone == Basic /\ UNCHANGED stopper => StopTypes'
  BY DEF Basic, StopTypes, stopper

LEMMA BasicClient ==
    ASSUME Basic, NEW c \in Conns, Connect(c) \/ Request(c) \/ Close(c) \/ Reset(c)
    PROVE  Basic'
  <1>1. ServerTypes' /\ EventTypes' /\ WorkerTypes' /\ StopTypes'
    BY ServerTypesAlone, EventTypesAlone, WorkerTypesAlone, StopTypesAlone
       DEF Connect, Request, Close, Reset
  <1>2. CASE Connect(c)
    <2>1. ClientTypes'
      BY <1>2 DEF Basic, ClientTypes, Connect
    <2> QED BY <1>1, <2>1 DEF Basic
  <1>3. CASE Request(c)
    <2>1. sent[c] + 1 \in 0..MaxRequests /\ taken[c] <= sent[c] + 1
      <3>1. sent[c] \in 0..MaxRequests /\ sent[c] < MaxRequests /\ taken[c] \in 0..MaxRequests
             /\ taken[c] <= sent[c]
        BY <1>3 DEF Basic, ClientTypes, Request
      <3> QED BY <3>1, ServerAssumption
    <2>2. sent' \in [Conns -> 0..MaxRequests] /\ \A d \in Conns : taken'[d] <= sent'[d]
      BY <1>3, <2>1 DEF Basic, ClientTypes, Request
    <2>3. ready' \subseteq Conns
      BY <1>3 DEF Basic, ClientTypes, Request, Edge
    <2>4. ClientTypes'
      BY <1>3, <2>2, <2>3 DEF Basic, ClientTypes, Request
    <2> QED BY <1>1, <2>4 DEF Basic
  <1>4. CASE Close(c)
    <2>1. ClientTypes'
      BY <1>4 DEF Basic, ClientTypes, Close, Edge
    <2> QED BY <1>1, <2>1 DEF Basic
  <1>5. CASE Reset(c)
    <2>1. ClientTypes'
      BY <1>5 DEF Basic, ClientTypes, Reset, Edge, peers
    <2> QED BY <1>1, <2>1 DEF Basic
  <1> QED BY <1>2, <1>3, <1>4, <1>5

LEMMA BasicLoop ==
    ASSUME Basic, LoopTest \/ EpollWait \/ EpollNothing \/ BatchDone \/ ListenEvent \/ AcceptFails
    PROVE  Basic'
  <1>1. WorkerTypes' /\ StopTypes'
    BY WorkerTypesAlone, StopTypesAlone
       DEF LoopTest, EpollWait, EpollNothing, BatchDone, ListenEvent, AcceptFails
  <1>2. ClientTypes'
    BY ClientTypesAlone DEF LoopTest, EpollWait, EpollNothing, BatchDone, ListenEvent,
       AcceptFails, kernel, Basic, ClientTypes
  <1>3. ServerTypes'
    <2>1. CASE ListenEvent
      BY <2>1 DEF ListenEvent, kernel, objects, flags, Basic, ServerTypes
    <2>2. CASE ~ListenEvent
      BY <2>2, ServerTypesAlone DEF LoopTest, EpollWait, EpollNothing, BatchDone, AcceptFails, kernel
    <2> QED BY <2>1, <2>2
  <1>4. EventTypes'
    <2>1. batch' \subseteq Conns \cup {Listener} /\ hangups' \subseteq Conns
      BY DEF LoopTest, EpollWait, EpollNothing, BatchDone, ListenEvent, AcceptFails, Ready, Basic,
             EventTypes, ClientTypes
    <2>2. /\ UNCHANGED <<at, closes>>
          /\ epc' \in {"loop", "wait", "next", "accept", "ended"} \/ epc' = epc
      BY DEF LoopTest, EpollWait, EpollNothing, BatchDone, ListenEvent, AcceptFails
    <2> QED BY <2>1, <2>2 DEF Basic, EventTypes, Handling
  <1> QED BY <1>1, <1>2, <1>3, <1>4 DEF Basic

(* The destructors close descriptors, and do nothing else. *)
LEMMA Destroys ==
    ASSUME Basic, DestroyUnreferenced
    PROVE  /\ descriptor' \in [Fds -> Conns \cup {None}] /\ ready' \subseteq ready
           /\ \A f \in Fds : descriptor'[f] # None => descriptor'[f] = descriptor[f]
           /\ \A f \in Fds : descriptor'[f] = descriptor[f] \/
                 (descriptor[f] \in Referenced \ Referenced' /\ state[descriptor[f]] # "DISCONNECTED")
           /\ \A c \in ready \ ready' :
                 c \in Referenced \ Referenced' /\ state[c] # "DISCONNECTED"
  <1> DEFINE closed == {c \in Referenced \ Referenced' : state[c] # "DISCONNECTED"}
  <1>1. /\ descriptor' = [f \in Fds |-> IF descriptor[f] \in closed THEN None ELSE descriptor[f]]
        /\ ready' = ready \ closed
    BY DEF DestroyUnreferenced
  <1>2. \A c : c \in closed <=> c \in Referenced \ Referenced' /\ state[c] # "DISCONNECTED"
    OBVIOUS
  <1> HIDE DEF closed
  <1>3. descriptor' \in [Fds -> Conns \cup {None}]
    BY <1>1 DEF Basic, ServerTypes
  <1>4. \A f \in Fds : descriptor'[f] = IF descriptor[f] \in closed THEN None ELSE descriptor[f]
    BY <1>1
  <1> QED BY <1>1, <1>2, <1>3, <1>4

(* ::close() takes one descriptor away. *)
LEMMA Closes ==
    ASSUME Basic, NEW c \in Conns, CloseSocket(c)
    PROVE  /\ descriptor' \in [Fds -> Conns \cup {None}] /\ ready' = ready \ {c}
           /\ \A f \in Fds : descriptor'[f] = IF f = sockfd[c] THEN None ELSE descriptor[f]
           /\ sockfd' \in [Conns -> {0} \cup Fds]
           /\ \A d \in Conns : sockfd'[d] = IF d = c THEN 0 ELSE sockfd[d]
           /\ state' \in [Conns -> {"NONE", "CONNECTED", "DISCONNECTING", "DISCONNECTED"}]
           /\ \A d \in Conns : state'[d] = IF d = c THEN "DISCONNECTED" ELSE state[d]
  <1>1. descriptor' = [f \in Fds |-> IF f = sockfd[c] THEN None ELSE descriptor[f]]
    BY DEF CloseSocket
  <1>2. descriptor' \in [Fds -> Conns \cup {None}]
    BY <1>1 DEF Basic, ServerTypes
  <1> QED BY <1>1, <1>2 DEF CloseSocket, Basic, ServerTypes

LEMMA BasicAccept ==
    ASSUME Basic,
           (\E c \in Conns : Accept(c)) \/ Refuse \/ Admit \/ PushConnection \/ ConnectionCallback
    PROVE  Basic'
  <1>1. WorkerTypes' /\ StopTypes'
    BY WorkerTypesAlone, StopTypesAlone
       DEF Accept, Refuse, Admit, PushConnection, ConnectionCallback
  <1>2. ASSUME NEW c \in Conns, Accept(c) PROVE Basic'
    <2>1. ClientTypes'
      BY <1>2 DEF Accept, peers, Basic, ClientTypes
    <2>2. EventTypes'
      BY <1>2 DEF Accept, Basic, EventTypes, Handling
    <2>3. PICK f \in Fds : /\ descriptor' = [descriptor EXCEPT ![f] = c]
                           /\ sockfd' = [sockfd EXCEPT ![c] = f]
      BY <1>2 DEF Accept, FreeFds
    <2>4. ServerTypes'
      BY <1>2, <2>3 DEF Accept, flags, Basic, ServerTypes
    <2> QED BY <1>1, <2>1, <2>2, <2>4 DEF Basic
  <1>3. CASE Refuse
    <2>1. ClientTypes'
      BY <1>3, ClientTypesAlone DEF Refuse, Basic, ClientTypes
    <2>2. EventTypes'
      BY <1>3 DEF Refuse, Basic, EventTypes, Handling
    <2>3. ServerTypes'
      BY <1>3 DEF Refuse, flags, Basic, ServerTypes
    <2> QED BY <1>1, <2>1, <2>2, <2>3 DEF Basic
  <1>4. CASE Admit
    <2>1. at \in Conns
      BY <1>4 DEF Admit, Basic, EventTypes, Handling
    <2>2. EventTypes'
      BY <1>4, <2>1 DEF Admit, Basic, EventTypes, Handling
    <2>3. CASE EpollOpen
      <3>1. ready' \subseteq Conns
        BY <1>4, <2>1, <2>3 DEF Admit, Basic, ClientTypes
      <3>2. ClientTypes'
        BY <1>4, <3>1, ClientTypesAlone DEF Admit
      <3>3. ServerTypes'
        BY <1>4, <2>1, <2>3 DEF Admit, flags, Basic, ServerTypes
      <3> QED BY <1>1, <2>2, <3>2, <3>3 DEF Basic
    <2>4. CASE ~EpollOpen
      <3>1. CloseSocket(at)
        BY <1>4, <2>4 DEF Admit
      <3>2. ready' \subseteq Conns
        BY <2>1, <3>1, Closes DEF Basic, ClientTypes
      <3>3. ClientTypes'
        BY <1>4, <3>2, ClientTypesAlone DEF Admit
      <3>4. ServerTypes'
        BY <1>4, <2>1, <3>1, Closes DEF Admit, flags, Basic, ServerTypes
      <3> QED BY <1>1, <2>2, <3>3, <3>4 DEF Basic
    <2> QED BY <2>3, <2>4
  <1>5. CASE PushConnection
    <2>1. ClientTypes'
      BY <1>5, ClientTypesAlone DEF PushConnection, kernel, Basic, ClientTypes
    <2>2. EventTypes'
      BY <1>5 DEF PushConnection, Basic, EventTypes, Handling
    <2>3. at \in Conns
      BY <1>5 DEF PushConnection, Basic, EventTypes, Handling
    <2>4. ServerTypes'
      BY <1>5, <2>3 DEF PushConnection, kernel, objects, flags, Basic, ServerTypes
    <2> QED BY <1>1, <2>1, <2>2, <2>4 DEF Basic
  <1>6. CASE ConnectionCallback
    <2>1. ClientTypes'
      BY <1>6, ClientTypesAlone DEF ConnectionCallback, kernel, Basic, ClientTypes
    <2>2. EventTypes'
      BY <1>6 DEF ConnectionCallback, Basic, EventTypes, Handling
    <2>3. at \in Conns
      BY <1>6 DEF ConnectionCallback, Basic, EventTypes, Handling
    <2>4. ServerTypes'
      BY <1>6, <2>3 DEF ConnectionCallback, kernel, objects, flags, Basic, ServerTypes
    <2> QED BY <1>1, <2>1, <2>2, <2>4 DEF Basic
  <1> QED BY <1>2, <1>3, <1>4, <1>5, <1>6

(* What an event submits to the pool. *)
Frames(c) == [i \in 1 .. sent[c] - taken[c] |-> <<c, taken[c] + i>>]

LEMMA FramesType ==
    ASSUME Basic, NEW c \in Conns
    PROVE  Frames(c) \in Seq(Requests)
  <1>1. /\ sent[c] \in 0..MaxRequests /\ taken[c] \in 0..MaxRequests /\ taken[c] <= sent[c]
    BY DEF Basic, ClientTypes
  <1>2. sent[c] - taken[c] \in Nat
    BY <1>1, ServerAssumption
  <1>3. \A i \in 1 .. sent[c] - taken[c] : taken[c] + i \in 1..MaxRequests
    BY <1>1, ServerAssumption
  <1>4. \A i \in 1 .. sent[c] - taken[c] : <<c, taken[c] + i>> \in Requests
    BY <1>3 DEF Requests
  <1> QED BY <1>2, <1>4 DEF Frames

(* An event either submits the frames that wait in the socket, or closes,  *)
(* or does nothing; or what it is about does not exist any more.           *)
LEMMA Events ==
    ASSUME Basic, NEW c \in Conns, ClientEvent(c)
    PROVE  \/ /\ c \notin Referenced /\ crashed' = "freed"
              /\ UNCHANGED <<tasks, taken, closes, epc>>
           \/ /\ c \in Referenced /\ crashed' = crashed
              /\ HasSocket(c) /\ taken[c] < sent[c]
              /\ tasks' = tasks \o Frames(c) /\ taken' = [taken EXCEPT ![c] = sent[c]]
              /\ closes' \in 0..1 /\ (epc' = "next" \/ (epc' = "erase" /\ closes' = 1))
           \/ /\ c \in Referenced /\ crashed' = crashed
              /\ UNCHANGED <<tasks, taken>>
              /\ closes' \in 0..2 /\ (epc' = "next" \/ (epc' = "erase" /\ closes' \in 1..2))
              /\ ~(HasSocket(c) /\ taken[c] < sent[c])
  <1> DEFINE data == HasSocket(c) /\ taken[c] < sent[c]
             over == ~data /\ (peer[c] = "closed" \/ ~HasSocket(c))
  <1>1. CASE c \notin Referenced
    BY <1>1 DEF ClientEvent
  <1>2. CASE c \in Referenced
    <2>1. /\ tasks' = IF data THEN tasks \o Frames(c) ELSE tasks
          /\ taken' = IF data THEN [taken EXCEPT ![c] = sent[c]] ELSE taken
          /\ closes' = (IF over THEN 1 ELSE 0) + (IF c \in hangups THEN 1 ELSE 0)
          /\ epc' = IF closes' > 0 THEN "erase" ELSE "next"
          /\ UNCHANGED crashed
      BY <1>2 DEF ClientEvent, Frames
    <2>2. over => ~data
      OBVIOUS
    <2> HIDE DEF data, over
    <2>3. closes' \in 0..2 /\ (data => closes' \in 0..1)
      BY <2>1, <2>2
    <2>4. epc' = "next" \/ (epc' = "erase" /\ closes' > 0)
      BY <2>1
    <2>5. CASE data
      <3>1. epc' = "next" \/ (epc' = "erase" /\ closes' = 1)
        BY <2>3, <2>4, <2>5
      <3> QED BY <1>2, <2>1, <2>3, <2>5, <3>1 DEF data
    <2>6. CASE ~data
      <3>1. epc' = "next" \/ (epc' = "erase" /\ closes' \in 1..2)
        BY <2>3, <2>4
      <3> QED BY <1>2, <2>1, <2>3, <2>6, <3>1 DEF data
    <2> QED BY <2>5, <2>6
  <1> QED BY <1>1, <1>2

LEMMA BasicEvent ==
    ASSUME Basic, NEW c \in Conns, ClientEvent(c)
    PROVE  Basic'
  <1>1. WorkerTypes' /\ StopTypes'
    BY WorkerTypesAlone, StopTypesAlone DEF ClientEvent
  <1>2. taken' \in [Conns -> 0..MaxRequests] /\ \A d \in Conns : taken'[d] <= sent[d]
    <2>1. taken' = taken \/ taken' = [taken EXCEPT ![c] = sent[c]]
      BY Events
    <2>2. sent[c] \in 0..MaxRequests /\ sent[c] <= sent[c]
      BY ServerAssumption DEF Basic, ClientTypes
    <2> QED BY <2>1, <2>2 DEF Basic, ClientTypes
  <1>3. tasks' \in Seq(Requests)
    <2>1. tasks' = tasks \/ tasks' = tasks \o Frames(c)
      BY Events
    <2>2. tasks \in Seq(Requests)
      BY DEF Basic, ServerTypes
    <2> QED BY <2>1, <2>2, FramesType, ConcatProperties
  <1>4. ClientTypes'
    BY <1>2 DEF ClientEvent, peers, Basic, ClientTypes
  <1>5. ServerTypes'
    <2>1. crashed' \in {"no", "freed", "wild"}
      BY Events DEF Basic, ServerTypes
    <2> QED BY <1>3, <2>1 DEF ClientEvent, objects, flags, Basic, ServerTypes
  <1>6. EventTypes'
    <2>1. epc = "next" /\ at' = c /\ batch' \subseteq batch /\ hangups' = hangups
      BY DEF ClientEvent
    <2>2. closes' \in 0..2 /\ (epc' = "next" \/ (epc' = "erase" /\ closes' \in 1..2))
      BY <2>1, Events DEF Basic, EventTypes
    <2> QED BY <2>1, <2>2 DEF Basic, EventTypes, Handling
  <1> QED BY <1>1, <1>4, <1>5, <1>6 DEF Basic

LEMMA CloseCalls ==
    ASSUME Basic, CloseCallDone, epc \in {"close", "sysclose"}
    PROVE  closes' \in 0..2 /\ (epc' = "next" \/ (epc' = "erase" /\ closes' \in 1..2))
  <1>1. closes \in 1..2 /\ closes' = closes - 1
    BY DEF Basic, EventTypes, CloseCallDone
  <1>2. closes = 1 \/ closes' = 1
    BY <1>1
  <1> QED BY <1>1, <1>2 DEF CloseCallDone

LEMMA BasicClosing ==
    ASSUME Basic, EraseConnection \/ CloseTest \/ CloseSys
    PROVE  Basic'
  <1>1. WorkerTypes' /\ StopTypes'
    BY WorkerTypesAlone, StopTypesAlone DEF EraseConnection, CloseTest, CloseSys
  <1>2. at \in Conns /\ at' = at
    BY DEF EraseConnection, CloseTest, CloseSys, Basic, EventTypes, Handling
  <1>3. CASE EraseConnection
    <2>1. ClientTypes'
      BY <1>3, ClientTypesAlone, Destroys DEF EraseConnection, Basic, ClientTypes
    <2>2. EventTypes'
      BY <1>3 DEF EraseConnection, Basic, EventTypes, Handling
    <2>3. ServerTypes'
      <3>1. /\ tcpConnections' \subseteq Conns /\ crashed' \in {"no", "freed", "wild"}
            /\ UNCHANGED <<state, sockfd, running, listening, rpcConnections, tasks>>
        BY <1>3 DEF EraseConnection, objects, flags, Basic, ServerTypes
      <3>2. descriptor' \in [Fds -> Conns \cup {None}]
        BY <1>3, Destroys DEF EraseConnection
      <3> QED BY <3>1, <3>2 DEF Basic, ServerTypes
    <2> QED BY <1>1, <2>1, <2>2, <2>3 DEF Basic
  <1>4. CASE CloseTest
    <2>1. ClientTypes'
      BY <1>4, ClientTypesAlone DEF CloseTest, kernel, Basic, ClientTypes
    <2>2. EventTypes'
      <3>1. /\ UNCHANGED <<batch, hangups>>
            /\ CloseCallDone \/ (closes' = closes /\ epc' \in {"close", "sysclose"})
        BY <1>4 DEF CloseTest
      <3>2. epc = "close"
        BY <1>4 DEF CloseTest
      <3>3. closes' \in 0..2 /\ (epc' \in {"erase", "close", "sysclose"} => closes' \in 1..2)
            /\ epc' \in {"next", "erase", "close", "sysclose"}
        BY <3>1, <3>2, CloseCalls DEF Basic, EventTypes
      <3> QED BY <1>2, <3>1, <3>3 DEF Basic, EventTypes, Handling
    <2>3. ServerTypes'
      BY <1>2, <1>4 DEF CloseTest, kernel, flags, Basic, ServerTypes
    <2> QED BY <1>1, <2>1, <2>2, <2>3 DEF Basic
  <1>5. CASE CloseSys
    <2>1. ClientTypes'
      BY <1>2, <1>5, ClientTypesAlone, Closes DEF CloseSys, Basic, ClientTypes
    <2>2. EventTypes'
      <3>1. closes' \in 0..2 /\ (epc' = "next" \/ (epc' = "erase" /\ closes' \in 1..2))
        BY <1>5, CloseCalls DEF CloseSys
      <3> QED BY <1>2, <1>5, <3>1 DEF CloseSys, Basic, EventTypes, Handling
    <2>3. ServerTypes'
      BY <1>2, <1>5, Closes DEF CloseSys, flags, Basic, ServerTypes
    <2> QED BY <1>1, <2>1, <2>2, <2>3 DEF Basic
  <1> QED BY <1>3, <1>4, <1>5

Pieces == Conns \X (1..MaxRequests) \X (1..Units)

(* A part of a response. *)
Piece(r, i, n) == SubSeq(Whole(r[1], r[2]), i + 1, i + n)

LEMMA PieceProperties ==
    ASSUME NEW r \in Requests, NEW i \in 0..Units, NEW n \in 1 .. Units - i
    PROVE  /\ Piece(r, i, n) \in Seq(Pieces) /\ Len(Piece(r, i, n)) = n
           /\ \A k \in 1..n : Piece(r, i, n)[k] = <<r[1], r[2], i + k>>
  <1>1. /\ i \in Nat /\ n \in Nat /\ Units \in Nat /\ i + 1 \in 1 .. Units + 1
        /\ i + n \in i .. Units /\ 1 <= i + 1 /\ i + n <= Units
    BY ServerAssumption
  <1>2. Whole(r[1], r[2]) \in Seq(Pieces) /\ Len(Whole(r[1], r[2])) = Units
    BY <1>1 DEF Whole, Pieces, Requests
  <1>3. \A k \in 1..Units : Whole(r[1], r[2])[k] = <<r[1], r[2], k>>
    BY DEF Whole
  <1> DEFINE s == Whole(r[1], r[2])
             m == i + 1
             l == i + n
  <1>4. m \in 1 .. Len(s) + 1 /\ l \in m - 1 .. Len(s)
    BY <1>1, <1>2
  <1>5. /\ SubSeq(s, m, l) \in Seq(Pieces)
        /\ Len(SubSeq(s, m, l)) = IF m <= l THEN l - m + 1 ELSE 0
        /\ \A k \in 1 .. l - m + 1 : SubSeq(s, m, l)[k] = s[m + k - 1]
    <2> HIDE DEF s, m, l
    <2> QED BY <1>2, <1>4, SubSeqProperties DEF s
  <1>6. l - m + 1 = n /\ m <= l
    BY <1>1
  <1>7. ASSUME NEW k \in 1..n PROVE Piece(r, i, n)[k] = <<r[1], r[2], i + k>>
    <2>1. m + k - 1 = i + k /\ i + k \in 1..Units
      BY <1>1
    <2> QED BY <1>3, <1>5, <1>6, <2>1 DEF Piece
  <1> QED BY <1>5, <1>6, <1>7 DEF Piece

(* What send() does: pieces of the response go to whoever is at the other  *)
(* end of the descriptor.                                                  *)
LEMMA Sends ==
    ASSUME Basic, NEW w \in Workers, NEW n, SendSome(w, n)
    PROVE  /\ task[w] \in Requests /\ Target(w) \in Conns /\ fd[w] \in Fds
           /\ descriptor[fd[w]] = Target(w)
           /\ done[w] \in 0..Units /\ n \in 1 .. Units - done[w] /\ done[w] < Units
           /\ Piece(task[w], done[w], n) \in Seq(Pieces) /\ Len(Piece(task[w], done[w], n)) = n
           /\ \A k \in 1..n : Piece(task[w], done[w], n)[k] = <<task[w][1], task[w][2], done[w] + k>>
           /\ received' = IF peer[Target(w)] = "open"
                          THEN [received EXCEPT ![Target(w)] = @ \o Piece(task[w], done[w], n)]
                          ELSE received
           /\ done' = [done EXCEPT ![w] = done[w] + n]
  <1>1. task[w] \in Requests /\ done[w] < Units /\ done[w] \in 0..Units /\ fd[w] \in {0} \cup Fds
    BY DEF SendSome, Basic, WorkerTypes
  <1>2. n \in 1 .. Units - done[w] /\ Target(w) # None
    BY DEF SendSome, Sendable
  <1>3. fd[w] \in Fds /\ descriptor[fd[w]] = Target(w)
    BY <1>2 DEF Target
  <1>4. Target(w) \in Conns
    BY <1>2, <1>3 DEF Basic, ServerTypes
  <1>5. /\ received' = IF peer[Target(w)] = "open"
                       THEN [received EXCEPT ![Target(w)] = @ \o Piece(task[w], done[w], n)]
                       ELSE received
        /\ done' = [done EXCEPT ![w] = done[w] + n]
    BY DEF SendSome, Piece
  <1>6. /\ Piece(task[w], done[w], n) \in Seq(Pieces) /\ Len(Piece(task[w], done[w], n)) = n
        /\ \A k \in 1..n : Piece(task[w], done[w], n)[k] = <<task[w][1], task[w][2], done[w] + k>>
    BY <1>1, <1>2, PieceProperties
  <1> QED BY <1>1, <1>2, <1>3, <1>4, <1>5, <1>6

LEMMA BasicWorker ==
    ASSUME Basic, NEW w \in Workers, Worker(w)
    PROVE  Basic'
  <1>1. CASE WorkerTake(w)
    <2>1. ClientTypes' /\ EventTypes' /\ StopTypes'
      BY <1>1, ClientTypesAlone, EventTypesAlone, StopTypesAlone
         DEF WorkerTake, kernel, Basic, ClientTypes
    <2>2. Head(tasks) \in Requests /\ Tail(tasks) \in Seq(Requests)
      BY <1>1, HeadTailProperties DEF WorkerTake, Basic, ServerTypes
    <2>3. ServerTypes'
      BY <1>1, <2>2 DEF WorkerTake, kernel, objects, flags, Basic, ServerTypes
    <2>4. WorkerTypes'
      BY <1>1, <2>2 DEF WorkerTake, Basic, WorkerTypes
    <2> QED BY <2>1, <2>3, <2>4 DEF Basic
  <1>2. CASE SendTest(w) \/ SendLoad(w)
    <2>1. ClientTypes' /\ ServerTypes' /\ EventTypes' /\ StopTypes'
      BY <1>2, ClientTypesAlone, ServerTypesAlone, EventTypesAlone, StopTypesAlone
         DEF SendTest, SendLoad, kernel, Basic, ClientTypes
    <2>2. SendTest(w) => WorkerTypes'
      BY DEF SendTest, Basic, WorkerTypes
    <2>3. SendLoad(w) => WorkerTypes'
      <3>1. SendLoad(w) => task[w][1] \in Conns
        BY DEF SendLoad, Basic, WorkerTypes, Requests
      <3>2. SendLoad(w) => sockfd[task[w][1]] \in {0} \cup Fds
        BY <3>1 DEF Basic, ServerTypes
      <3> QED BY <3>2 DEF SendLoad, Basic, WorkerTypes
    <2> QED BY <1>2, <2>1, <2>2, <2>3 DEF Basic
  <1>3. ASSUME NEW n \in 1..Units, SendSome(w, n) PROVE Basic'
    <2>1. ServerTypes' /\ EventTypes' /\ StopTypes'
      BY <1>3, ServerTypesAlone, EventTypesAlone, StopTypesAlone DEF SendSome
    <2>2. received' \in [Conns -> Seq(Pieces)]
      <3>1. received \in [Conns -> Seq(Pieces)]
        BY DEF Basic, ClientTypes, Pieces
      <3>2. Target(w) \in Conns /\ Piece(task[w], done[w], n) \in Seq(Pieces)
        BY <1>3, Sends
      <3> DEFINE s == received[Target(w)] \o Piece(task[w], done[w], n)
      <3>3. s \in Seq(Pieces)
        BY <3>1, <3>2, ConcatProperties
      <3>4. received' = received \/ received' = [received EXCEPT ![Target(w)] = s]
        BY <1>3, Sends
      <3> HIDE DEF s
      <3> QED BY <3>1, <3>2, <3>3, <3>4
    <2>3. ClientTypes'
      BY <1>3, <2>2 DEF SendSome, peers, Basic, ClientTypes, Pieces
    <2>4. done[w] + n \in 0..Units /\ (done[w] + n # Units => done[w] + n < Units)
      <3>1. done[w] \in 0..Units /\ n \in 1 .. Units - done[w]
        BY <1>3, Sends
      <3> QED BY <3>1, ServerAssumption
    <2>5. /\ wpc' = [wpc EXCEPT ![w] = IF done[w] + n = Units THEN "end" ELSE "load"]
          /\ done' = [done EXCEPT ![w] = done[w] + n] /\ UNCHANGED <<task, fd>>
          /\ wpc[w] = "send"
      BY <1>3 DEF SendSome
    <2>6. WorkerTypes'
      BY <2>4, <2>5 DEF Basic, WorkerTypes
    <2> QED BY <2>1, <2>3, <2>6 DEF Basic
  <1>4. CASE SendFails(w)
    <2>1. ClientTypes' /\ EventTypes' /\ StopTypes'
      BY <1>4, ClientTypesAlone, EventTypesAlone, StopTypesAlone
         DEF SendFails, kernel, Basic, ClientTypes
    <2>2. ServerTypes'
      BY <1>4 DEF SendFails, kernel, flags, Basic, ServerTypes
    <2>3. WorkerTypes'
      BY <1>4 DEF SendFails, Basic, WorkerTypes
    <2> QED BY <2>1, <2>2, <2>3 DEF Basic
  <1>5. CASE ErrorCallback(w)
    <2>1. ClientTypes' /\ EventTypes' /\ StopTypes'
      BY <1>5, ClientTypesAlone, EventTypesAlone, StopTypesAlone
         DEF ErrorCallback, kernel, Basic, ClientTypes
    <2>2. ServerTypes'
      BY <1>5 DEF ErrorCallback, kernel, objects, flags, Basic, ServerTypes
    <2>3. WorkerTypes'
      BY <1>5 DEF ErrorCallback, Basic, WorkerTypes
    <2> QED BY <2>1, <2>2, <2>3 DEF Basic
  <1>6. CASE WorkerEnd(w)
    <2>1. ClientTypes' /\ EventTypes' /\ StopTypes'
      BY <1>6, ClientTypesAlone, EventTypesAlone, StopTypesAlone, Destroys
         DEF WorkerEnd, Basic, ClientTypes
    <2>2. ServerTypes'
      BY <1>6, Destroys DEF WorkerEnd, objects, flags, Basic, ServerTypes
    <2>3. WorkerTypes'
      BY <1>6, ServerAssumption DEF WorkerEnd, Basic, WorkerTypes
    <2> QED BY <2>1, <2>2, <2>3 DEF Basic
  <1> QED BY <1>1, <1>2, <1>3, <1>4, <1>5, <1>6 DEF Worker

LEMMA BasicStop ==
    ASSUME Basic, StopBegin \/ Stopping
    PROVE  Basic'
  <1>1. WorkerTypes' /\ EventTypes'
    BY WorkerTypesAlone, EventTypesAlone DEF StopBegin, Stopping, StopListening, StopLock,
       StopCloseSys, StopClear, StopEpoll, StopJoin, StopCloseTest
  <1>2. CASE StopBegin
    BY <1>1, <1>2, ClientTypesAlone DEF StopBegin, kernel, objects, Basic, ClientTypes, ServerTypes,
       StopTypes
  <1>3. CASE StopListening
    <2>1. ClientTypes'
      BY <1>3 DEF StopListening, peers, Basic, ClientTypes
    <2>2. ServerTypes' /\ StopTypes'
      BY <1>3 DEF StopListening, objects, Basic, ServerTypes, StopTypes
    <2> QED BY <1>1, <2>1, <2>2 DEF Basic
  <1>4. CASE StopLock
    <2>1. ClientTypes' /\ ServerTypes'
      BY <1>4, ClientTypesAlone, ServerTypesAlone DEF StopLock, kernel, Basic, ClientTypes
    <2>2. StopTypes'
      BY <1>4 DEF StopLock, Basic, ServerTypes, StopTypes
    <2> QED BY <1>1, <2>1, <2>2 DEF Basic
  <1>5. ASSUME NEW c \in Conns, StopCloseTest(c) PROVE Basic'
    <2>1. ClientTypes'
      BY <1>5, ClientTypesAlone DEF StopCloseTest, kernel, Basic, ClientTypes
    <2>2. ServerTypes'
      BY <1>5 DEF StopCloseTest, kernel, flags, Basic, ServerTypes
    <2>3. StopTypes'
      BY <1>5 DEF StopCloseTest, Basic, StopTypes
    <2> QED BY <1>1, <2>1, <2>2, <2>3 DEF Basic
  <1>6. CASE StopCloseSys
    <2>1. closing \in Conns
      BY <1>6 DEF StopCloseSys, Basic, StopTypes
    <2>2. ClientTypes'
      BY <1>6, <2>1, ClientTypesAlone, Closes DEF StopCloseSys, Basic, ClientTypes
    <2>3. ServerTypes'
      BY <1>6, <2>1, Closes DEF StopCloseSys, flags, Basic, ServerTypes
    <2>4. StopTypes'
      BY <1>6 DEF StopCloseSys, Basic, StopTypes
    <2> QED BY <1>1, <2>2, <2>3, <2>4 DEF Basic
  <1>7. CASE StopClear \/ StopJoin
    <2>1. ClientTypes'
      BY <1>7, ClientTypesAlone, Destroys DEF StopClear, StopJoin, Basic, ClientTypes
    <2>2. ServerTypes'
      BY <1>7, Destroys DEF StopClear, StopJoin, objects, flags, Basic, ServerTypes
    <2>3. StopTypes'
      BY <1>7 DEF StopClear, StopJoin, Basic, StopTypes
    <2> QED BY <1>1, <2>1, <2>2, <2>3 DEF Basic
  <1>8. CASE StopEpoll
    <2>1. ClientTypes' /\ ServerTypes'
      BY <1>8, ClientTypesAlone, ServerTypesAlone DEF StopEpoll, kernel, Basic, ClientTypes
    <2>2. StopTypes'
      BY <1>8 DEF StopEpoll, Basic, StopTypes
    <2> QED BY <1>1, <2>1, <2>2 DEF Basic
  <1> QED BY <1>2, <1>3, <1>4, <1>5, <1>6, <1>7, <1>8 DEF Stopping

LEMMA BasicStep == Basic /\ [Next]_vars => Basic'
  <1> SUFFICES ASSUME Basic, [Next]_vars PROVE Basic'
    OBVIOUS
  <1>1. EventThread => Basic'
    BY BasicLoop, BasicAccept, BasicEvent, BasicClosing DEF EventThread
  <1>2. UNCHANGED vars => Basic'
    BY ClientTypesAlone, ServerTypesAlone, EventTypesAlone, WorkerTypesAlone, StopTypesAlone
       DEF vars, kernel, Basic, ClientTypes
  <1> QED BY <1>1, <1>2, BasicClient, BasicWorker, BasicStop DEF Next, Server

(* Every variable has the values that the code gives it, whatever clients  *)
(* do: with the fields that belong to a place in the code (the connection  *)
(* in hand, the calls of handleClientClose that are left, the part of a    *)
(* response that is still to be sent).                                     *)
THEOREM ServerConnectionsType == Spec => []TypeOK
  BY BasicInit, BasicStep, BasicType, PTL DEF Spec

-----------------------------------------------------------------------------
(* The lists *)

LEMMA ListsInit == Init => Lists /\ Strangers
  <1> SUFFICES ASSUME Init PROVE Lists /\ Strangers
    OBVIOUS
  <1>1. Lists
    BY DEF Init, Lists, Locked
  <1>2. \A c \in Conns : ~HasSocket(c)
    BY ServerAssumption DEF Init, HasSocket
  <1>3. Len(tasks) = 0
    BY DEF Init
  <1>4. ASSUME NEW c \in Conns PROVE Strange(c)
    <2>1. /\ c \notin tcpConnections \cup rpcConnections \cup ready \cup batch
          /\ state[c] = "NONE" /\ taken[c] = 0
          /\ \A w \in Workers : wpc[w] # "idle" => task[w][1] # c
      BY DEF Init
    <2>2. c # at
      BY ServerAssumption DEF Init
    <2>3. \A i \in 1..Len(tasks) : tasks[i][1] # c
      BY <1>3
    <2> QED BY <1>2, <2>1, <2>2, <2>3 DEF Strange
  <1> QED BY <1>1, <1>4 DEF Init, Strangers

LEMMA ListsAlone ==
    ASSUME Lists, UNCHANGED <<epc, at, tcpConnections, stopper>>,
           \A c \in tcpConnections : state'[c] = state[c] \/ state'[c] = "DISCONNECTED"
    PROVE  Lists'
  <1>1. Locked' = Locked
    BY DEF Locked, stopper
  <1> QED BY <1>1 DEF Lists, stopper

LEMMA ListsStep ==
    ASSUME Basic, Lists, Strangers, [Next]_vars
    PROVE  Lists'
  <1>1. ASSUME NEW c \in Conns, Connect(c) \/ Request(c) \/ Close(c) \/ Reset(c)
        PROVE  Lists'
    BY <1>1, ListsAlone DEF Connect, Request, Close, Reset, event, objects
  <1>2. ASSUME NEW w \in Workers, Worker(w)
        PROVE  Lists'
    <2>1. UNCHANGED <<epc, at, tcpConnections, stopper>>
      BY <1>2 DEF Worker, WorkerTake, SendTest, SendLoad, SendSome, SendFails, ErrorCallback,
         WorkerEnd, event
    <2>2. \A c \in Conns : state'[c] = state[c] \/ state'[c] = "DISCONNECTED"
      <3>1. state' = state \/ state' = [state EXCEPT ![task[w][1]] = "DISCONNECTED"]
        BY <1>2 DEF Worker, WorkerTake, SendTest, SendLoad, SendSome, SendFails, ErrorCallback,
           WorkerEnd, objects
      <3> QED BY <3>1 DEF Basic, ServerTypes
    <2>3. tcpConnections \subseteq Conns
      BY DEF Basic, ServerTypes
    <2> QED BY <2>1, <2>2, <2>3, ListsAlone
  <1>3. CASE LoopTest \/ EpollWait \/ EpollNothing \/ BatchDone \/ ListenEvent \/ AcceptFails
    <2>1. /\ UNCHANGED <<at, tcpConnections, stopper, state>>
          /\ epc' \in {"loop", "wait", "next", "accept", "ended"}
      BY <1>3 DEF LoopTest, EpollWait, EpollNothing, BatchDone, ListenEvent, AcceptFails, objects
    <2>2. Locked' = Locked
      BY <2>1 DEF Locked, stopper
    <2> QED BY <2>1, <2>2 DEF Lists, stopper
  <1>4. ASSUME NEW c \in Conns, Accept(c)
        PROVE  Lists'
    <2>1. c \notin tcpConnections
      BY <1>4 DEF Accept, Strangers, Unaccepted, Strange
    <2>2. /\ UNCHANGED <<tcpConnections, stopper, state>> /\ at' = c
      BY <1>4 DEF Accept
    <2>3. Locked' = Locked
      BY <2>2 DEF Locked, stopper
    <2> QED BY <2>1, <2>2, <2>3 DEF Lists, stopper
  <1>5. CASE Refuse \/ Admit \/ PushConnection \/ EraseConnection
    <2>1. ~Locked /\ UNCHANGED stopper
      BY <1>5 DEF Refuse, Admit, PushConnection, EraseConnection
    <2>2. ~Locked'
      BY <2>1 DEF Locked, stopper
    <2>3. spc' # "sysclose"
      BY <2>2 DEF Locked
    <2>4. epc' \in {"admit", "push", "close", "sysclose"} => at' \notin tcpConnections'
      <3>1. CASE Refuse \/ PushConnection
        BY <3>1 DEF Refuse, PushConnection
      <3>2. CASE Admit
        BY <3>2 DEF Admit, Lists
      <3>3. CASE EraseConnection
        BY <3>3 DEF EraseConnection
      <3> QED BY <1>5, <3>1, <3>2, <3>3
    <2> QED BY <2>2, <2>3, <2>4 DEF Lists
  <1>6. CASE ConnectionCallback
    <2>1. UNCHANGED <<tcpConnections, stopper, state>> /\ epc' = "next"
      BY <1>6 DEF ConnectionCallback, objects
    <2>2. Locked' = Locked
      BY <2>1 DEF Locked, stopper
    <2> QED BY <2>1, <2>2 DEF Lists, stopper
  <1>7. ASSUME NEW c \in Conns, ClientEvent(c)
        PROVE  Lists'
    <2>1. UNCHANGED <<tcpConnections, stopper, state>> /\ epc' \in {"next", "erase"}
      BY <1>7, Events DEF ClientEvent, objects
    <2>2. Locked' = Locked
      BY <2>1 DEF Locked, stopper
    <2> QED BY <2>1, <2>2 DEF Lists, stopper
  <1>8. CASE CloseTest \/ CloseSys
    <2>1. /\ UNCHANGED <<tcpConnections, stopper, at>> /\ at \in Conns
          /\ epc \in {"close", "sysclose"} /\ at \notin tcpConnections
      BY <1>8 DEF CloseTest, CloseSys, Basic, EventTypes, Handling, Lists
    <2>2. \A c \in tcpConnections : state'[c] = state[c]
      <3>1. CloseTest => state' = state \/ state' = [state EXCEPT ![at] = "DISCONNECTING"]
        BY DEF CloseTest
      <3>2. CloseSys => state' = [state EXCEPT ![at] = "DISCONNECTED"]
        BY DEF CloseSys, CloseSocket
      <3> QED BY <1>8, <2>1, <3>1, <3>2 DEF Basic, ServerTypes
    <2>3. Locked' = Locked
      BY <2>1 DEF Locked, stopper
    <2> QED BY <2>1, <2>2, <2>3 DEF Lists, stopper
  <1>9. CASE StopBegin \/ StopListening \/ StopClear \/ StopEpoll \/ StopJoin
    <2>1. /\ UNCHANGED <<epc, at>> /\ tcpConnections' \subseteq tcpConnections
          /\ spc' \in {"listener", "lock", "epoll", "join", "stopped"}
      BY <1>9 DEF StopBegin, StopListening, StopClear, StopEpoll, StopJoin, event
    <2> QED BY <2>1 DEF Lists, Locked
  <1>10. CASE StopLock
    <2>1. /\ UNCHANGED <<epc, at, tcpConnections, state>> /\ toClose' = tcpConnections
          /\ spc' = "closing"
      BY <1>10 DEF StopLock, event, objects
    <2> QED BY <2>1 DEF Lists, Locked
  <1>11. ASSUME NEW c \in Conns, StopCloseTest(c)
         PROVE  Lists'
    <2>1. /\ UNCHANGED <<epc, at, tcpConnections>> /\ c \in toClose /\ toClose' = toClose \ {c}
          /\ spc = "closing"
      BY <1>11 DEF StopCloseTest, event
    <2>2. CASE state[c] = "DISCONNECTED"
      <3>1. UNCHANGED <<state, spc>>
        BY <1>11, <2>2 DEF StopCloseTest
      <3> QED BY <2>1, <2>2, <3>1 DEF Lists, Locked
    <2>3. CASE state[c] # "DISCONNECTED"
      <3>1. state' = [state EXCEPT ![c] = "DISCONNECTING"] /\ closing' = c /\ spc' = "sysclose"
        BY <1>11, <2>3 DEF StopCloseTest
      <3>2. \A d \in tcpConnections : d # c => state'[d] = state[d]
        BY <3>1 DEF Basic, ServerTypes
      <3> QED BY <2>1, <3>1, <3>2 DEF Lists, Locked
    <2> QED BY <2>2, <2>3
  <1>12. CASE StopCloseSys
    <2>1. /\ UNCHANGED <<epc, at, tcpConnections, toClose>> /\ spc = "sysclose" /\ spc' = "closing"
          /\ CloseSocket(closing) /\ closing \in Conns
      BY <1>12 DEF StopCloseSys, event, Basic, StopTypes
    <2>2. \A d \in Conns : state'[d] = IF d = closing THEN "DISCONNECTED" ELSE state[d]
      BY <2>1, Closes
    <2>3. tcpConnections \subseteq Conns
      BY DEF Basic, ServerTypes
    <2> QED BY <2>1, <2>2, <2>3 DEF Lists, Locked
  <1>13. CASE UNCHANGED vars
    BY <1>13, ListsAlone DEF vars, event, objects
  <1> QED BY <1>1, <1>2, <1>3, <1>4, <1>5, <1>6, <1>7, <1>8, <1>9, <1>10, <1>11, <1>12, <1>13
          DEF Next, Server, EventThread, Stopping

(* What keeps a stranger one: nobody comes to hold it. *)
LEMMA StrangeAlone ==
    ASSUME NEW c \in Conns, Strange(c),
           c \notin tcpConnections' \cup rpcConnections' \cup ready' \cup batch',
           c # at', state'[c] = state[c], taken'[c] = taken[c],
           \A f \in Fds : descriptor'[f] = c => descriptor[f] = c,
           UNCHANGED tasks,
           \A w \in Workers : wpc'[w] # "idle" => wpc[w] # "idle" /\ task'[w] = task[w]
    PROVE  Strange(c)'
  BY DEF Strange, HasSocket

LEMMA StrangersClient ==
    ASSUME Basic, Strangers, NEW d \in Conns, Connect(d) \/ Request(d) \/ Close(d) \/ Reset(d)
    PROVE  Strangers'
  <1>1. /\ \A c \in Conns : Unaccepted(c)' => Unaccepted(c)
        /\ \A c \in backlog' : peer'[c] # "new"
    BY DEF Connect, Request, Close, Reset, Basic, ClientTypes, Strangers, Unaccepted
  <1>2. ASSUME NEW c \in Conns, Strange(c) PROVE Strange(c)'
    <2>1. ready' = ready \/ (ready' = ready \cup {d} /\ state[d] # "NONE")
      BY DEF Connect, Request, Close, Reset, Edge
    <2>2. c \notin ready'
      BY <1>2, <2>1 DEF Strange
    <2>3. UNCHANGED <<tcpConnections, rpcConnections, batch, at, state, taken, descriptor, tasks,
                      wpc, task>>
      BY DEF Connect, Request, Close, Reset, objects, event, worker
    <2> QED BY <1>2, <2>2, <2>3, StrangeAlone DEF Strange
  <1> QED BY <1>1, <1>2 DEF Strangers

(* The server's threads take from the backlog and add nothing to it. *)
LEMMA StrangersServer ==
    ASSUME Basic, Strangers, UNCHANGED peer, backlog' \subseteq backlog,
           \A c \in Conns : Unaccepted(c)' /\ Strange(c) => Strange(c)'
    PROVE  Strangers'
  BY DEF Strangers, Unaccepted

LEMMA StrangersWorker ==
    ASSUME Basic, Strangers, NEW w \in Workers, Worker(w)
    PROVE  Strangers'
  <1>1. UNCHANGED <<peer, backlog, taken, tcpConnections, batch, at>>
    BY DEF Worker, WorkerTake, SendTest, SendLoad, SendSome, SendFails, ErrorCallback,
       WorkerEnd, kernel, event, peers
  <1>2. ASSUME NEW c \in Conns, Strange(c) PROVE Strange(c)'
    <2>1. CASE WorkerTake(w)
      <3>1. tasks \in Seq(Requests) /\ tasks # <<>> /\ tasks' = Tail(tasks)
        BY <2>1 DEF WorkerTake, Basic, ServerTypes
      <3>2. /\ Len(tasks') = Len(tasks) - 1 /\ Len(tasks) \in Nat /\ Len(tasks) >= 1
            /\ \A i \in 1..Len(tasks') : tasks'[i] = tasks[i + 1]
            /\ Head(tasks) = tasks[1]
        BY <3>1, HeadTailProperties
      <3>3. \A i \in 1..Len(tasks') : i + 1 \in 1..Len(tasks)
        BY <3>2
      <3>4. \A i \in 1..Len(tasks') : tasks'[i][1] # c
        BY <1>2, <3>2, <3>3 DEF Strange
      <3>5. Head(tasks)[1] # c
        BY <1>2, <3>2 DEF Strange
      <3>6. \A v \in Workers : wpc'[v] # "idle" => task'[v][1] # c
        <4>1. \A v \in Workers : /\ task'[v] = IF v = w THEN Head(tasks) ELSE task[v]
                                 /\ v # w => wpc'[v] = wpc[v]
          BY <2>1 DEF WorkerTake, Basic, WorkerTypes
        <4> QED BY <1>2, <3>5, <4>1 DEF Strange
      <3>7. UNCHANGED <<rpcConnections, ready, state, descriptor>>
        BY <2>1 DEF WorkerTake, kernel, objects
      <3> QED BY <1>1, <1>2, <3>4, <3>6, <3>7 DEF Strange, HasSocket
    <2>2. CASE SendTest(w) \/ SendLoad(w) \/ (\E n \in 1..Units : SendSome(w, n))
      <3>1. UNCHANGED <<rpcConnections, ready, state, descriptor, tasks, task>>
        BY <2>2 DEF SendTest, SendLoad, SendSome, kernel, objects
      <3>2. \A v \in Workers : wpc'[v] # "idle" => wpc[v] # "idle"
        BY <2>2 DEF SendTest, SendLoad, SendSome, Basic, WorkerTypes
      <3> QED BY <1>1, <1>2, <3>1, <3>2, StrangeAlone DEF Strange
    <2>3. CASE SendFails(w) \/ ErrorCallback(w)
      <3>1. /\ UNCHANGED <<ready, descriptor, tasks, task>>
            /\ rpcConnections' \subseteq rpcConnections
            /\ state' = state \/ state' = [state EXCEPT ![task[w][1]] = "DISCONNECTED"]
        BY <2>3 DEF SendFails, ErrorCallback, kernel, objects
      <3>2. task[w][1] # c
        BY <1>2, <2>3 DEF SendFails, ErrorCallback, Strange
      <3>3. state'[c] = state[c]
        BY <3>1, <3>2 DEF Basic, ServerTypes
      <3>4. \A v \in Workers : wpc'[v] # "idle" => wpc[v] # "idle"
        BY <2>3 DEF SendFails, ErrorCallback, Basic, WorkerTypes
      <3> QED BY <1>1, <1>2, <3>1, <3>3, <3>4, StrangeAlone DEF Strange
    <2>4. CASE WorkerEnd(w)
      <3>1. UNCHANGED <<rpcConnections, state, tasks>> /\ DestroyUnreferenced
        BY <2>4 DEF WorkerEnd, objects
      <3>2. c \notin ready' /\ \A f \in Fds : descriptor'[f] = c => descriptor[f] = c
        BY <1>2, <3>1, Destroys, ServerAssumption DEF Strange
      <3>3. \A v \in Workers : wpc'[v] # "idle" => wpc[v] # "idle" /\ task'[v] = task[v]
        BY <2>4 DEF WorkerEnd, Basic, WorkerTypes
      <3> QED BY <1>1, <1>2, <3>1, <3>2, <3>3, StrangeAlone DEF Strange
    <2> QED BY <2>1, <2>2, <2>3, <2>4 DEF Worker
  <1> QED BY <1>1, <1>2, StrangersServer

LEMMA StrangersEvent ==
    ASSUME Basic, Strangers, EventThread
    PROVE  Strangers'
  <1>1. UNCHANGED <<peer, wpc, task>> /\ backlog' \subseteq backlog
    BY DEF EventThread, LoopTest, EpollWait, EpollNothing, BatchDone, ListenEvent, AcceptFails,
       Refuse, Admit, PushConnection, ConnectionCallback, EraseConnection, CloseTest, CloseSys,
       Accept, ClientEvent, peers, kernel, worker
  <1>2. ASSUME NEW c \in Conns, Unaccepted(c)', Strange(c) PROVE Strange(c)'
    <2>1. CASE LoopTest \/ EpollWait \/ EpollNothing \/ BatchDone \/ ListenEvent \/ AcceptFails
      <3>1. /\ UNCHANGED <<tcpConnections, rpcConnections, at, state, taken, descriptor, tasks>>
            /\ ready' \subseteq ready /\ batch' \subseteq batch \cup ready \cup {Listener}
        BY <2>1 DEF LoopTest, EpollWait, EpollNothing, BatchDone, ListenEvent, AcceptFails, Ready,
           kernel, objects
      <3>2. c # Listener
        BY ServerAssumption
      <3> QED BY <1>1, <1>2, <3>1, <3>2, StrangeAlone DEF Strange
    <2>2. ASSUME NEW d \in Conns, Accept(d) PROVE Strange(c)'
      <3>1. d # c
        BY <1>2, <2>2 DEF Accept, Unaccepted, Strangers, peers
      <3>2. \E f \in Fds : descriptor' = [descriptor EXCEPT ![f] = d]
        BY <2>2 DEF Accept, FreeFds
      <3>3. \A f \in Fds : descriptor'[f] = c => descriptor[f] = c
        BY <3>1, <3>2 DEF Basic, ServerTypes
      <3>4. UNCHANGED <<tcpConnections, rpcConnections, ready, batch, state, taken, tasks>>
            /\ at' = d
        BY <2>2 DEF Accept
      <3> QED BY <1>1, <1>2, <3>1, <3>3, <3>4, StrangeAlone DEF Strange
    <2>3. CASE Refuse \/ PushConnection \/ ConnectionCallback
      <3>1. /\ UNCHANGED <<at, state, taken, ready, batch, tasks>>
            /\ tcpConnections' \subseteq tcpConnections \cup {at}
            /\ rpcConnections' \subseteq rpcConnections \cup {at}
            /\ descriptor' = descriptor \/ descriptor' = [descriptor EXCEPT ![sockfd[at]] = None]
        BY <2>3 DEF Refuse, PushConnection, ConnectionCallback, kernel, objects
      <3>2. \A f \in Fds : descriptor'[f] = c => descriptor[f] = c
        BY <3>1, ServerAssumption DEF Basic, ServerTypes
      <3> QED BY <1>1, <1>2, <3>1, <3>2, StrangeAlone DEF Strange
    <2>4. CASE Admit \/ CloseTest \/ CloseSys
      <3>1. /\ UNCHANGED <<at, taken, batch, tasks, tcpConnections, rpcConnections>>
            /\ at \in Conns
        BY <2>4 DEF Admit, CloseTest, CloseSys, kernel, Basic, EventTypes, Handling
      <3>2. /\ c \notin ready' /\ state'[c] = state[c]
            /\ \A f \in Fds : descriptor'[f] = c => descriptor[f] = c
        <4>1. at # c
          BY <1>2 DEF Strange
        <4>2. CASE CloseSocket(at)
          BY <1>2, <3>1, <4>1, <4>2, Closes, ServerAssumption DEF Strange
        <4>3. CASE ~CloseSocket(at)
          <5>1. /\ ready' \subseteq ready \cup {at} /\ UNCHANGED descriptor
                /\ state' = state \/ \E s : state' = [state EXCEPT ![at] = s]
            BY <2>4, <4>3 DEF Admit, CloseTest, CloseSys, kernel
          <5> QED BY <1>2, <4>1, <5>1 DEF Strange, Basic, ServerTypes
        <4> QED BY <4>2, <4>3
      <3> QED BY <1>1, <1>2, <3>1, <3>2, StrangeAlone DEF Strange
    <2>5. ASSUME NEW d \in Conns, ClientEvent(d) PROVE Strange(c)'
      <3>1. /\ UNCHANGED <<tcpConnections, rpcConnections, ready, state, descriptor>>
            /\ at' = d /\ d \in batch /\ batch' \subseteq batch
        BY <2>5 DEF ClientEvent, objects
      <3>2. c # d
        BY <1>2, <3>1 DEF Strange
      <3>3. taken'[c] = taken[c]
        BY <2>5, <3>2, Events DEF Basic, ClientTypes
      <3>4. tasks' = tasks \/ tasks' = tasks \o Frames(d)
        BY <2>5, Events
      <3>5. ASSUME tasks' = tasks \o Frames(d), NEW i \in 1..Len(tasks')
            PROVE  tasks'[i][1] # c
        <4>1. tasks \in Seq(Requests) /\ Frames(d) \in Seq(Requests)
          BY FramesType DEF Basic, ServerTypes
        <4>2. \A j \in 1..Len(Frames(d)) : Frames(d)[j][1] = d
          <5>1. /\ sent[d] \in 0..MaxRequests /\ taken[d] \in 0..MaxRequests /\ taken[d] <= sent[d]
            BY DEF Basic, ClientTypes
          <5>2. sent[d] - taken[d] \in Nat
            BY <5>1, ServerAssumption
          <5> QED BY <5>2 DEF Frames
        <4>3. Len(tasks) \in Nat /\ Len(Frames(d)) \in Nat
          BY <4>1, LenProperties
        <4>4. CASE i <= Len(tasks)
          BY <1>2, <3>5, <4>1, <4>3, <4>4, ConcatProperties DEF Strange
        <4>5. CASE i > Len(tasks)
          <5>1. i - Len(tasks) \in 1..Len(Frames(d)) /\ tasks'[i] = Frames(d)[i - Len(tasks)]
            BY <3>5, <4>1, <4>3, <4>5, ConcatProperties
          <5> QED BY <3>2, <4>2, <5>1
        <4>6. Len(tasks') \in Nat
          BY <3>5, <4>1, <4>3, ConcatProperties
        <4> QED BY <4>3, <4>4, <4>5, <4>6
      <3>6. \A i \in 1..Len(tasks') : tasks'[i][1] # c
        BY <1>2, <3>4, <3>5 DEF Strange
      <3> QED BY <1>1, <1>2, <3>1, <3>2, <3>3, <3>6 DEF Strange, HasSocket
    <2>6. CASE EraseConnection
      <3>1. /\ UNCHANGED <<at, taken, batch, state, tasks, rpcConnections>> /\ DestroyUnreferenced
            /\ tcpConnections' \subseteq tcpConnections
        BY <2>6 DEF EraseConnection, objects
      <3>2. c \notin ready' /\ \A f \in Fds : descriptor'[f] = c => descriptor[f] = c
        BY <1>2, <3>1, Destroys, ServerAssumption DEF Strange
      <3> QED BY <1>1, <1>2, <3>1, <3>2, StrangeAlone DEF Strange
    <2> QED BY <2>1, <2>2, <2>3, <2>4, <2>5, <2>6 DEF EventThread
  <1> QED BY <1>1, <1>2, StrangersServer

LEMMA StrangersStop ==
    ASSUME Basic, Lists, Strangers, StopBegin \/ Stopping
    PROVE  Strangers'
  <1>1. UNCHANGED <<peer, wpc, task, at, batch, tasks, taken>> /\ backlog' \subseteq backlog
    BY DEF StopBegin, Stopping, StopListening, StopLock, StopCloseSys, StopClear, StopEpoll,
       StopJoin, StopCloseTest, peers, kernel, worker, event
  <1>2. /\ tcpConnections' \subseteq tcpConnections /\ rpcConnections' \subseteq rpcConnections
    BY DEF StopBegin, Stopping, StopListening, StopLock, StopCloseSys, StopClear, StopEpoll,
       StopJoin, StopCloseTest
  <1>3. ASSUME NEW c \in Conns, Strange(c) PROVE Strange(c)'
    <2>1. /\ c \notin ready' /\ state'[c] = state[c]
          /\ \A f \in Fds : descriptor'[f] = c => descriptor[f] = c
      <3>1. CASE StopBegin \/ StopListening \/ StopLock \/ StopEpoll
        BY <1>3, <3>1 DEF StopBegin, StopListening, StopLock, StopEpoll, kernel, objects, Strange
      <3>2. ASSUME NEW d \in Conns, StopCloseTest(d)
            PROVE  UNCHANGED <<ready, descriptor>> /\ state'[c] = state[c]
        <4>1. d # c
          BY <1>3, <3>2 DEF StopCloseTest, Lists, Locked, Strange
        <4>2. UNCHANGED <<ready, descriptor>>
              /\ (state' = state \/ state' = [state EXCEPT ![d] = "DISCONNECTING"])
          BY <3>2 DEF StopCloseTest, kernel
        <4> QED BY <4>1, <4>2 DEF Basic, ServerTypes
      <3>3. CASE StopCloseSys
        <4>1. closing # c /\ closing \in Conns /\ CloseSocket(closing)
          BY <1>3, <3>3 DEF StopCloseSys, Lists, Strange, Basic, StopTypes
        <4> QED BY <1>3, <4>1, Closes, ServerAssumption DEF Strange
      <3>4. CASE StopClear \/ StopJoin
        BY <1>3, <3>4, Destroys, ServerAssumption DEF StopClear, StopJoin, objects, Strange
      <3> QED BY <1>3, <3>1, <3>2, <3>3, <3>4 DEF Stopping, Strange
    <2> QED BY <1>1, <1>2, <1>3, <2>1, StrangeAlone DEF Strange
  <1> QED BY <1>1, <1>3, StrangersServer

LEMMA StrangersStep ==
    ASSUME Basic, Lists, Strangers, [Next]_vars
    PROVE  Strangers'
  <1>1. UNCHANGED vars => Strangers'
    BY DEF vars, peers, kernel, objects, event, worker, Strangers, Unaccepted, Strange, HasSocket
  <1> QED BY <1>1, StrangersClient, StrangersWorker, StrangersEvent, StrangersStop
          DEF Next, Server

(* No two threads are between the test of state_ and the ::close of one    *)
(* connection: what handleClientClose closes is out of the list, and what  *)
(* stop() closes is in it.                                                 *)
THEOREM ServerConnectionsClosedByOne == Spec => []ClosedByOne
  <1>1. Init => Basic /\ Lists /\ Strangers
    BY BasicInit, ListsInit
  <1>2. Basic /\ Lists /\ Strangers /\ [Next]_vars => (Basic /\ Lists /\ Strangers)'
    BY BasicStep, ListsStep, StrangersStep
  <1>3. Lists => ClosedByOne
    BY DEF Lists, ClosedByOne
  <1> QED BY <1>1, <1>2, <1>3, PTL DEF Spec

-----------------------------------------------------------------------------
(* Descriptors *)

LEMMA SocketsInit == Init => Known /\ Placed /\ Room
  <1> SUFFICES ASSUME Init PROVE Known /\ Placed /\ Room
    OBVIOUS
  <1>1. \A f \in Fds : descriptor[f] = None
    BY DEF Init
  <1>2. \A w \in Workers : wpc[w] = "idle"
    BY DEF Init
  <1>3. Known
    BY <1>1, <1>2 DEF Known
  <1>4. Placed
    BY <1>1, ServerAssumption DEF Placed, HasSocket
  <1>5. Room
    <2>1. Cardinality(tcpConnections) = 0 /\ epc = "loop"
      BY FS_EmptySet DEF Init
    <2> QED BY <2>1, ServerAssumption DEF Room
  <1> QED BY <1>3, <1>4, <1>5

(* Descriptors that are only given back, and calls of send() that only     *)
(* come to an end, change nothing in what is known.                        *)
LEMMA KnownAlone ==
    ASSUME Basic, Known,
           \A f \in Fds : descriptor'[f] # None =>
               descriptor'[f] = descriptor[f] /\ sockfd'[descriptor[f]] = sockfd[descriptor[f]],
           \A w \in Workers : wpc'[w] = "send" =>
               wpc[w] = "send" /\ task'[w] = task[w] /\ fd'[w] = fd[w]
    PROVE  Known'
  <1>1. ASSUME NEW w \in Workers, wpc'[w] = "send" PROVE task'[w][1] # None
    BY <1>1, ServerAssumption DEF Basic, WorkerTypes, Requests
  <1> QED BY <1>1 DEF Known

(* close() and Refuse. *)
LEMMA KnownCloses ==
    ASSUME Basic, Known, NEW c \in Conns,
           \A f \in Fds : descriptor'[f] = IF f = sockfd[c] THEN None ELSE descriptor[f],
           \A d \in Conns : d # c => sockfd'[d] = sockfd[d],
           UNCHANGED worker
    PROVE  /\ Known' /\ ~HasSocket(c)'
           /\ \A d \in Conns : HasSocket(d)' => HasSocket(d) /\ d # c
  <1>1. \A f \in Fds : descriptor[f] = c => sockfd[c] = f
    BY ServerAssumption DEF Known
  <1>2. \A f \in Fds : descriptor'[f] # None =>
               descriptor'[f] = descriptor[f] /\ sockfd'[descriptor[f]] = sockfd[descriptor[f]]
    BY <1>1 DEF Basic, ServerTypes
  <1>3. Known'
    BY <1>2, KnownAlone DEF worker
  <1>4. ~HasSocket(c)'
    BY <1>1, ServerAssumption DEF HasSocket
  <1>5. \A d \in Conns : HasSocket(d)' => HasSocket(d)
    BY ServerAssumption DEF HasSocket
  <1> QED BY <1>3, <1>4, <1>5

LEMMA CloseSocketKnown ==
    ASSUME Basic, Known, NEW c \in Conns, CloseSocket(c), UNCHANGED worker
    PROVE  /\ Known' /\ ~HasSocket(c)'
           /\ \A d \in Conns : HasSocket(d)' => HasSocket(d) /\ d # c
  BY Closes, KnownCloses

(* Refuse closes the accepted socket and nothing else. *)
LEMMA Refuses ==
    ASSUME Basic, Known, Refuse
    PROVE  /\ at \in Conns /\ Known' /\ ~HasSocket(at)'
           /\ \A d \in Conns : HasSocket(d)' => HasSocket(d) /\ d # at
  <1>1. at \in Conns
    BY DEF Refuse, Basic, EventTypes, Handling
  <1>2. \A f \in Fds : descriptor'[f] = IF f = sockfd[at] THEN None ELSE descriptor[f]
    BY DEF Refuse, Basic, ServerTypes
  <1>3. \A d \in Conns : d # at => sockfd'[d] = sockfd[d]
    BY DEF Refuse, Basic, ServerTypes
  <1> QED BY <1>1, <1>2, <1>3, KnownCloses DEF Refuse

LEMMA Accepts ==
    ASSUME Basic, Strangers, Known, NEW c \in Conns, Accept(c)
    PROVE  /\ Strange(c) /\ Known'
           /\ \A d \in Conns : HasSocket(d)' => HasSocket(d) \/ d = c
  <1>1. Strange(c) /\ ~HasSocket(c)
    BY DEF Accept, Strangers, Unaccepted, Strange
  <1>2. PICK f \in Fds : /\ descriptor[f] = None
                         /\ descriptor' = [descriptor EXCEPT ![f] = c]
                         /\ sockfd' = [sockfd EXCEPT ![c] = f]
    BY DEF Accept, FreeFds
  <1>3. \A g \in Fds : descriptor'[g] = IF g = f THEN c ELSE descriptor[g]
    BY <1>2 DEF Basic, ServerTypes
  <1>4. \A d \in Conns : sockfd'[d] = IF d = c THEN f ELSE sockfd[d]
    BY <1>2 DEF Basic, ServerTypes
  <1>5. \A w \in Workers : wpc[w] # "idle" => task[w][1] # c
    BY <1>1 DEF Strange
  <1>6. UNCHANGED worker
    BY DEF Accept
  <1>7. \A g \in Fds : descriptor'[g] # None => sockfd'[descriptor'[g]] = g
    <2> SUFFICES ASSUME NEW g \in Fds, descriptor'[g] # None PROVE sockfd'[descriptor'[g]] = g
      OBVIOUS
    <2>1. CASE g = f
      BY <1>3, <1>4, <2>1
    <2>2. CASE g # f
      BY <1>1, <1>3, <1>4, <2>2 DEF HasSocket, Known, Basic, ServerTypes
    <2> QED BY <2>1, <2>2
  <1>8. Known'
    BY <1>3, <1>5, <1>6, <1>7 DEF Known, worker
  <1>9. \A d \in Conns : HasSocket(d)' => HasSocket(d) \/ d = c
    BY <1>3 DEF HasSocket
  <1> QED BY <1>1, <1>8, <1>9

LEMMA KnownStep ==
    ASSUME Basic, Strangers, Known, [Next]_vars
    PROVE  Known'
  <1>1. CASE UNCHANGED <<descriptor, sockfd, worker>>
    BY <1>1, KnownAlone DEF worker
  <1>2. ASSUME NEW w \in Workers, Worker(w)
        PROVE  Known'
    <2>1. CASE SendLoad(w)
      <3>1. task[w] \in Requests /\ UNCHANGED <<descriptor, sockfd, task>>
        BY <2>1 DEF SendLoad, Basic, WorkerTypes, kernel, objects
      <3>2. task[w][1] \in Conns
        BY <3>1 DEF Requests
      <3>3. \A v \in Workers : /\ v # w => wpc'[v] = wpc[v] /\ fd'[v] = fd[v]
                               /\ fd'[w] = sockfd[task[w][1]]
        BY <2>1 DEF SendLoad, Basic, WorkerTypes
      <3>4. \A f \in Fds : descriptor[f] = task[w][1] => sockfd[task[w][1]] = f
        BY <3>2, ServerAssumption DEF Known
      <3> QED BY <3>1, <3>3, <3>4 DEF Known
    <2>2. CASE WorkerEnd(w)
      <3>1. \A f \in Fds : descriptor'[f] # None => descriptor'[f] = descriptor[f]
        BY <2>2, Destroys DEF WorkerEnd
      <3>2. \A v \in Workers : wpc'[v] = "send" =>
               wpc[v] = "send" /\ task'[v] = task[v] /\ fd'[v] = fd[v]
        BY <2>2 DEF WorkerEnd, Basic, WorkerTypes
      <3>3. UNCHANGED sockfd
        BY <2>2 DEF WorkerEnd, objects
      <3> QED BY <3>1, <3>2, <3>3, KnownAlone
    <2>3. CASE WorkerTake(w) \/ SendTest(w) \/ (\E n \in 1..Units : SendSome(w, n))
               \/ SendFails(w) \/ ErrorCallback(w)
      <3>1. UNCHANGED <<descriptor, sockfd>>
        BY <2>3 DEF WorkerTake, SendTest, SendSome, SendFails, ErrorCallback, kernel, objects
      <3>2. \A v \in Workers : wpc'[v] = "send" =>
               wpc[v] = "send" /\ task'[v] = task[v] /\ fd'[v] = fd[v]
        BY <2>3 DEF WorkerTake, SendTest, SendSome, SendFails, ErrorCallback, Basic, WorkerTypes
      <3> QED BY <3>1, <3>2, KnownAlone
    <2> QED BY <1>2, <2>1, <2>2, <2>3 DEF Worker
  <1>3. ASSUME NEW c \in Conns, Accept(c) PROVE Known'
    BY <1>3, Accepts
  <1>4. Refuse => Known'
    BY Refuses
  <1>5. CASE Admit \/ CloseSys
    <2>1. at \in Conns /\ UNCHANGED worker
      BY <1>5 DEF Admit, CloseSys, Basic, EventTypes, Handling
    <2>2. CloseSocket(at) \/ UNCHANGED <<descriptor, sockfd>>
      BY <1>5 DEF Admit, CloseSys
    <2> QED BY <1>1, <2>1, <2>2, CloseSocketKnown
  <1>6. CASE StopCloseSys
    BY <1>6, CloseSocketKnown DEF StopCloseSys, Basic, StopTypes
  <1>7. CASE EraseConnection \/ StopClear \/ StopJoin
    <2>1. DestroyUnreferenced /\ UNCHANGED <<sockfd, worker>>
      BY <1>7 DEF EraseConnection, StopClear, StopJoin, objects
    <2>2. \A f \in Fds : descriptor'[f] # None => descriptor'[f] = descriptor[f]
      BY <2>1, Destroys
    <2> QED BY <2>1, <2>2, KnownAlone DEF worker
  <1>8. CASE LoopTest \/ EpollWait \/ EpollNothing \/ BatchDone \/ ListenEvent \/ AcceptFails
             \/ PushConnection \/ ConnectionCallback \/ CloseTest
             \/ (\E c \in Conns : ClientEvent(c))
    BY <1>1, <1>8 DEF LoopTest, EpollWait, EpollNothing, BatchDone, ListenEvent, AcceptFails,
       PushConnection, ConnectionCallback, CloseTest, ClientEvent, kernel, objects
  <1>9. CASE StopBegin \/ StopListening \/ StopLock \/ StopEpoll
             \/ (\E c \in Conns : StopCloseTest(c))
    BY <1>1, <1>9 DEF StopBegin, StopListening, StopLock, StopEpoll, StopCloseTest, kernel, objects
  <1>10. CASE \E c \in Conns : Connect(c) \/ Request(c) \/ Close(c) \/ Reset(c)
    BY <1>1, <1>10 DEF Connect, Request, Close, Reset, objects
  <1>11. CASE UNCHANGED vars
    BY <1>1, <1>11 DEF vars, kernel, objects
  <1> QED BY <1>2, <1>3, <1>4, <1>5, <1>6, <1>7, <1>8, <1>9, <1>10, <1>11
          DEF Next, Server, EventThread, Stopping

(* When no more descriptors are open and the list and the event thread     *)
(* stay as they are.                                                       *)
LEMMA PlacedAlone ==
    ASSUME Placed, UNCHANGED <<tcpConnections, at>>, reset' = {} => reset = {},
           epc \in {"admit", "push", "close", "sysclose"} => epc' = epc,
           \A c \in Conns : HasSocket(c)' => HasSocket(c),
           reset' = {} => \A c \in Conns : HasSocket(c)' /\ state[c] # "DISCONNECTED" =>
                                               state'[c] # "DISCONNECTED"
    PROVE  Placed'
  BY DEF Placed

LEMMA PlacedWorker ==
    ASSUME Basic, Known, Placed, NEW w \in Workers, Worker(w)
    PROVE  Placed'
  <1>1. UNCHANGED <<tcpConnections, at, reset, epc>>
    BY DEF Worker, WorkerTake, SendTest, SendLoad, SendSome, SendFails, ErrorCallback, WorkerEnd,
           kernel, event
  <1>2. CASE SendFails(w)
    <2>1. task[w] \in Requests /\ wpc[w] = "send" /\ ~Sendable(w) /\ UNCHANGED descriptor
          /\ state' = [state EXCEPT ![task[w][1]] = "DISCONNECTED"]
      BY <1>2 DEF SendFails, Basic, WorkerTypes, kernel
    <2>2. task[w][1] \in Conns /\ task[w][1] # None
      BY <2>1, ServerAssumption DEF Requests
    <2>3. reset = {} => ~HasSocket(task[w][1])
      <3> SUFFICES ASSUME reset = {}, NEW f \in Fds, descriptor[f] = task[w][1] PROVE FALSE
        BY DEF HasSocket
      <3>1. fd[w] = f
        BY <2>1 DEF Known
      <3> QED BY <2>1, <2>2, <3>1 DEF Sendable, Target
    <2>4. \A c \in Conns : c # task[w][1] => state'[c] = state[c]
      BY <2>1 DEF Basic, ServerTypes
    <2>5. \A c \in Conns : HasSocket(c)' <=> HasSocket(c)
      BY <2>1 DEF HasSocket
    <2> QED BY <1>1, <2>3, <2>4, <2>5, PlacedAlone
  <1>3. CASE ~SendFails(w)
    <2>1. UNCHANGED state /\ (UNCHANGED descriptor \/ DestroyUnreferenced)
      BY <1>3 DEF Worker, WorkerTake, SendTest, SendLoad, SendSome, ErrorCallback, WorkerEnd,
         kernel, objects
    <2>2. \A c \in Conns : HasSocket(c)' => HasSocket(c)
      BY <2>1, Destroys, ServerAssumption DEF HasSocket
    <2> QED BY <1>1, <2>1, <2>2, PlacedAlone
  <1> QED BY <1>2, <1>3

LEMMA PlacedEvent ==
    ASSUME Basic, Strangers, Known, Placed, EventThread
    PROVE  Placed'
  <1>1. UNCHANGED <<reset, worker>>
    BY DEF EventThread, LoopTest, EpollWait, EpollNothing, BatchDone, ListenEvent, AcceptFails,
       Refuse, Admit, PushConnection, ConnectionCallback, EraseConnection, CloseTest, CloseSys,
       Accept, ClientEvent, kernel
  <1>2. CASE LoopTest \/ EpollWait \/ EpollNothing \/ BatchDone \/ ListenEvent \/ AcceptFails
             \/ ConnectionCallback
    <2>1. /\ UNCHANGED <<tcpConnections, at, state, descriptor>>
          /\ epc \notin {"admit", "push", "close", "sysclose"}
      BY <1>2 DEF LoopTest, EpollWait, EpollNothing, BatchDone, ListenEvent, AcceptFails,
         ConnectionCallback, kernel, objects
    <2> QED BY <1>1, <2>1, PlacedAlone DEF HasSocket
  <1>3. ASSUME NEW d \in Conns, Accept(d) PROVE Placed'
    <2>1. /\ UNCHANGED <<tcpConnections, state>> /\ at' = d /\ epc = "accept" /\ epc' = "admit"
      BY <1>3 DEF Accept
    <2>2. state[d] = "NONE" /\ \A c \in Conns : HasSocket(c)' => HasSocket(c) \/ c = d
      BY <1>3, Accepts DEF Strange
    <2> QED BY <1>1, <2>1, <2>2 DEF Placed
  <1>4. CASE Refuse
    <2>1. UNCHANGED <<tcpConnections, state, at>> /\ epc = "admit"
      BY <1>4 DEF Refuse
    <2> QED BY <1>1, <1>4, <2>1, Refuses DEF Placed
  <1>5. CASE Admit
    <2>1. UNCHANGED <<tcpConnections, at>> /\ epc = "admit" /\ at \in Conns
      BY <1>5 DEF Admit, Basic, EventTypes, Handling
    <2>2. CASE EpollOpen
      <3>1. state' = [state EXCEPT ![at] = "CONNECTED"] /\ epc' = "push" /\ UNCHANGED descriptor
        BY <1>5, <2>2 DEF Admit
      <3>2. \A c \in Conns : state'[c] = IF c = at THEN "CONNECTED" ELSE state[c]
        BY <3>1 DEF Basic, ServerTypes
      <3> QED BY <1>1, <2>1, <3>1, <3>2 DEF Placed, HasSocket
    <2>3. CASE ~EpollOpen
      <3>1. CloseSocket(at)
        BY <1>5, <2>3 DEF Admit
      <3>2. \A c \in Conns : HasSocket(c)' => HasSocket(c) /\ c # at /\ state'[c] = state[c]
        BY <1>1, <2>1, <3>1, Closes, CloseSocketKnown
      <3> QED BY <1>1, <2>1, <3>2 DEF Placed
    <2> QED BY <2>2, <2>3
  <1>6. CASE PushConnection
    <2>1. UNCHANGED <<at, state, descriptor>> /\ epc = "push"
          /\ tcpConnections' = tcpConnections \cup {at}
      BY <1>6 DEF PushConnection, kernel, objects
    <2> QED BY <1>1, <2>1 DEF Placed, HasSocket
  <1>7. ASSUME NEW d \in Conns, ClientEvent(d) PROVE Placed'
    <2>1. UNCHANGED <<tcpConnections, state, descriptor>> /\ epc = "next"
      BY <1>7 DEF ClientEvent, objects
    <2> QED BY <1>1, <2>1 DEF Placed, HasSocket
  <1>8. CASE EraseConnection
    <2>1. /\ UNCHANGED <<at, state>> /\ DestroyUnreferenced /\ epc = "erase"
          /\ \/ tcpConnections' = tcpConnections \ {at} /\ epc' = "close"
             \/ UNCHANGED <<tcpConnections, epc>>
      BY <1>8 DEF EraseConnection, objects
    <2>2. \A c \in Conns : HasSocket(c)' => HasSocket(c)
      BY <2>1, Destroys, ServerAssumption DEF HasSocket
    <2> QED BY <1>1, <2>1, <2>2 DEF Placed
  <1>9. CASE CloseTest
    <2>1. UNCHANGED <<tcpConnections, at, descriptor>> /\ epc = "close" /\ at \in Conns
      BY <1>9 DEF CloseTest, kernel, Basic, EventTypes, Handling
    <2>2. CASE state[at] = "DISCONNECTED"
      <3>1. UNCHANGED state
        BY <1>9, <2>2 DEF CloseTest
      <3> QED BY <1>1, <2>1, <2>2, <3>1 DEF Placed, HasSocket
    <2>3. CASE state[at] # "DISCONNECTED"
      <3>1. /\ epc' \in {"close", "sysclose"}
            /\ state' = state \/ state' = [state EXCEPT ![at] = "DISCONNECTING"]
        BY <1>9, <2>1, <2>3 DEF CloseTest
      <3>2. \A c \in Conns : state'[c] = state[c] \/ state'[c] = "DISCONNECTING"
        BY <3>1 DEF Basic, ServerTypes
      <3> QED BY <1>1, <2>1, <3>1, <3>2 DEF Placed, HasSocket
    <2> QED BY <2>2, <2>3
  <1>10. CASE CloseSys
    <2>1. UNCHANGED <<tcpConnections, at>> /\ epc = "sysclose" /\ at \in Conns /\ CloseSocket(at)
      BY <1>10 DEF CloseSys, Basic, EventTypes, Handling
    <2>2. \A c \in Conns : HasSocket(c)' => HasSocket(c) /\ c # at /\ state'[c] = state[c]
      BY <1>1, <2>1, Closes, CloseSocketKnown
    <2> QED BY <1>1, <2>1, <2>2 DEF Placed
  <1> QED BY <1>2, <1>3, <1>4, <1>5, <1>6, <1>7, <1>8, <1>9, <1>10 DEF EventThread

LEMMA PlacedStop ==
    ASSUME Basic, Lists, Known, Placed, StopBegin \/ Stopping
    PROVE  Placed'
  <1>1. UNCHANGED <<reset, at, epc, worker>>
    BY DEF StopBegin, Stopping, StopListening, StopLock, StopCloseSys, StopClear, StopEpoll,
           StopJoin, StopCloseTest, kernel, event
  <1>2. CASE StopBegin \/ StopListening \/ StopLock \/ StopEpoll
    BY <1>1, <1>2, PlacedAlone DEF StopBegin, StopListening, StopLock, StopEpoll, kernel, objects,
       HasSocket
  <1>3. ASSUME NEW c \in Conns, StopCloseTest(c) PROVE Placed'
    <2>1. /\ UNCHANGED <<tcpConnections, descriptor>>
          /\ state' = state \/ state' = [state EXCEPT ![c] = "DISCONNECTING"]
      BY <1>3 DEF StopCloseTest, kernel
    <2>2. \A d \in Conns : state'[d] = state[d] \/ state'[d] = "DISCONNECTING"
      BY <2>1 DEF Basic, ServerTypes
    <2>3. \A d \in Conns : HasSocket(d)' <=> HasSocket(d)
      BY <2>1 DEF HasSocket
    <2> QED BY <1>1, <2>1, <2>2, <2>3 DEF Placed
  <1>4. CASE StopCloseSys
    <2>1. closing \in Conns /\ CloseSocket(closing) /\ UNCHANGED tcpConnections
      BY <1>4 DEF StopCloseSys, Basic, StopTypes
    <2>2. \A c \in Conns : HasSocket(c)' => HasSocket(c) /\ state'[c] = state[c]
      BY <1>1, <2>1, Closes, CloseSocketKnown
    <2> QED BY <1>1, <2>1, <2>2, PlacedAlone
  <1>5. CASE StopClear \/ StopJoin
    <2>1. DestroyUnreferenced /\ UNCHANGED state
      BY <1>5 DEF StopClear, StopJoin, objects
    <2>2. \A c \in Conns : HasSocket(c)' => HasSocket(c)
      BY <2>1, Destroys, ServerAssumption DEF HasSocket
    <2>3. \A c \in Conns : c \in tcpConnections /\ state[c] # "DISCONNECTED" => c \in tcpConnections'
      BY <1>5 DEF StopClear, StopJoin, Lists, Locked
    <2> QED BY <1>1, <2>1, <2>2, <2>3 DEF Placed
  <1> QED BY <1>2, <1>3, <1>4, <1>5 DEF Stopping

LEMMA PlacedStep ==
    ASSUME Basic, Lists, Strangers, Known, Placed, [Next]_vars
    PROVE  Placed'
  <1>1. ASSUME NEW c \in Conns, Connect(c) \/ Request(c) \/ Close(c) \/ Reset(c)
        PROVE  Placed'
    BY <1>1, PlacedAlone DEF Connect, Request, Close, Reset, objects, event, HasSocket
  <1>2. UNCHANGED vars => Placed'
    BY PlacedAlone DEF vars, kernel, objects, event, HasSocket
  <1> QED BY <1>1, <1>2, PlacedWorker, PlacedEvent, PlacedStop DEF Next, Server

LEMMA RoomAlone ==
    ASSUME Basic, Room, tcpConnections' = tcpConnections \/ tcpConnections' = {},
           epc' = "push" => epc = "push",
           epc' \in {"close", "sysclose"} =>
               /\ epc \in {"close", "sysclose"} /\ at' = at /\ (reset' = {} => reset = {})
               /\ \A c \in Conns : HasSocket(c)' => HasSocket(c)
    PROVE  Room'
  <1>1. /\ Cardinality(tcpConnections) \in Nat /\ Cardinality({}) = 0 /\ MaxConnections \in Nat
    BY ServerAssumption, FS_Subset, FS_CardinalityType, FS_EmptySet DEF Basic, ServerTypes
  <1>2. Cardinality(tcpConnections') <= Cardinality(tcpConnections)
        /\ Cardinality(tcpConnections') \in Nat
    BY <1>1
  <1>3. epc' \in {"close", "sysclose"} => at \in Conns
    BY DEF Basic, EventTypes, Handling
  <1> DEFINE n == Cardinality(tcpConnections)
             m == Cardinality(tcpConnections')
  <1>4. n <= MaxConnections /\ (epc = "push" => n < MaxConnections)
        /\ (reset = {} /\ epc \in {"close", "sysclose"} /\ HasSocket(at) => n < MaxConnections)
    BY DEF Room
  <1>5. n \in Nat /\ m \in Nat /\ m <= n
    BY <1>1, <1>2
  <1>6. ASSUME reset' = {}, epc' \in {"close", "sysclose"}, HasSocket(at)'
        PROVE  n < MaxConnections
    <2>1. reset = {} /\ epc \in {"close", "sysclose"} /\ at' = at /\ HasSocket(at)
      BY <1>3, <1>6
    <2> QED BY <1>4, <2>1
  <1>7. /\ m <= MaxConnections /\ (epc' = "push" => m < MaxConnections)
        /\ (reset' = {} /\ epc' \in {"close", "sysclose"} /\ HasSocket(at)' => m < MaxConnections)
    <2> HIDE DEF n, m
    <2> QED BY <1>1, <1>4, <1>5, <1>6
  <1> QED BY <1>7 DEF Room

LEMMA RoomStep ==
    ASSUME Basic, Strangers, Known, Placed, Room, [Next]_vars
    PROVE  Room'
  <1>1. ASSUME NEW c \in Conns, Connect(c) \/ Request(c) \/ Close(c) \/ Reset(c)
        PROVE  Room'
    BY <1>1, RoomAlone DEF Connect, Request, Close, Reset, event, HasSocket
  <1>2. ASSUME NEW w \in Workers, Worker(w)
        PROVE  Room'
    <2>1. UNCHANGED <<tcpConnections, at, reset, epc>>
          /\ (UNCHANGED descriptor \/ DestroyUnreferenced)
      BY <1>2 DEF Worker, WorkerTake, SendTest, SendLoad, SendSome, SendFails, ErrorCallback,
         WorkerEnd, kernel, event
    <2>2. \A c \in Conns : HasSocket(c)' => HasSocket(c)
      BY <2>1, Destroys, ServerAssumption DEF HasSocket
    <2> QED BY <2>1, <2>2, RoomAlone
  <1>3. CASE LoopTest \/ EpollWait \/ EpollNothing \/ BatchDone \/ ListenEvent \/ AcceptFails
             \/ Refuse \/ ConnectionCallback \/ (\E c \in Conns : Accept(c))
    <2>1. /\ UNCHANGED tcpConnections
          /\ epc \notin {"push", "close", "sysclose"} /\ epc' \notin {"push", "close", "sysclose"}
      BY <1>3 DEF LoopTest, EpollWait, EpollNothing, BatchDone, ListenEvent, AcceptFails, Refuse,
         ConnectionCallback, Accept
    <2> QED BY <2>1, RoomAlone
  <1>4. ASSUME NEW c \in Conns, ClientEvent(c)
        PROVE  Room'
    <2>1. UNCHANGED tcpConnections /\ epc' \in {"next", "erase"}
      BY <1>4, Events DEF ClientEvent
    <2> QED BY <2>1, RoomAlone
  <1>5. CASE CloseTest \/ CloseSys
    <2>1. /\ UNCHANGED <<tcpConnections, at, reset>> /\ epc \in {"close", "sysclose"}
          /\ at \in Conns
      BY <1>5 DEF CloseTest, CloseSys, kernel, Basic, EventTypes, Handling
    <2>2. epc' # "push"
      BY <1>5 DEF CloseTest, CloseSys, CloseCallDone
    <2>3. \A c \in Conns : HasSocket(c)' => HasSocket(c)
      <3>1. CloseTest => UNCHANGED descriptor
        BY DEF CloseTest, kernel
      <3>2. CloseSys => CloseSocket(at) /\ UNCHANGED worker
        BY DEF CloseSys
      <3> QED BY <1>5, <2>1, <3>1, <3>2, CloseSocketKnown DEF HasSocket
    <2> QED BY <2>1, <2>2, <2>3, RoomAlone
  <1>6. IsFiniteSet(tcpConnections) /\ Cardinality(tcpConnections) \in Nat /\ MaxConnections \in Nat
    BY ServerAssumption, FS_Subset, FS_CardinalityType DEF Basic, ServerTypes
  <1>7. CASE Admit
    <2>1. UNCHANGED tcpConnections /\ epc' \in {"push", "next"} /\ ~AtLimit
      BY <1>7 DEF Admit
    <2>2. Cardinality(tcpConnections) < MaxConnections
      BY <1>6, <2>1 DEF AtLimit
    <2> QED BY <1>6, <2>1, <2>2 DEF Room
  <1>8. CASE PushConnection
    <2>1. /\ tcpConnections' = tcpConnections \cup {at} /\ epc' = "callback" /\ epc = "push"
      BY <1>8 DEF PushConnection
    <2>2. Cardinality(tcpConnections') <= Cardinality(tcpConnections) + 1
          /\ Cardinality(tcpConnections') \in Nat
      BY <1>6, <2>1, FS_AddElement
    <2>3. Cardinality(tcpConnections) < MaxConnections
      BY <2>1 DEF Room
    <2>4. Cardinality(tcpConnections') <= MaxConnections
      BY <1>6, <2>2, <2>3
    <2> QED BY <2>1, <2>4 DEF Room
  <1>9. CASE EraseConnection
    <2>1. /\ UNCHANGED <<at, reset>> /\ DestroyUnreferenced /\ epc = "erase" /\ at \in Conns
          /\ \/ tcpConnections' = tcpConnections \ {at} /\ epc' = "close"
             \/ UNCHANGED <<tcpConnections, epc>>
      BY <1>9 DEF EraseConnection, Basic, EventTypes, Handling
    <2>2. CASE UNCHANGED <<tcpConnections, epc>>
      BY <2>1, <2>2, RoomAlone
    <2>3. CASE tcpConnections' = tcpConnections \ {at} /\ epc' = "close"
      <3>1. Cardinality(tcpConnections') = IF at \in tcpConnections
                                           THEN Cardinality(tcpConnections) - 1
                                           ELSE Cardinality(tcpConnections)
        BY <1>6, <2>3, FS_RemoveElement
      <3>2. reset' = {} /\ HasSocket(at)' => at \in tcpConnections
        <4>1. HasSocket(at)' => HasSocket(at)
          BY <2>1, Destroys, ServerAssumption DEF HasSocket
        <4> QED BY <2>1, <4>1 DEF Placed
      <3>3. Cardinality(tcpConnections) <= MaxConnections
        BY DEF Room
      <3> DEFINE n == Cardinality(tcpConnections)
                 m == Cardinality(tcpConnections')
      <3>4. m = (IF at \in tcpConnections THEN n - 1 ELSE n) /\ n <= MaxConnections
            /\ n \in Nat /\ MaxConnections \in Nat
        BY <1>6, <3>1, <3>3
      <3>5. m <= MaxConnections /\ (at \in tcpConnections => m < MaxConnections)
        <4> HIDE DEF n, m
        <4> QED BY <3>4
      <3>6. epc' # "push"
        BY <2>3
      <3> QED BY <2>3, <3>2, <3>5, <3>6 DEF Room
    <2> QED BY <2>1, <2>2, <2>3
  <1>10. CASE StopBegin \/ Stopping
    <2>1. /\ UNCHANGED <<at, reset, epc, worker>>
          /\ tcpConnections' = tcpConnections \/ tcpConnections' = {}
      BY <1>10 DEF StopBegin, Stopping, StopListening, StopLock, StopCloseSys, StopClear, StopEpoll,
         StopJoin, StopCloseTest, kernel, event
    <2>2. \/ UNCHANGED descriptor \/ DestroyUnreferenced
          \/ closing \in Conns /\ CloseSocket(closing)
      BY <1>10 DEF StopBegin, Stopping, StopListening, StopLock, StopCloseSys, StopClear, StopEpoll,
         StopJoin, StopCloseTest, kernel, Basic, StopTypes
    <2>3. \A c \in Conns : HasSocket(c)' => HasSocket(c)
      BY <2>1, <2>2, Destroys, CloseSocketKnown, ServerAssumption DEF HasSocket
    <2> QED BY <2>1, <2>3, RoomAlone
  <1>11. UNCHANGED vars => Room'
    BY RoomAlone DEF vars, kernel, event, HasSocket
  <1> QED BY <1>1, <1>2, <1>3, <1>4, <1>5, <1>7, <1>8, <1>9, <1>10, <1>11
          DEF Next, Server, EventThread

(* A descriptor belongs to one connection, and that one is in the list or  *)
(* has a place there.                                                      *)
LEMMA BoundedSockets == Bounded => SocketsBounded
  <1> DEFINE open == {f \in Fds : descriptor[f] # None /\ ~(epc = "admit" /\ descriptor[f] = at)}
  <1> SUFFICES ASSUME Bounded, reset = {} PROVE Cardinality(open) <= MaxConnections
    BY DEF SocketsBounded
  <1> USE DEF Bounded
  <1>1. /\ IsFiniteSet(tcpConnections) /\ Cardinality(tcpConnections) \in Nat
        /\ MaxConnections \in Nat
    BY ServerAssumption, FS_Subset, FS_CardinalityType DEF Basic, ServerTypes
  <1>2. PICK S \in SUBSET Conns :
           /\ \A f \in open : descriptor[f] \in S
           /\ Cardinality(S) <= MaxConnections /\ IsFiniteSet(S)
    <2>1. ASSUME NEW f \in open
          PROVE  /\ descriptor[f] \in Conns /\ HasSocket(descriptor[f])
                 /\ descriptor[f] \in tcpConnections \/
                    (descriptor[f] = at /\ epc \in {"push", "close", "sysclose"})
      <3>1. descriptor[f] \in Conns /\ f \in Fds
        BY DEF Basic, ServerTypes
      <3>2. HasSocket(descriptor[f])
        BY <3>1 DEF HasSocket
      <3> QED BY <3>1, <3>2 DEF Placed
    <2>2. CASE epc \in {"push", "close", "sysclose"} /\ HasSocket(at)
      <3>1. Cardinality(tcpConnections) < MaxConnections
        BY <2>2 DEF Room
      <3>2. IsFiniteSet(tcpConnections \cup {at}) /\
            Cardinality(tcpConnections \cup {at}) <= Cardinality(tcpConnections) + 1
            /\ Cardinality(tcpConnections \cup {at}) \in Nat
        BY <1>1, FS_AddElement
      <3>3. Cardinality(tcpConnections \cup {at}) <= MaxConnections
        BY <1>1, <3>1, <3>2
      <3>4. tcpConnections \cup {at} \subseteq Conns
        BY <2>2 DEF Basic, ServerTypes, EventTypes, Handling
      <3> QED BY <2>1, <3>2, <3>3, <3>4
    <2>3. CASE ~(epc \in {"push", "close", "sysclose"} /\ HasSocket(at))
      <3>1. \A f \in open : descriptor[f] \in tcpConnections
        BY <2>1, <2>3
      <3> QED BY <1>1, <3>1 DEF Room, Basic, ServerTypes
    <2> QED BY <2>2, <2>3
  <1> DEFINE F == [f \in open |-> descriptor[f]]
  <1>3. F \in Injection(open, S)
    <2>1. \A f, g \in open : descriptor[f] = descriptor[g] => f = g
      BY DEF Known
    <2> QED BY <1>2, <2>1, Fun_IsInj
  <1>4. Cardinality(open) <= Cardinality(S) /\ IsFiniteSet(open)
    BY <1>2, <1>3, FS_Injection
  <1>5. Cardinality(open) \in Nat /\ Cardinality(S) \in Nat
    BY <1>2, <1>4, FS_CardinalityType
  <1>6. ASSUME NEW n \in Nat, NEW m \in Nat, n <= m, m <= MaxConnections PROVE n <= MaxConnections
    BY <1>1, <1>6
  <1> HIDE DEF open
  <1> QED BY <1>2, <1>4, <1>5, <1>6

(* As long as no client has reset its connection, no more descriptors are  *)
(* open than max_connections_, apart from the one that is being tested: no *)
(* connection leaves the list and keeps its descriptor, in any             *)
(* interleaving of the event thread, the senders and stop().               *)
THEOREM ServerConnectionsSocketsBounded == Spec => []SocketsBounded
  <1>1. Init => Bounded
    BY BasicInit, ListsInit, SocketsInit DEF Bounded
  <1>2. Bounded /\ [Next]_vars => Bounded'
    BY BasicStep, ListsStep, StrangersStep, KnownStep, PlacedStep, RoomStep DEF Bounded
  <1> QED BY <1>1, <1>2, BoundedSockets, PTL DEF Spec

-----------------------------------------------------------------------------
(* Arithmetic *)

LEMMA Rounds ==
    ASSUME NEW a \in Nat, NEW j \in 0 .. Units - 1
    PROVE  (a * Units + j) \div Units = a /\ (a * Units + j) % Units = j
  <1> DEFINE U == Units
  <1>1. U \in Nat \ {0}
    BY ServerAssumption
  <1> HIDE DEF U
  <1>2. ASSUME NEW i \in 0 .. U - 1 PROVE (a * U + i) \div U = a
    BY <1>1
  <1>3. ASSUME NEW i \in 0 .. U - 1 PROVE (a * U + i) % U = i
    BY <1>1
  <1> QED BY <1>2, <1>3 DEF U

LEMMA Multiples ==
    ASSUME NEW t \in Nat, NEW s \in Nat
    PROVE  /\ t * Units \in Nat /\ (t - 1) * Units + Units = t * Units
           /\ t <= s /\ s * Units <= t * Units => s = t
  <1> DEFINE U == Units
  <1>1. U \in Nat \ {0}
    BY ServerAssumption
  <1> HIDE DEF U
  <1>2. t * U \in Nat /\ (t - 1) * U + U = t * U
    BY <1>1
  <1>3. t <= s /\ s * U <= t * U => s = t
    BY <1>1
  <1> QED BY <1>2, <1>3 DEF U

(* A client that waits for its answer has been answered in full when it    *)
(* goes on, and nobody sends to it any more.                               *)
LEMMA Satisfied ==
    ASSUME Good, NEW c \in Conns, Answered(c) >= sent[c]
    PROVE  /\ taken[c] = sent[c] /\ Len(received[c]) = taken[c] * Units
           /\ Quiet(c)
  <1> DEFINE L == Len(received[c])
  <1>1. /\ L \in Nat /\ sent[c] \in Nat /\ taken[c] \in Nat /\ taken[c] <= sent[c]
        /\ Units \in Nat \ {0}
    BY ServerAssumption, LenProperties DEF Good, Basic, ClientTypes
  <1>2. L <= taken[c] * Units
    BY DEF Good, Serving, Turns
  <1>3. sent[c] * Units <= L
    <2> DEFINE U == Units
               s == sent[c]
    <2>1. U \in Nat \ {0} /\ s \in Nat /\ s <= L \div U
      BY <1>1 DEF Answered
    <2> HIDE DEF U, s, L
    <2>2. s * U <= L
      BY <1>1, <2>1
    <2> QED BY <2>2 DEF U, s
  <1>4. taken[c] * Units \in Nat /\ sent[c] * Units \in Nat
    BY <1>1, Multiples
  <1>5. sent[c] * Units <= taken[c] * Units
    <2> HIDE DEF L
    <2> DEFINE x == sent[c] * Units
               y == taken[c] * Units
    <2>1. x <= L /\ L <= y /\ x \in Nat /\ y \in Nat
      BY <1>2, <1>3, <1>4
    <2> HIDE DEF x, y
    <2>2. x <= y
      BY <1>1, <2>1
    <2> QED BY <2>2 DEF x, y
  <1>6. taken[c] = sent[c]
    BY <1>1, <1>5, Multiples
  <1>7. L = taken[c] * Units
    <2> HIDE DEF L
    <2> DEFINE y == taken[c] * Units
    <2>1. y <= L /\ L <= y /\ y \in Nat
      BY <1>2, <1>3, <1>4, <1>6
    <2> HIDE DEF y
    <2>2. L = y
      BY <1>1, <2>1
    <2> QED BY <2>2 DEF y
  <1>8. (taken[c] - 1) * Units + Units = L
    BY <1>1, <1>7, Multiples
  <1>9. ASSUME NEW d \in Nat, d < Units, L = (taken[c] - 1) * Units + d PROVE FALSE
    <2> DEFINE y == (taken[c] - 1) * Units
    <2>1. y \in Int
      BY <1>1
    <2>2. y + Units = L /\ L = y + d
      BY <1>8, <1>9
    <2> HIDE DEF y, L
    <2> QED BY <1>1, <1>9, <2>1, <2>2
  <1>10. ASSUME NEW i \in 1..Len(tasks), tasks[i][1] = c PROVE FALSE
    <2>1. L = (taken[c] - 1) * Units
      BY <1>10 DEF Good, Serving, Queue
    <2>2. L = (taken[c] - 1) * Units + 0
      <3> DEFINE y == (taken[c] - 1) * Units
      <3>1. y \in Int /\ L = y
        BY <1>1, <2>1
      <3> HIDE DEF y, L
      <3>2. L = y + 0
        BY <3>1
      <3> QED BY <3>2 DEF y
    <2> QED BY <1>1, <1>9, <2>2
  <1>11. ASSUME NEW w \in Workers, Busy(w), task[w][1] = c PROVE FALSE
    <2>1. L = (taken[c] - 1) * Units + done[w] /\ done[w] < Units /\ done[w] \in Nat
      BY <1>11, ServerAssumption DEF Good, Serving, Working, Basic, WorkerTypes
    <2> QED BY <1>9, <2>1
  <1> QED BY <1>6, <1>7, <1>10, <1>11 DEF Quiet

-----------------------------------------------------------------------------
(* What the steps change *)

LEMMA Takes ==
    ASSUME Basic, NEW w \in Workers, WorkerTake(w)
    PROVE  /\ Len(tasks) \in Nat /\ Len(tasks') = Len(tasks) - 1 /\ 1 \in 1..Len(tasks)
           /\ \A i \in 1..Len(tasks') : i + 1 \in 1..Len(tasks) /\ tasks'[i] = tasks[i + 1]
           /\ wpc[w] = "idle" /\ tasks[1] \in Requests
           /\ \A v \in Workers : /\ task'[v] = IF v = w THEN tasks[1] ELSE task[v]
                                 /\ wpc'[v] = IF v = w THEN "handle" ELSE wpc[v]
           /\ UNCHANGED <<fd, done>>
  <1>1. tasks \in Seq(Requests) /\ tasks # <<>> /\ tasks' = Tail(tasks)
    BY DEF WorkerTake, Basic, ServerTypes
  <1>2. /\ Len(tasks') = Len(tasks) - 1 /\ Len(tasks) \in Nat /\ Len(tasks) >= 1
        /\ \A i \in 1..Len(tasks') : tasks'[i] = tasks[i + 1]
        /\ Head(tasks) = tasks[1] /\ Head(tasks) \in Requests
    BY <1>1, HeadTailProperties
  <1>3. \A i \in 1..Len(tasks') : i + 1 \in 1..Len(tasks)
    BY <1>2
  <1>4. 1 \in 1..Len(tasks)
    BY <1>2
  <1>5. \A v \in Workers : /\ task'[v] = IF v = w THEN tasks[1] ELSE task[v]
                           /\ wpc'[v] = IF v = w THEN "handle" ELSE wpc[v]
    BY <1>2 DEF WorkerTake, Basic, WorkerTypes
  <1> QED BY <1>2, <1>3, <1>4, <1>5 DEF WorkerTake

LEMMA Submits ==
    ASSUME Basic, NEW c \in Conns, tasks' = tasks \o Frames(c)
    PROVE  /\ Len(tasks) \in Nat /\ Len(tasks') = Len(tasks) + (sent[c] - taken[c])
           /\ \A i \in 1..Len(tasks') :
                 \/ i \in 1..Len(tasks) /\ tasks'[i] = tasks[i]
                 \/ i > Len(tasks) /\ tasks'[i] = <<c, taken[c] + (i - Len(tasks))>>
  <1>1. tasks \in Seq(Requests) /\ Frames(c) \in Seq(Requests)
    BY FramesType DEF Basic, ServerTypes
  <1>2. sent[c] - taken[c] \in Nat
    <2>1. /\ sent[c] \in 0..MaxRequests /\ taken[c] \in 0..MaxRequests /\ taken[c] <= sent[c]
      BY DEF Basic, ClientTypes
    <2> QED BY <2>1, ServerAssumption
  <1>3. /\ Len(Frames(c)) = sent[c] - taken[c]
        /\ \A j \in 1 .. sent[c] - taken[c] : Frames(c)[j] = <<c, taken[c] + j>>
    BY <1>2 DEF Frames
  <1>4. Len(tasks) \in Nat /\ Len(tasks') = Len(tasks) + (sent[c] - taken[c])
    BY <1>1, <1>3, LenProperties, ConcatProperties
  <1>5. ASSUME NEW i \in 1..Len(tasks')
        PROVE  \/ i \in 1..Len(tasks) /\ tasks'[i] = tasks[i]
               \/ i > Len(tasks) /\ tasks'[i] = <<c, taken[c] + (i - Len(tasks))>>
    <2>1. tasks'[i] = IF i <= Len(tasks) THEN tasks[i] ELSE Frames(c)[i - Len(tasks)]
      BY <1>1, ConcatProperties
    <2>2. i \in Nat /\ i >= 1 /\ i <= Len(tasks) + (sent[c] - taken[c])
      BY <1>2, <1>4
    <2>3. CASE i <= Len(tasks)
      BY <1>4, <2>1, <2>2, <2>3
    <2>4. CASE i > Len(tasks)
      <3>1. i - Len(tasks) \in 1 .. sent[c] - taken[c] /\ ~(i <= Len(tasks))
        BY <1>2, <1>4, <2>2, <2>4
      <3> QED BY <1>3, <2>1, <2>4, <3>1
    <2> QED BY <1>4, <2>2, <2>3, <2>4
  <1> QED BY <1>4, <1>5

(* Nobody but the pool's queue gives a worker something to send. *)
LEMMA Sending ==
    ASSUME Basic, NEW w \in Workers, Worker(w), ~WorkerTake(w)
    PROVE  /\ UNCHANGED tasks
           /\ \A v \in Workers : Busy(v)' => Busy(v) /\ task'[v] = task[v]
  <1>1. UNCHANGED tasks
    BY DEF Worker, SendTest, SendLoad, SendSome, SendFails, ErrorCallback, WorkerEnd
  <1>2. CASE WorkerEnd(w)
    <2>1. \A v \in Workers : /\ wpc'[v] = IF v = w THEN "idle" ELSE wpc[v]
                             /\ v # w => task'[v] = task[v]
      BY <1>2 DEF WorkerEnd, Basic, WorkerTypes
    <2> QED BY <1>1, <2>1 DEF Busy
  <1>3. CASE ~WorkerEnd(w)
    <2>1. UNCHANGED task
      BY <1>3 DEF Worker, SendTest, SendLoad, SendSome, SendFails, ErrorCallback
    <2>2. Busy(w) /\ \A v \in Workers : v # w => wpc'[v] = wpc[v]
      BY <1>3 DEF Worker, SendTest, SendLoad, SendSome, SendFails, ErrorCallback, Basic,
         WorkerTypes, Busy
    <2> QED BY <1>1, <2>1, <2>2 DEF Busy
  <1> QED BY <1>2, <1>3

LEMMA OthersWait ==
    ASSUME [Next]_vars, \A w \in Workers : ~Worker(w)
    PROVE  UNCHANGED worker
  BY DEF Next, Server, Connect, Request, Close, Reset, vars, EventThread, LoopTest, EpollWait,
     EpollNothing, BatchDone, ListenEvent, AcceptFails, Refuse, Admit, PushConnection,
     ConnectionCallback, EraseConnection, CloseTest, CloseSys, Accept, ClientEvent, StopBegin,
     Stopping, StopListening, StopLock, StopCloseSys, StopClear, StopEpoll, StopJoin, StopCloseTest

LEMMA TasksStay ==
    ASSUME [Next]_vars, \A w \in Workers : ~WorkerTake(w), \A c \in Conns : ~ClientEvent(c)
    PROVE  UNCHANGED tasks
  BY DEF Next, Server, Connect, Request, Close, Reset, vars, EventThread, LoopTest, EpollWait,
     EpollNothing, BatchDone, ListenEvent, AcceptFails, Refuse, Admit, PushConnection,
     ConnectionCallback, EraseConnection, CloseTest, CloseSys, Accept, StopBegin,
     Stopping, StopListening, StopLock, StopCloseSys, StopClear, StopEpoll, StopJoin, StopCloseTest,
     Worker, SendTest, SendLoad, SendSome, SendFails, ErrorCallback, WorkerEnd

(* Only a request that is read makes a connection the business of the pool. *)
LEMMA QuietStays ==
    ASSUME Basic, [Next]_vars, NEW c \in Conns, Quiet(c)
    PROVE  Quiet(c)' \/ (ClientEvent(c) /\ HasSocket(c) /\ taken[c] < sent[c])
  <1>1. ASSUME NEW w \in Workers, WorkerTake(w) PROVE Quiet(c)'
    <2>1. tasks[1][1] # c /\ \A i \in 1..Len(tasks') : tasks'[i][1] # c
      BY <1>1, Takes DEF Quiet
    <2>2. \A v \in Workers : v # w => wpc'[v] = wpc[v] /\ task'[v] = task[v]
      BY <1>1, Takes
    <2>3. task'[w] = tasks[1]
      BY <1>1, Takes
    <2> QED BY <2>1, <2>2, <2>3 DEF Quiet, Busy
  <1>2. ASSUME NEW w \in Workers, Worker(w), ~WorkerTake(w) PROVE Quiet(c)'
    BY <1>2, Sending DEF Quiet
  <1>3. ASSUME NEW d \in Conns, ClientEvent(d),
               ~(d = c /\ HasSocket(c) /\ taken[c] < sent[c])
        PROVE  Quiet(c)'
    <2>1. UNCHANGED worker
      BY <1>3 DEF ClientEvent
    <2>2. tasks' = tasks \/ (tasks' = tasks \o Frames(d) /\ d # c)
      BY <1>3, Events
    <2>3. \A i \in 1..Len(tasks') : tasks'[i][1] # c
      BY <2>2, Submits DEF Quiet
    <2> QED BY <2>1, <2>3 DEF Quiet, Busy, worker
  <1>4. CASE /\ \A w \in Workers : ~Worker(w)
             /\ \A d \in Conns : ~ClientEvent(d)
    <2>1. UNCHANGED worker
      BY <1>4, OthersWait
    <2>2. UNCHANGED tasks
      BY <1>4, TasksStay DEF Worker
    <2> QED BY <2>1, <2>2 DEF Quiet, Busy, worker
  <1> QED BY <1>1, <1>2, <1>3, <1>4

(* A connection loses its last reference only when its descriptor is gone: *)
(* the destructors have nothing to close.                                  *)
LEMMA NothingDestroyed ==
    ASSUME Good,
           EraseConnection \/ (\E w \in Workers : WorkerEnd(w)) \/ StopClear \/ StopJoin
    PROVE  UNCHANGED <<descriptor, ready>>
  <1>1. DestroyUnreferenced
    BY DEF EraseConnection, WorkerEnd, StopClear, StopJoin
  <1>2. ASSUME NEW c \in Referenced \ Referenced', state[c] # "DISCONNECTED" PROVE FALSE
    <2>1. c \in Referenced \ tcpConnections => at = c /\ epc \in {"push", "close", "sysclose"}
      BY <1>2 DEF Good, Serving, Kept
    <2>2. epc \in {"erase", "close", "sysclose"} => at \in rpcConnections
      BY DEF Good, Serving, Kept
    <2>3. c \notin tcpConnections' \cup rpcConnections'
      BY <1>2 DEF Referenced
    <2>4. CASE EraseConnection
      <3>1. /\ epc = "erase" /\ rpcConnections' = rpcConnections
            /\ tcpConnections \ {at} \subseteq tcpConnections'
        BY <2>4 DEF EraseConnection
      <3> QED BY <2>1, <2>2, <2>3, <3>1
    <2>5. ASSUME NEW w \in Workers, WorkerEnd(w) PROVE FALSE
      <3>1. /\ UNCHANGED <<tcpConnections, rpcConnections, epc, at>>
        BY <2>5 DEF WorkerEnd, event
      <3>2. epc = "push" => at \in Referenced'
        BY <3>1 DEF Referenced
      <3> QED BY <1>2, <2>1, <2>2, <2>3, <3>1, <3>2
    <2>6. CASE StopClear
      <3>1. c \in tcpConnections
        <4>1. /\ UNCHANGED <<rpcConnections, tasks, epc, at, wpc, task>>
          BY <2>6 DEF StopClear, event, worker
        <4> QED BY <1>2, <4>1 DEF Referenced
      <3>2. Locked /\ toClose = {} /\ spc # "sysclose"
        BY <2>6 DEF StopClear, Locked
      <3> QED BY <1>2, <3>1, <3>2 DEF Good, Lists
    <2>7. CASE StopJoin
      <3>1. epc = "ended" /\ tcpConnections' = tcpConnections
        BY <2>7 DEF StopJoin
      <3> QED BY <1>2, <2>1, <2>3, <3>1
    <2> QED BY <2>4, <2>5, <2>6, <2>7
  <1>3. \A f \in Fds : descriptor'[f] = descriptor[f]
    BY <1>1, <1>2, Destroys DEF Good
  <1>4. descriptor \in [Fds -> Conns \cup {None}] /\ descriptor' \in [Fds -> Conns \cup {None}]
    BY <1>1, Destroys DEF Good, Basic, ServerTypes
  <1>5. ready' = ready
    BY <1>1, <1>2, Destroys DEF Good
  <1> QED BY <1>3, <1>4, <1>5

(* ::close of the socket of c. *)
Closed(c) ==
    /\ \A f \in Fds : descriptor'[f] = IF f = sockfd[c] THEN None ELSE descriptor[f]
    /\ \A d \in Conns : sockfd'[d] = IF d = c THEN 0 ELSE sockfd[d]

(* The steps that open and close sockets. *)
LEMMA Sockets ==
    ASSUME Good, [Next]_vars
    PROVE  \/ UNCHANGED <<descriptor, sockfd>>
           \/ \E c \in Conns : Accept(c)
           \/ (Refuse \/ Admit \/ CloseSys) /\ at \in Conns /\ Closed(at)
           \/ StopCloseSys /\ closing \in Conns /\ Closed(closing)
  <1>1. CASE Refuse
    <2>1. at \in Conns
      BY <1>1 DEF Refuse, Good, Basic, EventTypes, Handling
    <2>2. Closed(at)
      BY <1>1, <2>1 DEF Refuse, Closed, Good, Basic, ServerTypes
    <2> QED BY <1>1, <2>1, <2>2
  <1>2. CASE Admit \/ CloseSys
    <2>1. at \in Conns
      BY <1>2 DEF Admit, CloseSys, Good, Basic, EventTypes, Handling
    <2>2. CloseSocket(at) \/ UNCHANGED <<descriptor, sockfd>>
      BY <1>2 DEF Admit, CloseSys
    <2>3. CloseSocket(at) => Closed(at)
      BY <2>1, Closes DEF Closed, Good
    <2> QED BY <1>2, <2>1, <2>2, <2>3
  <1>3. CASE StopCloseSys
    <2>1. closing \in Conns /\ CloseSocket(closing)
      BY <1>3 DEF StopCloseSys, Good, Basic, StopTypes
    <2>2. Closed(closing)
      BY <2>1, Closes DEF Closed, Good
    <2> QED BY <1>3, <2>1, <2>2
  <1>4. CASE EraseConnection \/ (\E w \in Workers : WorkerEnd(w)) \/ StopClear \/ StopJoin
    <2>1. UNCHANGED sockfd
      BY <1>4 DEF EraseConnection, WorkerEnd, StopClear, StopJoin, objects
    <2> QED BY <1>4, <2>1, NothingDestroyed
  <1>5. CASE LoopTest \/ EpollWait \/ EpollNothing \/ BatchDone \/ ListenEvent \/ AcceptFails
             \/ PushConnection \/ ConnectionCallback \/ CloseTest
             \/ (\E c \in Conns : ClientEvent(c))
    BY <1>5 DEF LoopTest, EpollWait, EpollNothing, BatchDone, ListenEvent, AcceptFails,
       PushConnection, ConnectionCallback, CloseTest, ClientEvent, kernel, objects
  <1>6. CASE StopBegin \/ StopListening \/ StopLock \/ StopEpoll
             \/ (\E c \in Conns : StopCloseTest(c))
    BY <1>6 DEF StopBegin, StopListening, StopLock, StopEpoll, StopCloseTest, kernel, objects
  <1>7. ASSUME NEW w \in Workers, Worker(w), ~WorkerEnd(w) PROVE UNCHANGED <<descriptor, sockfd>>
    BY <1>7 DEF Worker, WorkerTake, SendTest, SendLoad, SendSome, SendFails, ErrorCallback, kernel,
       objects
  <1>8. CASE \E c \in Conns : Connect(c) \/ Request(c) \/ Close(c) \/ Reset(c)
    BY <1>8 DEF Connect, Request, Close, Reset, objects
  <1>9. CASE UNCHANGED vars
    BY <1>9 DEF vars, kernel, objects
  <1>10. ASSUME NEW w \in Workers, Worker(w) PROVE UNCHANGED <<descriptor, sockfd>>
    BY <1>4, <1>7, <1>10, NothingDestroyed DEF WorkerEnd, objects
  <1> QED BY <1>1, <1>2, <1>3, <1>4, <1>5, <1>6, <1>8, <1>9, <1>10
          DEF Next, Server, EventThread, Stopping

LEMMA ClosedSocket ==
    ASSUME Good, NEW c \in Conns, Closed(c)
    PROVE  ~HasSocket(c)' /\ \A d \in Conns : d # c => (HasSocket(d)' <=> HasSocket(d))
  <1>1. \A f \in Fds : descriptor[f] = c => sockfd[c] = f
    BY ServerAssumption DEF Good, Known
  <1>2. ~HasSocket(c)'
    BY <1>1, ServerAssumption DEF Closed, HasSocket
  <1>3. ASSUME NEW d \in Conns, d # c PROVE HasSocket(d)' <=> HasSocket(d)
    <2>1. HasSocket(d)' => HasSocket(d)
      BY ServerAssumption DEF Closed, HasSocket
    <2>2. ASSUME NEW f \in Fds, descriptor[f] = d PROVE HasSocket(d)'
      <3>1. sockfd[c] # 0 => descriptor[sockfd[c]] = c
        BY DEF Good, Serving, Own
      <3>2. f # sockfd[c]
        BY <1>3, <2>2, <3>1 DEF Fds
      <3>3. descriptor'[f] = d
        BY <2>2, <3>2 DEF Closed
      <3> QED BY <3>3 DEF HasSocket
    <2> QED BY <2>1, <2>2 DEF HasSocket
  <1> QED BY <1>2, <1>3

LEMMA SocketsStay ==
    ASSUME Good, [Next]_vars, NEW c \in Conns, HasSocket(c)'
    PROVE  HasSocket(c) \/ Accept(c)
  <1>1. CASE UNCHANGED <<descriptor, sockfd>>
    BY <1>1 DEF HasSocket
  <1>2. ASSUME NEW d \in Conns, Accept(d) PROVE HasSocket(c) \/ Accept(c)
    BY <1>2, Accepts DEF Good
  <1>3. ASSUME NEW d \in Conns, Closed(d) PROVE HasSocket(c)
    BY <1>3, ClosedSocket
  <1> QED BY <1>1, <1>2, <1>3, Sockets

-----------------------------------------------------------------------------
(* One request after the other *)

LEMMA CountersStay ==
    ASSUME [Next]_vars, \A c \in Conns : ~Request(c) /\ ~ClientEvent(c),
           \A w \in Workers : \A n \in 1..Units : ~SendSome(w, n)
    PROVE  UNCHANGED <<sent, taken, received>>
  BY DEF Next, Server, Connect, Close, Reset, vars, EventThread, LoopTest, EpollWait,
     EpollNothing, BatchDone, ListenEvent, AcceptFails, Refuse, Admit, PushConnection,
     ConnectionCallback, EraseConnection, CloseTest, CloseSys, Accept, StopBegin, Stopping,
     StopListening, StopLock, StopCloseSys, StopClear, StopEpoll, StopJoin, StopCloseTest, Worker,
     WorkerTake, SendTest, SendLoad, SendFails, ErrorCallback, WorkerEnd, peers, kernel

LEMMA Asks ==
    ASSUME Waiting, Good, NEW c \in Conns, Request(c)
    PROVE  /\ taken[c] = sent[c] /\ Len(received[c]) = taken[c] * Units /\ Quiet(c)
           /\ UNCHANGED <<taken, received, tasks, worker>> /\ peer[c] = "open"
           /\ \A d \in Conns : sent'[d] = IF d = c THEN sent[c] + 1 ELSE sent[d]
  <1>1. sent[c] - Answered(c) < 1 /\ sent[c] \in Nat
    BY DEF Request, Waiting, Good, Basic, ClientTypes
  <1>2. Answered(c) \in Int
    <2> DEFINE L == Len(received[c])
    <2>1. L \in Nat /\ Units \in Nat \ {0}
      BY ServerAssumption, LenProperties DEF Good, Basic, ClientTypes
    <2>2. L \div Units \in Int
      <3> HIDE DEF L
      <3> QED BY <2>1
    <2> QED BY <2>2 DEF Answered
  <1>3. Answered(c) >= sent[c]
    <2> DEFINE a == Answered(c)
               s == sent[c]
    <2>1. s - a < 1 /\ s \in Nat /\ a \in Int
      BY <1>1, <1>2
    <2> HIDE DEF a, s
    <2>2. a >= s
      BY <2>1
    <2> QED BY <2>2 DEF a, s
  <1>4. \A d \in Conns : sent'[d] = IF d = c THEN sent[c] + 1 ELSE sent[d]
    BY DEF Request, Good, Basic, ClientTypes
  <1> QED BY <1>3, <1>4, Satisfied DEF Request

(* The frames of an event are one request of a client that waits. *)
LEMMA Reads ==
    ASSUME Good, NEW c \in Conns, ClientEvent(c)
    PROVE  /\ Quiet(c) /\ c \in Referenced /\ UNCHANGED <<crashed, received, worker, sent>>
           /\ \/ /\ HasSocket(c) /\ sent[c] = taken[c] + 1 /\ epc' = "next"
                 /\ Len(received[c]) = taken[c] * Units /\ taken' = [taken EXCEPT ![c] = sent[c]]
                 /\ Len(tasks) \in Nat /\ Len(tasks') = Len(tasks) + 1
                 /\ \A i \in 1..Len(tasks') :
                       \/ i \in 1..Len(tasks) /\ tasks'[i] = tasks[i]
                       \/ i = Len(tasks) + 1 /\ tasks'[i] = <<c, sent[c]>>
              \/ UNCHANGED <<tasks, taken>> /\ ~(HasSocket(c) /\ taken[c] < sent[c])
  <1>1. c \in batch /\ epc = "next" /\ UNCHANGED <<received, worker, sent>>
    BY DEF ClientEvent, peers
  <1>2. Quiet(c)
    BY <1>1 DEF Good, Serving, Pending
  <1>3. c \in Referenced
    BY <1>1 DEF Good, Serving, Kept, Referenced
  <1>4. crashed' = crashed
    BY <1>3, Events DEF Good
  <1>5. CASE HasSocket(c) /\ taken[c] < sent[c]
    <2>1. /\ tasks' = tasks \o Frames(c) /\ taken' = [taken EXCEPT ![c] = sent[c]]
      BY <1>3, <1>5, Events DEF Good
    <2>2. sent[c] = taken[c] + 1 /\ Len(received[c]) = taken[c] * Units
      BY <1>5 DEF Good, Serving, Turns
    <2>3. taken[c] \in Nat /\ sent[c] - taken[c] = 1
      <3>1. taken[c] \in Nat
        BY DEF Good, Basic, ClientTypes
      <3> QED BY <2>2, <3>1
    <2>4. /\ Len(tasks) \in Nat /\ Len(tasks') = Len(tasks) + 1
          /\ \A i \in 1..Len(tasks') :
                 \/ i \in 1..Len(tasks) /\ tasks'[i] = tasks[i]
                 \/ i > Len(tasks) /\ tasks'[i] = <<c, taken[c] + (i - Len(tasks))>>
      BY <2>1, <2>3, Submits DEF Good
    <2>5. ASSUME NEW i \in 1..Len(tasks'), i > Len(tasks) PROVE i = Len(tasks) + 1
      BY <2>4, <2>5
    <2>6. ASSUME NEW i \in 1..Len(tasks')
          PROVE  \/ i \in 1..Len(tasks) /\ tasks'[i] = tasks[i]
                 \/ i = Len(tasks) + 1 /\ tasks'[i] = <<c, sent[c]>>
      <3>1. taken[c] + (Len(tasks) + 1 - Len(tasks)) = sent[c]
        BY <2>2, <2>3, <2>4
      <3>2. CASE i > Len(tasks)
        <4>1. i = Len(tasks) + 1 /\ ~(i \in 1..Len(tasks))
          BY <2>4, <2>5, <3>2
        <4> QED BY <2>4, <3>1, <4>1
      <3> QED BY <2>4, <3>2
    <2>7. epc' = "next"
      <3>1. c \notin hangups
        BY DEF Good, Serving, Own
      <3>2. closes' = 0
        BY <1>3, <1>5, <3>1 DEF ClientEvent
      <3>3. epc' = IF closes' > 0 THEN "erase" ELSE "next"
        BY <1>3 DEF ClientEvent
      <3> QED BY <3>2, <3>3
    <2> QED BY <1>1, <1>2, <1>3, <1>4, <1>5, <2>1, <2>2, <2>4, <2>6, <2>7
  <1>6. CASE ~(HasSocket(c) /\ taken[c] < sent[c])
    <2>1. UNCHANGED <<tasks, taken>>
      BY <1>3, <1>6, Events DEF Good
    <2> QED BY <1>1, <1>2, <1>3, <1>4, <1>6, <2>1
  <1> QED BY <1>5, <1>6

(* The descriptor that a worker sends on is that of its own connection. *)
LEMMA Answers ==
    ASSUME Good, NEW w \in Workers, NEW n \in 1..Units, SendSome(w, n)
    PROVE  /\ task[w][1] \in Conns /\ Busy(w) /\ task[w][2] = taken[task[w][1]]
           /\ taken[task[w][1]] = sent[task[w][1]] /\ taken[task[w][1]] \in Nat \ {0}
           /\ done[w] \in Nat /\ n \in Nat \ {0} /\ done[w] + n <= Units
           /\ Len(received[task[w][1]]) = (taken[task[w][1]] - 1) * Units + done[w]
           /\ \A d \in Conns : received'[d] = IF d = task[w][1]
                                              THEN received[d] \o Piece(task[w], done[w], n)
                                              ELSE received[d]
           /\ Piece(task[w], done[w], n) \in Seq(Pieces) /\ Len(Piece(task[w], done[w], n)) = n
           /\ \A k \in 1..n : Piece(task[w], done[w], n)[k]
                                  = <<task[w][1], taken[task[w][1]], done[w] + k>>
           /\ done' = [done EXCEPT ![w] = done[w] + n] /\ UNCHANGED <<sent, taken, tasks, task>>
           /\ wpc' = [wpc EXCEPT ![w] = IF done[w] + n = Units THEN "end" ELSE "load"]
  <1> DEFINE c == task[w][1]
  <1>1. /\ task[w] \in Requests /\ Target(w) \in Conns /\ fd[w] \in Fds
        /\ descriptor[fd[w]] = Target(w) /\ done[w] \in 0..Units /\ n \in 1 .. Units - done[w]
        /\ Piece(task[w], done[w], n) \in Seq(Pieces) /\ Len(Piece(task[w], done[w], n)) = n
        /\ \A k \in 1..n : Piece(task[w], done[w], n)[k] = <<task[w][1], task[w][2], done[w] + k>>
        /\ received' = IF peer[Target(w)] = "open"
                       THEN [received EXCEPT ![Target(w)] = @ \o Piece(task[w], done[w], n)]
                       ELSE received
        /\ done' = [done EXCEPT ![w] = done[w] + n]
    BY Sends DEF Good
  <1>2. c \in Conns /\ Busy(w) /\ wpc[w] = "send"
    BY <1>1 DEF Requests, SendSome, Busy
  <1>3. Target(w) = c
    <2>1. fd[w] # 0 /\ Target(w) # None
      BY <1>1, ServerAssumption DEF Fds
    <2>2. fd[w] = sockfd[c]
      BY <1>1, <1>2, <2>1 DEF Good, Serving, Own
    <2>3. descriptor[sockfd[c]] = c
      BY <1>2, <2>1, <2>2 DEF Good, Serving, Own
    <2> QED BY <1>1, <2>2, <2>3
  <1>4. peer[c] = "open"
    <2>1. HasSocket(c) /\ ~Quiet(c)
      BY <1>1, <1>2, <1>3 DEF HasSocket, Quiet
    <2> QED BY <1>2, <2>1 DEF Good, Serving, Stays
  <1>5. /\ task[w][2] = taken[c] /\ taken[c] = sent[c]
        /\ Len(received[c]) = (taken[c] - 1) * Units + done[w]
    BY <1>2 DEF Good, Serving, Working
  <1>6. taken[c] \in Nat \ {0}
    BY <1>1, <1>5, ServerAssumption DEF Requests
  <1>7. \A d \in Conns : received'[d] = IF d = c THEN received[d] \o Piece(task[w], done[w], n)
                                                 ELSE received[d]
    BY <1>1, <1>2, <1>3, <1>4 DEF Good, Basic, ClientTypes
  <1>8. done[w] \in Nat /\ n \in Nat \ {0} /\ done[w] + n <= Units
    BY <1>1, ServerAssumption
  <1>9. /\ wpc' = [wpc EXCEPT ![w] = IF done[w] + n = Units THEN "end" ELSE "load"]
        /\ UNCHANGED <<sent, taken, tasks, task>>
    BY DEF SendSome, peers
  <1> QED BY <1>1, <1>2, <1>5, <1>6, <1>7, <1>8, <1>9

(* How much has been received then. *)
LEMMA AnswersMore ==
    ASSUME Good, NEW w \in Workers, NEW n \in 1..Units, SendSome(w, n)
    PROVE  /\ Len(received'[task[w][1]]) = (taken[task[w][1]] - 1) * Units + (done[w] + n)
           /\ Len(received'[task[w][1]]) = Len(received[task[w][1]]) + n
           /\ Len(received[task[w][1]]) \in Nat
           /\ \A i \in 1..Len(received'[task[w][1]]) : received'[task[w][1]][i] =
                 IF i <= Len(received[task[w][1]]) THEN received[task[w][1]][i]
                 ELSE <<task[w][1], taken[task[w][1]],
                        done[w] + (i - Len(received[task[w][1]]))>>
  <1> DEFINE c == task[w][1]
             p == Piece(task[w], done[w], n)
             r == received[c]
             y == (taken[c] - 1) * Units
  <1>1. /\ c \in Conns /\ received'[c] = r \o p /\ p \in Seq(Pieces) /\ Len(p) = n
        /\ Len(r) = y + done[w] /\ done[w] \in Nat /\ n \in Nat \ {0} /\ taken[c] \in Nat \ {0}
        /\ \A k \in 1..n : p[k] = <<c, taken[c], done[w] + k>>
    BY Answers
  <1>2. r \in Seq(Pieces) /\ Len(r) \in Nat
    BY <1>1, LenProperties DEF Good, Basic, ClientTypes, Pieces
  <1>3. Len(r \o p) = Len(r) + n
        /\ \A i \in 1 .. Len(r) + n : (r \o p)[i] = IF i <= Len(r) THEN r[i] ELSE p[i - Len(r)]
    <2> HIDE DEF r, p
    <2> QED BY <1>1, <1>2, ConcatProperties
  <1>4. y \in Int
    BY <1>1, ServerAssumption
  <1>5. Len(r) + n = y + (done[w] + n)
    <2> HIDE DEF y, r
    <2> QED BY <1>1, <1>4
  <1>6. ASSUME NEW i \in 1 .. Len(r) + n
        PROVE  (r \o p)[i] = IF i <= Len(r) THEN r[i] ELSE <<c, taken[c], done[w] + (i - Len(r))>>
    <2>1. ~(i <= Len(r)) => i - Len(r) \in 1..n
      <3> DEFINE l == Len(r)
      <3>1. l \in Nat /\ n \in Nat /\ i \in 1 .. l + n
        BY <1>1, <1>2
      <3> HIDE DEF l, r
      <3>2. ~(i <= l) => i - l \in 1..n
        BY <3>1
      <3> QED BY <3>2 DEF l
    <2> QED BY <1>1, <1>3, <2>1
  <1> QED BY <1>1, <1>2, <1>3, <1>5, <1>6

LEMMA TurnsStep ==
    ASSUME Waiting, Good, [Next]_vars
    PROVE  Turns'
  <1>1. Turns
    BY DEF Good, Serving
  <1>2. ASSUME NEW c \in Conns, Request(c) PROVE Turns'
    <2>1. /\ taken[c] = sent[c] /\ Len(received[c]) = taken[c] * Units
          /\ UNCHANGED <<taken, received>>
          /\ \A d \in Conns : sent'[d] = IF d = c THEN sent[c] + 1 ELSE sent[d]
      BY <1>2, Asks
    <2> QED BY <1>1, <2>1 DEF Turns
  <1>3. ASSUME NEW c \in Conns, ClientEvent(c) PROVE Turns'
    <2>1. CASE UNCHANGED taken
      BY <1>1, <1>3, <2>1, Reads DEF Turns
    <2>2. CASE ~UNCHANGED taken
      <3>1. /\ UNCHANGED <<received, sent>> /\ taken' = [taken EXCEPT ![c] = sent[c]]
            /\ sent[c] = taken[c] + 1 /\ Len(received[c]) = taken[c] * Units
        BY <1>3, <2>2, Reads
      <3>2. \A d \in Conns : taken'[d] = IF d = c THEN sent[c] ELSE taken[d]
        BY <3>1 DEF Good, Basic, ClientTypes
      <3>3. taken[c] * Units <= sent[c] * Units /\ ~(sent[c] < sent[c])
        <4>1. taken[c] \in Nat /\ sent[c] \in Nat /\ sent[c] - 1 = taken[c]
          <5>1. taken[c] \in Nat
            BY DEF Good, Basic, ClientTypes
          <5> QED BY <3>1, <5>1
        <4>2. (sent[c] - 1) * Units + Units = sent[c] * Units /\ taken[c] * Units \in Nat
          BY <4>1, Multiples
        <4> DEFINE x == taken[c] * Units
                   y == sent[c] * Units
        <4>3. x + Units = y /\ x \in Nat
          BY <4>1, <4>2
        <4> HIDE DEF x, y
        <4>4. x <= y
          BY <4>3, ServerAssumption
        <4> QED BY <4>1, <4>4 DEF x, y
      <3> QED BY <1>1, <3>1, <3>2, <3>3 DEF Turns
    <2> QED BY <2>1, <2>2
  <1>4. ASSUME NEW w \in Workers, NEW n \in 1..Units, SendSome(w, n) PROVE Turns'
    <2> DEFINE c == task[w][1]
    <2>1. /\ c \in Conns /\ UNCHANGED <<sent, taken>> /\ taken[c] = sent[c] /\ taken[c] \in Nat
          /\ \A d \in Conns : d # c => received'[d] = received[d]
          /\ Len(received'[c]) = (taken[c] - 1) * Units + (done[w] + n)
          /\ done[w] + n <= Units /\ done[w] \in Nat /\ n \in Nat
      BY <1>4, Answers, AnswersMore
    <2>2. Len(received'[c]) <= taken[c] * Units /\ ~(taken[c] < sent[c])
      <3>1. (taken[c] - 1) * Units + Units = taken[c] * Units /\ taken[c] * Units \in Nat
        BY <2>1, Multiples
      <3> DEFINE x == (taken[c] - 1) * Units
                 y == taken[c] * Units
                 m == done[w] + n
      <3>2. x + Units = y /\ y \in Nat /\ m <= Units /\ m \in Nat /\ Len(received'[c]) = x + m
            /\ x \in Int
        BY SMTT(30), <2>1, <3>1, ServerAssumption
      <3> HIDE DEF x, y, m, c
      <3>3. Len(received'[c]) <= y
        BY <3>2, ServerAssumption
      <3> QED BY <2>1, <3>3 DEF y
    <2> HIDE DEF c
    <2> QED BY <1>1, <2>1, <2>2 DEF Turns
  <1>5. CASE UNCHANGED <<sent, taken, received>>
    BY <1>1, <1>5 DEF Turns
  <1> QED BY <1>2, <1>3, <1>4, <1>5, CountersStay

LEMMA QueueAlone ==
    ASSUME Queue, UNCHANGED tasks,
           \A i \in 1..Len(tasks) : LET c == tasks[i][1] IN
               taken'[c] = taken[c] /\ sent'[c] = sent[c] /\ received'[c] = received[c],
           \A v \in Workers : Busy(v)' => Busy(v) /\ task'[v] = task[v]
    PROVE  Queue'
  BY DEF Queue

LEMMA QueueStep ==
    ASSUME Waiting, Good, [Next]_vars
    PROVE  Queue'
  <1>1. Queue
    BY DEF Good, Serving
  <1>2. \A i \in 1..Len(tasks) : tasks[i] \in Requests /\ tasks[i][1] \in Conns
    <2>1. tasks \in Seq(Requests)
      BY DEF Good, Basic, ServerTypes
    <2> QED BY <2>1, ElementOfSeq DEF Requests
  <1>3. ASSUME NEW c \in Conns, Request(c) PROVE Queue'
    <2>1. /\ Quiet(c) /\ UNCHANGED <<taken, received, tasks, worker>>
          /\ \A d \in Conns : sent'[d] = IF d = c THEN sent[c] + 1 ELSE sent[d]
      BY <1>3, Asks
    <2>2. \A i \in 1..Len(tasks) : sent'[tasks[i][1]] = sent[tasks[i][1]]
      BY <1>2, <2>1 DEF Quiet
    <2> QED BY <1>1, <2>1, <2>2, QueueAlone DEF Busy, worker
  <1>4. ASSUME NEW c \in Conns, ClientEvent(c) PROVE Queue'
    <2>1. CASE UNCHANGED <<tasks, taken>>
      BY <1>1, <1>4, <2>1, Reads, QueueAlone DEF Busy, worker
    <2>2. CASE ~UNCHANGED <<tasks, taken>>
      <3>1. /\ Quiet(c) /\ UNCHANGED <<received, worker, sent>> /\ sent[c] = taken[c] + 1
            /\ Len(received[c]) = taken[c] * Units /\ taken' = [taken EXCEPT ![c] = sent[c]]
            /\ \A i \in 1..Len(tasks') : \/ i \in 1..Len(tasks) /\ tasks'[i] = tasks[i]
                                         \/ i = Len(tasks) + 1 /\ tasks'[i] = <<c, sent[c]>>
            /\ Len(tasks) \in Nat
        BY <1>4, <2>2, Reads
      <3>2. \A d \in Conns : taken'[d] = IF d = c THEN sent[c] ELSE taken[d]
        BY <3>1 DEF Good, Basic, ClientTypes
      <3>3. sent[c] - 1 = taken[c]
        <4>1. taken[c] \in Nat
          BY DEF Good, Basic, ClientTypes
        <4> QED BY <3>1, <4>1
      <3>4. Len(received[c]) = (sent[c] - 1) * Units
        BY <3>1, <3>3
      <3>5. \A w \in Workers : Busy(w)' => task'[w][1] # c
        BY <3>1 DEF Quiet, Busy, worker
      <3>6. ASSUME NEW i \in 1..Len(tasks') PROVE
               /\ tasks'[i][2] = taken'[tasks'[i][1]] /\ taken'[tasks'[i][1]] = sent'[tasks'[i][1]]
               /\ Len(received'[tasks'[i][1]]) = (taken'[tasks'[i][1]] - 1) * Units
               /\ \A w \in Workers : Busy(w)' => task'[w][1] # tasks'[i][1]
        <4>1. CASE i \in 1..Len(tasks) /\ tasks'[i] = tasks[i]
          <5>1. tasks[i][1] # c /\ tasks[i][1] \in Conns
            BY <1>2, <3>1, <4>1 DEF Quiet
          <5>2. taken'[tasks[i][1]] = taken[tasks[i][1]]
            BY <3>2, <5>1
          <5>3. \A w \in Workers : Busy(w)' => task'[w][1] # tasks[i][1]
            BY <1>1, <3>1, <4>1 DEF Queue, Busy, worker
          <5> QED BY <1>1, <3>1, <4>1, <5>2, <5>3 DEF Queue
        <4>2. CASE tasks'[i] = <<c, sent[c]>>
          BY <3>1, <3>2, <3>4, <3>5, <4>2
        <4> QED BY <3>1, <4>1, <4>2
      <3>7. ASSUME NEW i \in 1..Len(tasks'), NEW j \in 1..Len(tasks'), tasks'[i][1] = tasks'[j][1]
            PROVE  i = j
        <4>1. \A k \in 1..Len(tasks) : tasks[k][1] # c
          BY <3>1 DEF Quiet
        <4> QED BY SMTT(30), <1>1, <3>1, <3>7, <4>1 DEF Queue
      <3> QED BY <3>6, <3>7 DEF Queue
    <2> QED BY <2>1, <2>2
  <1>5. ASSUME NEW w \in Workers, WorkerTake(w) PROVE Queue'
    <2>1. /\ Len(tasks) \in Nat /\ Len(tasks') = Len(tasks) - 1 /\ 1 \in 1..Len(tasks)
          /\ \A i \in 1..Len(tasks') : i + 1 \in 1..Len(tasks) /\ tasks'[i] = tasks[i + 1]
          /\ \A v \in Workers : /\ task'[v] = IF v = w THEN tasks[1] ELSE task[v]
                                /\ wpc'[v] = IF v = w THEN "handle" ELSE wpc[v]
      BY <1>5, Takes DEF Good
    <2>2. UNCHANGED <<taken, sent, received>>
      BY <1>5 DEF WorkerTake, peers, kernel
    <2>3. \A i \in 1..Len(tasks') : i + 1 # 1
      BY <2>1
    <2>4. \A i \in 1..Len(tasks') : tasks[i + 1][1] # tasks[1][1]
      BY <1>1, <2>1, <2>3 DEF Queue
    <2>5. ASSUME NEW i \in 1..Len(tasks'), NEW v \in Workers, Busy(v)'
          PROVE  task'[v][1] # tasks[i + 1][1]
      <3>1. CASE v = w
        BY <2>1, <2>4, <3>1
      <3>2. CASE v # w
        BY SMTT(30), <1>1, <2>1, <2>5, <3>2 DEF Queue, Busy
      <3> QED BY <3>1, <3>2
    <2>6. ASSUME NEW i \in 1..Len(tasks'), NEW j \in 1..Len(tasks'), tasks'[i][1] = tasks'[j][1]
          PROVE  i = j
      <3>1. i + 1 = j + 1
        BY <1>1, <2>1, <2>6 DEF Queue
      <3> QED BY <3>1
    <2>7. ASSUME NEW i \in 1..Len(tasks') PROVE
               /\ tasks'[i][2] = taken'[tasks'[i][1]] /\ taken'[tasks'[i][1]] = sent'[tasks'[i][1]]
               /\ Len(received'[tasks'[i][1]]) = (taken'[tasks'[i][1]] - 1) * Units
               /\ \A v \in Workers : Busy(v)' => task'[v][1] # tasks'[i][1]
      <3>1. i + 1 \in 1..Len(tasks) /\ tasks'[i] = tasks[i + 1]
        BY <2>1
      <3>2. /\ tasks[i + 1][2] = taken[tasks[i + 1][1]]
            /\ taken[tasks[i + 1][1]] = sent[tasks[i + 1][1]]
            /\ Len(received[tasks[i + 1][1]]) = (taken[tasks[i + 1][1]] - 1) * Units
        BY <1>1, <3>1 DEF Queue
      <3> QED BY <2>2, <2>5, <3>1, <3>2
    <2> QED BY <2>6, <2>7 DEF Queue
  <1>6. ASSUME NEW w \in Workers, NEW n \in 1..Units, SendSome(w, n) PROVE Queue'
    <2>1. /\ Busy(w) /\ UNCHANGED <<sent, taken, tasks>>
          /\ \A d \in Conns : d # task[w][1] => received'[d] = received[d]
      BY <1>6, Answers
    <2>2. \A i \in 1..Len(tasks) : tasks[i][1] # task[w][1]
      BY <1>1, <2>1 DEF Queue
    <2>3. \A i \in 1..Len(tasks) : received'[tasks[i][1]] = received[tasks[i][1]]
      BY <1>2, <2>1, <2>2
    <2>4. Worker(w) /\ ~WorkerTake(w)
      BY <1>6 DEF Worker, WorkerTake, SendSome
    <2>5. \A v \in Workers : Busy(v)' => Busy(v) /\ task'[v] = task[v]
      BY <2>4, Sending DEF Good
    <2> QED BY <1>1, <2>1, <2>3, <2>5, QueueAlone
  <1>7. CASE /\ UNCHANGED <<sent, taken, received>>
             /\ \A w \in Workers : ~WorkerTake(w)
             /\ \A c \in Conns : ~ClientEvent(c)
    <2>1. UNCHANGED tasks
      BY <1>7, TasksStay
    <2>2. \A v \in Workers : Busy(v)' => Busy(v) /\ task'[v] = task[v]
      <3>1. ASSUME NEW w \in Workers, Worker(w)
            PROVE  \A v \in Workers : Busy(v)' => Busy(v) /\ task'[v] = task[v]
        BY <1>7, <3>1, Sending DEF Good
      <3>2. CASE \A w \in Workers : ~Worker(w)
        BY <3>2, OthersWait DEF Busy, worker
      <3> QED BY <3>1, <3>2
    <2> QED BY <1>1, <1>7, <2>1, <2>2, QueueAlone
  <1> QED BY <1>3, <1>4, <1>5, <1>6, <1>7, CountersStay

LEMMA WorkingAlone ==
    ASSUME Working,
           \A v \in Workers : Busy(v)' => LET c == task[v][1] IN
               /\ Busy(v) /\ task'[v] = task[v] /\ done'[v] = done[v]
               /\ taken'[c] = taken[c] /\ sent'[c] = sent[c] /\ received'[c] = received[c],
           \A v \in Workers : wpc'[v] \in {"idle", "handle"} => done'[v] = 0
    PROVE  Working'
  BY DEF Working

LEMMA WorkingStep ==
    ASSUME Waiting, Good, [Next]_vars
    PROVE  Working'
  <1>1. Working
    BY DEF Good, Serving
  <1>2. \A v \in Workers : Busy(v) => task[v] \in Requests /\ task[v][1] \in Conns
    BY DEF Good, Basic, WorkerTypes, Requests, Busy
  <1>3. \A v \in Workers : wpc[v] \in {"idle", "handle"} => done[v] = 0
    BY <1>1 DEF Working
  <1>4. ASSUME NEW c \in Conns, Request(c) PROVE Working'
    <2>1. /\ Quiet(c) /\ UNCHANGED <<taken, received, worker>>
          /\ \A d \in Conns : sent'[d] = IF d = c THEN sent[c] + 1 ELSE sent[d]
      BY <1>4, Asks
    <2>2. \A v \in Workers : Busy(v) => sent'[task[v][1]] = sent[task[v][1]]
      BY <1>2, <2>1 DEF Quiet
    <2> QED BY <1>1, <1>3, <2>1, <2>2, WorkingAlone DEF Busy, worker
  <1>5. ASSUME NEW c \in Conns, ClientEvent(c) PROVE Working'
    <2>1. /\ Quiet(c) /\ UNCHANGED <<received, worker, sent>>
          /\ taken' = taken \/ taken' = [taken EXCEPT ![c] = sent[c]]
      BY <1>5, Reads
    <2>2. \A v \in Workers : Busy(v) => taken'[task[v][1]] = taken[task[v][1]]
      BY <1>2, <2>1 DEF Quiet, Good, Basic, ClientTypes
    <2> QED BY <1>1, <1>3, <2>1, <2>2, WorkingAlone DEF Busy, worker
  <1>6. ASSUME NEW w \in Workers, WorkerTake(w) PROVE Working'
    <2>1. /\ 1 \in 1..Len(tasks) /\ wpc[w] = "idle" /\ UNCHANGED done
          /\ \A v \in Workers : /\ task'[v] = IF v = w THEN tasks[1] ELSE task[v]
                                /\ wpc'[v] = IF v = w THEN "handle" ELSE wpc[v]
      BY <1>6, Takes DEF Good
    <2>2. UNCHANGED <<taken, sent, received>>
      BY <1>6 DEF WorkerTake, peers, kernel
    <2> DEFINE c == tasks[1][1]
    <2>3. /\ tasks[1][2] = taken[c] /\ taken[c] = sent[c]
          /\ Len(received[c]) = (taken[c] - 1) * Units
          /\ \A v \in Workers : Busy(v) => task[v][1] # c
      BY <2>1 DEF Good, Serving, Queue
    <2>4. done[w] = 0 /\ 0 < Units /\ Len(received[c]) = (taken[c] - 1) * Units + 0
      <3>1. c \in Conns
        BY <2>1, ElementOfSeq DEF Good, Basic, ServerTypes, Requests
      <3>2. taken[c] \in Nat
        BY <3>1 DEF Good, Basic, ClientTypes
      <3> DEFINE y == (taken[c] - 1) * Units
      <3>3. y \in Int /\ Len(received[c]) = y
        BY <2>3, <3>2, ServerAssumption
      <3> HIDE DEF y, c
      <3>4. Len(received[c]) = y + 0
        BY <3>3
      <3> QED BY <1>3, <2>1, <3>4, ServerAssumption DEF y
    <2> HIDE DEF c
    <2>5. \A v \in Workers : Busy(v)' => v = w \/ (Busy(v) /\ v # w)
      BY <2>1 DEF Busy
    <2>6. \A v \in Workers : v = w => task'[v][1] = c /\ task'[v][2] = tasks[1][2]
      BY <2>1 DEF c
    <2>7. ASSUME NEW v \in Workers, Busy(v)' PROVE
               /\ task'[v][2] = taken'[task'[v][1]] /\ taken'[task'[v][1]] = sent'[task'[v][1]]
               /\ Len(received'[task'[v][1]]) = (taken'[task'[v][1]] - 1) * Units + done'[v]
               /\ done'[v] < Units
      <3>1. CASE v = w
        BY <2>1, <2>2, <2>3, <2>4, <2>6, <3>1
      <3>2. CASE v # w
        BY <1>1, <2>1, <2>2, <2>5, <2>7, <3>2 DEF Working
      <3> QED BY <3>1, <3>2
    <2>8. ASSUME NEW u \in Workers, NEW v \in Workers, Busy(u)', Busy(v)',
                 task'[u][1] = task'[v][1]
          PROVE  u = v
      <3>1. \A x \in Workers : Busy(x)' /\ x # w => Busy(x) /\ task'[x] = task[x] /\ task[x][1] # c
        BY <2>1, <2>3, <2>5
      <3>2. task'[w][1] = c
        BY <2>6
      <3> QED BY <1>1, <2>8, <3>1, <3>2 DEF Working
    <2>9. \A v \in Workers : wpc'[v] \in {"idle", "handle"} => done'[v] = 0
      BY <1>3, <2>1, <2>4
    <2> QED BY <2>7, <2>8, <2>9 DEF Working
  <1>7. ASSUME NEW w \in Workers, NEW n \in 1..Units, SendSome(w, n) PROVE Working'
    <2> DEFINE c == task[w][1]
    <2>1. /\ c \in Conns /\ Busy(w) /\ UNCHANGED <<sent, taken, task>>
          /\ \A d \in Conns : d # c => received'[d] = received[d]
          /\ Len(received'[c]) = (taken[c] - 1) * Units + (done[w] + n)
          /\ done[w] + n <= Units /\ done[w] \in Nat /\ n \in Nat
          /\ done' = [done EXCEPT ![w] = done[w] + n]
          /\ wpc' = [wpc EXCEPT ![w] = IF done[w] + n = Units THEN "end" ELSE "load"]
      BY <1>7, Answers, AnswersMore
    <2>2. \A v \in Workers :
             /\ done'[v] = IF v = w THEN done[w] + n ELSE done[v]
             /\ wpc'[v] = IF v = w THEN (IF done[w] + n = Units THEN "end" ELSE "load") ELSE wpc[v]
      BY <2>1 DEF Good, Basic, WorkerTypes
    <2>3. \A v \in Workers : Busy(v)' => Busy(v) /\ (v = w => done[w] + n # Units)
      BY <2>1, <2>2 DEF Busy
    <2>4. \A v \in Workers : Busy(v) /\ v # w => task[v][1] # c
      BY <1>1, <2>1 DEF Working
    <2>5. ASSUME NEW v \in Workers, Busy(v)' PROVE
               /\ task'[v][2] = taken'[task'[v][1]] /\ taken'[task'[v][1]] = sent'[task'[v][1]]
               /\ Len(received'[task'[v][1]]) = (taken'[task'[v][1]] - 1) * Units + done'[v]
               /\ done'[v] < Units
      <3>1. CASE v = w
        <4>1. done[w] + n < Units
          BY <2>1, <2>3, <2>5, <3>1, ServerAssumption
        <4> QED BY <1>1, <2>1, <2>2, <3>1, <4>1 DEF Working
      <3>2. CASE v # w
        <4>1. Busy(v) /\ task[v][1] # c /\ task[v][1] \in Conns
          BY <1>2, <2>3, <2>4, <2>5, <3>2
        <4> QED BY <1>1, <2>1, <2>2, <3>2, <4>1 DEF Working
      <3> QED BY <3>1, <3>2
    <2>6. \A u, v \in Workers : Busy(u)' /\ Busy(v)' /\ task'[u][1] = task'[v][1] => u = v
      BY <1>1, <2>1, <2>3 DEF Working
    <2>7. \A v \in Workers : wpc'[v] \in {"idle", "handle"} => done'[v] = 0
      BY <1>3, <2>2
    <2> QED BY <2>5, <2>6, <2>7 DEF Working
  <1>8. ASSUME NEW w \in Workers, Worker(w), ~WorkerTake(w), ~(\E n \in 1..Units : SendSome(w, n))
        PROVE  Working'
    <2>1. UNCHANGED <<sent, taken, received>>
      BY <1>8 DEF Worker, SendTest, SendLoad, SendFails, ErrorCallback, WorkerEnd, peers, kernel
    <2>2. \A v \in Workers : Busy(v)' => Busy(v) /\ task'[v] = task[v]
      BY <1>8, Sending DEF Good
    <2>3. \A v \in Workers : /\ Busy(v)' => done'[v] = done[v]
                             /\ wpc'[v] \in {"idle", "handle"} => done'[v] = 0
      BY <1>3, <1>8 DEF Worker, SendTest, SendLoad, SendFails, ErrorCallback, WorkerEnd, Good, Basic,
         WorkerTypes, Busy
    <2> QED BY <1>1, <2>1, <2>2, <2>3, WorkingAlone
  <1>9. CASE /\ UNCHANGED <<sent, taken, received>>
             /\ \A w \in Workers : ~Worker(w)
    <2>1. UNCHANGED worker
      BY <1>9, OthersWait
    <2> QED BY <1>1, <1>3, <1>9, <2>1, WorkingAlone DEF Busy, worker
  <1> QED BY <1>4, <1>5, <1>6, <1>7, <1>8, <1>9, CountersStay DEF Worker

LEMMA AnswersIntactStep ==
    ASSUME Good, [Next]_vars
    PROVE  AnswersIntact'
  <1>1. AnswersIntact
    BY DEF Good, Serving
  <1>2. ASSUME NEW w \in Workers, NEW n \in 1..Units, SendSome(w, n) PROVE AnswersIntact'
    <2> DEFINE c == task[w][1]
               L == Len(received[c])
               t == taken[c]
    <2>1. /\ c \in Conns /\ \A d \in Conns : d # c => received'[d] = received[d]
          /\ Len(received'[c]) = L + n /\ L \in Nat /\ n \in Nat
          /\ L = (t - 1) * Units + done[w]
          /\ t \in Nat \ {0} /\ done[w] \in Nat /\ done[w] + n <= Units
          /\ \A i \in 1 .. L + n : received'[c][i] =
                IF i <= L THEN received[c][i] ELSE <<c, t, done[w] + (i - L)>>
      BY <1>2, Answers, AnswersMore
    <2>2. ASSUME NEW i \in 1 .. L + n
          PROVE  received'[c][i] = <<c, ((i - 1) \div Units) + 1, ((i - 1) % Units) + 1>>
      <3>1. CASE i <= L
        <4>1. i \in 1..L
          BY <2>1, <3>1
        <4> QED BY <1>1, <2>1, <3>1, <4>1 DEF AnswersIntact
      <3>2. CASE ~(i <= L)
        <4> DEFINE b == done[w]
                   j == b + (i - L) - 1
                   y == (t - 1) * Units
        <4>1. y \in Int /\ L = y + b /\ L \in Nat /\ n \in Nat /\ b \in Nat /\ b + n <= Units
              /\ Units \in Nat /\ i \in 1 .. L + n
          <5> HIDE DEF L, c, t
          <5> QED BY <2>1, ServerAssumption
        <4>2. j \in 0 .. Units - 1 /\ i - 1 = y + j /\ j + 1 = b + (i - L)
          <5> HIDE DEF y, L, c, t, b
          <5> QED BY <3>2, <4>1
        <4>3. t - 1 \in Nat /\ (t - 1) + 1 = t
          <5>1. t \in Nat \ {0}
            BY <2>1
          <5> HIDE DEF t
          <5> QED BY <5>1
        <4> HIDE DEF j
        <4>4. ((t - 1) * Units + j) \div Units = t - 1 /\ ((t - 1) * Units + j) % Units = j
          BY <4>2, <4>3, Rounds
        <4>5. (i - 1) \div Units = t - 1 /\ (i - 1) % Units = j
          BY <4>2, <4>4
        <4> HIDE DEF y, L, c, t
        <4> QED BY <2>1, <3>2, <4>2, <4>3, <4>5
      <3> QED BY <3>1, <3>2
    <2> HIDE DEF c, L, t
    <2> QED BY <1>1, <2>1, <2>2 DEF AnswersIntact
  <1>3. CASE UNCHANGED received
    BY <1>1, <1>3 DEF AnswersIntact
  <1>4. ASSUME NEW c \in Conns, Request(c) \/ ClientEvent(c) PROVE UNCHANGED received
    BY <1>4 DEF Request, ClientEvent
  <1> QED BY <1>2, <1>3, <1>4, CountersStay

-----------------------------------------------------------------------------
(* The descriptor of a connection with a request is its own *)

LEMMA AcceptsAt ==
    ASSUME Basic, NEW c \in Conns, Accept(c)
    PROVE  /\ listening /\ epc = "accept"
           /\ \E f \in Fds :
                 /\ descriptor[f] = None
                 /\ \A g \in Fds : descriptor'[g] = IF g = f THEN c ELSE descriptor[g]
                 /\ \A d \in Conns : sockfd'[d] = IF d = c THEN f ELSE sockfd[d]
  <1>1. PICK f \in Fds : /\ descriptor[f] = None
                         /\ descriptor' = [descriptor EXCEPT ![f] = c]
                         /\ sockfd' = [sockfd EXCEPT ![c] = f]
    BY DEF Accept, FreeFds
  <1> QED BY <1>1 DEF Accept, Basic, ServerTypes

LEMMA SendPlaces ==
    ASSUME Basic, [Next]_vars, NEW w \in Workers
    PROVE  /\ wpc'[w] = "send" =>
                 SendLoad(w) \/ (wpc[w] = "send" /\ fd'[w] = fd[w] /\ task'[w] = task[w])
           /\ wpc'[w] = "error" =>
                 SendFails(w) \/ (wpc[w] = "error" /\ task'[w] = task[w])
  <1>1. ASSUME NEW v \in Workers, Worker(v), v # w
        PROVE  wpc'[w] = wpc[w] /\ fd'[w] = fd[w] /\ task'[w] = task[w]
    BY <1>1 DEF Worker, WorkerTake, SendTest, SendLoad, SendSome, SendFails, ErrorCallback,
       WorkerEnd, Basic, WorkerTypes
  <1>2. CASE Worker(w)
    <2>1. CASE SendLoad(w) \/ SendFails(w)
      BY <2>1 DEF SendLoad, SendFails, Basic, WorkerTypes
    <2>2. CASE ~(SendLoad(w) \/ SendFails(w))
      <3>1. wpc'[w] \notin {"send", "error"}
        BY <1>2, <2>2 DEF Worker, WorkerTake, SendTest, SendSome, ErrorCallback,
           WorkerEnd, Basic, WorkerTypes
      <3> QED BY <3>1
    <2> QED BY <2>1, <2>2
  <1>3. CASE \A v \in Workers : ~Worker(v)
    BY <1>3, OthersWait DEF worker
  <1> QED BY <1>1, <1>2, <1>3

LEMMA ListenerStays ==
    ASSUME [Next]_vars
    PROVE  \/ UNCHANGED <<spc, listening>>
           \/ spc = "no" /\ spc' = "listener" /\ UNCHANGED listening
           \/ spc = "listener" /\ spc' = "lock" /\ listening' = FALSE
           \/ /\ spc \notin {"no", "listener"} /\ spc' \notin {"no", "listener"}
              /\ UNCHANGED listening
  BY ZenonT(60) DEF Next, Server, Connect, Request, Close, Reset, vars, EventThread, LoopTest, EpollWait,
     EpollNothing, BatchDone, ListenEvent, AcceptFails, Refuse, Admit, PushConnection,
     ConnectionCallback, EraseConnection, CloseTest, CloseSys, Accept, ClientEvent, StopBegin,
     Stopping, StopListening, StopLock, StopCloseSys, StopClear, StopEpoll, StopJoin,
     StopCloseTest, Worker, WorkerTake, SendTest, SendLoad, SendSome, SendFails, ErrorCallback,
     WorkerEnd, flags, stopper

LEMMA NoResets ==
    ASSUME Waiting, Good, [Next]_vars
    PROVE  reset' = {} /\ hangups' = {}
  <1>1. reset = {} /\ hangups = {}
    BY DEF Good, Serving, Own
  <1>2. \A c \in Conns : ~Reset(c)
    BY DEF Waiting, Reset
  <1>3. EpollWait => hangups' = {} /\ reset' = reset
    BY <1>1 DEF EpollWait
  <1>4. ~EpollWait => UNCHANGED <<reset, hangups>>
    BY <1>2 DEF Next, Server, Connect, Request, Close, vars, EventThread, LoopTest,
     EpollNothing, BatchDone, ListenEvent, AcceptFails, Refuse, Admit, PushConnection,
     ConnectionCallback, EraseConnection, CloseTest, CloseSys, Accept, ClientEvent, StopBegin,
     Stopping, StopListening, StopLock, StopCloseSys, StopClear, StopEpoll, StopJoin,
     StopCloseTest, Worker, WorkerTake, SendTest, SendLoad, SendSome, SendFails, ErrorCallback,
     WorkerEnd, kernel, event
  <1> QED BY <1>1, <1>3, <1>4

(* While the server listens, only a connection that nobody sends to is     *)
(* closed.                                                                 *)
LEMMA ClosesQuiet ==
    ASSUME Good, (Refuse \/ Admit \/ CloseSys) /\ at \in Conns
    PROVE  Quiet(at) /\ \A w \in Workers : Busy(w) => task[w][1] # at
  <1>1. epc \in Handling
    BY DEF Refuse, Admit, CloseSys, Handling
  <1> QED BY <1>1 DEF Good, Serving, Pending, Quiet

LEMMA OwnStep ==
    ASSUME Waiting, Good, [Next]_vars
    PROVE  Own'
  <1>1. Own
    BY DEF Good, Serving
  <1>2. (reset = {} /\ hangups = {})'
    BY NoResets
  <1>3. (listening <=> spc \in {"no", "listener"})'
    <2>1. listening <=> spc \in {"no", "listener"}
      BY <1>1 DEF Own
    <2>2. CASE UNCHANGED <<spc, listening>>
      BY <2>1, <2>2
    <2>3. CASE spc = "no" /\ spc' = "listener" /\ UNCHANGED listening
      BY <2>1, <2>3
    <2>4. CASE spc = "listener" /\ spc' = "lock" /\ listening' = FALSE
      BY <2>4
    <2>5. CASE spc \notin {"no", "listener"} /\ spc' \notin {"no", "listener"} /\ UNCHANGED listening
      BY <2>1, <2>5
    <2> QED BY <2>2, <2>3, <2>4, <2>5, ListenerStays
  <1>4. listening' => listening
    BY ListenerStays
  <1>5. ASSUME NEW d \in Conns, sockfd'[d] # 0 PROVE descriptor'[sockfd'[d]] = d
    <2>1. \A c \in Conns : sockfd[c] # 0 => descriptor[sockfd[c]] = c
      BY <1>1 DEF Own
    <2>2. \A c \in Conns : sockfd[c] \in {0} \cup Fds
      BY DEF Good, Basic, ServerTypes
    <2>3. CASE UNCHANGED <<descriptor, sockfd>>
      BY <1>5, <2>1, <2>3
    <2>4. ASSUME NEW c \in Conns, Accept(c) PROVE descriptor'[sockfd'[d]] = d
      <3>1. PICK f \in Fds :
               /\ descriptor[f] = None
               /\ \A g \in Fds : descriptor'[g] = IF g = f THEN c ELSE descriptor[g]
               /\ \A e \in Conns : sockfd'[e] = IF e = c THEN f ELSE sockfd[e]
        BY <2>4, AcceptsAt DEF Good
      <3> QED BY <1>5, <2>1, <2>2, <3>1, ServerAssumption
    <2>5. ASSUME NEW c \in Conns, Closed(c) PROVE descriptor'[sockfd'[d]] = d
      <3>1. d # c /\ sockfd'[d] = sockfd[d] /\ sockfd[d] \in Fds /\ descriptor[sockfd[d]] = d
        BY <1>5, <2>1, <2>2, <2>5 DEF Closed
      <3>2. sockfd[d] # sockfd[c]
        BY <1>5, <2>1, <3>1
      <3> QED BY <2>5, <3>1, <3>2 DEF Closed
    <2> QED BY <2>3, <2>4, <2>5, Sockets
  <1>6. ASSUME NEW d \in Conns, ~Quiet(d)', ~HasSocket(d)', listening' PROVE FALSE
    <2>1. ~Quiet(d) \/ (ClientEvent(d) /\ HasSocket(d))
      BY <1>6, QuietStays DEF Good
    <2>2. HasSocket(d)
      BY <1>1, <1>4, <1>6, <2>1 DEF Own
    <2>3. CASE UNCHANGED <<descriptor, sockfd>>
      BY <1>6, <2>2, <2>3 DEF HasSocket
    <2>4. ASSUME NEW c \in Conns, Accept(c) PROVE FALSE
      <3>1. PICK f \in Fds :
               /\ descriptor[f] = None
               /\ \A g \in Fds : descriptor'[g] = IF g = f THEN c ELSE descriptor[g]
        BY <2>4, AcceptsAt DEF Good
      <3> QED BY <1>6, <2>2, <3>1, ServerAssumption DEF HasSocket
    <2>5. CASE (Refuse \/ Admit \/ CloseSys) /\ at \in Conns /\ Closed(at)
      <3>1. Quiet(at)
        BY <2>5, ClosesQuiet
      <3>2. ~ClientEvent(d)
        BY <2>5 DEF Refuse, Admit, CloseSys, ClientEvent
      <3>3. d # at
        BY <2>1, <3>1, <3>2
      <3> QED BY <1>6, <2>2, <2>5, <3>3, ClosedSocket
    <2>6. CASE StopCloseSys
      BY <1>1, <1>4, <1>6, <2>6 DEF StopCloseSys, Own
    <2> QED BY <2>3, <2>4, <2>5, <2>6, Sockets
  <1>7. ASSUME NEW w \in Workers, wpc'[w] = "send"
        PROVE  \/ fd'[w] = sockfd'[task'[w][1]]
               \/ ~listening' /\ (fd'[w] # 0 => descriptor'[fd'[w]] = None)
    <2>1. CASE SendLoad(w)
      <3>1. fd'[w] = sockfd[task[w][1]] /\ UNCHANGED <<task, sockfd>>
        BY <2>1 DEF SendLoad, objects, Good, Basic, WorkerTypes
      <3> QED BY <3>1
    <2>2. CASE wpc[w] = "send" /\ fd'[w] = fd[w] /\ task'[w] = task[w]
      <3> DEFINE c == task[w][1]
      <3>1. c \in Conns /\ Busy(w) /\ fd[w] \in {0} \cup Fds
        BY <2>2 DEF Busy, Good, Basic, WorkerTypes, Requests
      <3>2. fd[w] = sockfd[c] \/ (~listening /\ (fd[w] # 0 => descriptor[fd[w]] = None))
        BY <1>1, <2>2 DEF Own
      <3>3. CASE UNCHANGED <<descriptor, sockfd>>
        BY <1>4, <2>2, <3>2, <3>3
      <3>4. ASSUME NEW d \in Conns, Accept(d) PROVE fd'[w] = sockfd'[task'[w][1]]
        <4>1. listening /\ sockfd'[c] = sockfd[c]
          <5>1. c # d
            BY <2>2, <3>4, Accepts DEF Good, Strange
          <5> QED BY <3>1, <3>4, <5>1, AcceptsAt DEF Good
        <4> QED BY <2>2, <3>2, <4>1
      <3>5. CASE (Refuse \/ Admit \/ CloseSys) /\ at \in Conns /\ Closed(at)
        <4>1. c # at
          BY <3>1, <3>5, ClosesQuiet
        <4> QED BY <1>4, <2>2, <3>1, <3>2, <3>5, <4>1 DEF Closed
      <3>6. CASE StopCloseSys /\ closing \in Conns /\ Closed(closing)
        <4>1. ~listening'
          BY <1>1, <1>4, <3>6 DEF StopCloseSys, Own
        <4>2. CASE c = closing
          BY <2>2, <3>1, <3>2, <3>6, <4>1, <4>2 DEF Closed
        <4>3. CASE c # closing
          BY <2>2, <3>1, <3>2, <3>6, <4>1, <4>3 DEF Closed
        <4> QED BY <4>2, <4>3
      <3> QED BY <3>3, <3>4, <3>5, <3>6, Sockets
    <2> QED BY <1>7, <2>1, <2>2, SendPlaces DEF Good
  <1>8. ASSUME NEW w \in Workers, wpc'[w] = "error" PROVE (~HasSocket(task[w][1]))'
    <2>1. CASE SendFails(w)
      <3>1. wpc[w] = "send" /\ ~Sendable(w) /\ UNCHANGED <<descriptor, task>>
        BY <2>1 DEF SendFails, kernel
      <3>2. task[w][1] # None
        BY <3>1, ServerAssumption DEF Good, Basic, WorkerTypes, Requests
      <3>3. ASSUME NEW f \in Fds, descriptor[f] = task[w][1] PROVE FALSE
        <4>1. fd[w] = f
          BY <3>1, <3>3 DEF Good, Known
        <4> QED BY <1>1, <3>1, <3>2, <3>3, <4>1 DEF Sendable, Target, Own
      <3> QED BY <3>1, <3>3 DEF HasSocket
    <2>2. CASE wpc[w] = "error" /\ task'[w] = task[w]
      <3>1. task[w][1] \in Conns /\ ~HasSocket(task[w][1])
        BY <1>1, <2>2 DEF Own, Good, Basic, WorkerTypes, Requests
      <3>2. PICK c \in Conns : c = task[w][1]
        BY <3>1
      <3>3. ~Accept(c) /\ ~HasSocket(c)
        BY <2>2, <3>1, <3>2, Accepts DEF Good, Strange
      <3>4. ~HasSocket(c)'
        BY <3>3, SocketsStay
      <3> QED BY <2>2, <3>2, <3>4 DEF HasSocket
    <2> QED BY <1>8, <2>1, <2>2, SendPlaces DEF Good
  <1> QED BY <1>2, <1>3, <1>5, <1>6, <1>7, <1>8 DEF Own

-----------------------------------------------------------------------------
(* Who has a request that is not answered stays *)

LEMMA PeersStay ==
    ASSUME [Next]_vars, \A c \in Conns : ~Connect(c) /\ ~Request(c) /\ ~Close(c)
    PROVE  UNCHANGED <<peer, sent>> /\ backlog' \subseteq backlog
  BY DEF Next, Server, Reset, vars, EventThread, LoopTest, EpollWait, EpollNothing, BatchDone,
     ListenEvent, AcceptFails, Refuse, Admit, PushConnection, ConnectionCallback, EraseConnection,
     CloseTest, CloseSys, Accept, ClientEvent, StopBegin, Stopping, StopListening, StopLock,
     StopCloseSys, StopClear, StopEpoll, StopJoin, StopCloseTest, Worker, WorkerTake, SendTest,
     SendLoad, SendSome, SendFails, ErrorCallback, WorkerEnd, peers, kernel

LEMMA TakenStays ==
    ASSUME Good, [Next]_vars, NEW c \in Conns, ~ClientEvent(c)
    PROVE  taken'[c] = taken[c]
  <1>1. ASSUME NEW d \in Conns, ClientEvent(d) PROVE taken'[c] = taken[c]
    <2>1. c # d /\ (taken' = taken \/ taken' = [taken EXCEPT ![d] = sent[d]])
      BY <1>1, Reads
    <2> QED BY <2>1 DEF Good, Basic, ClientTypes
  <1>2. CASE \A d \in Conns : ~ClientEvent(d)
    BY <1>2 DEF Next, Server, Connect, Request, Close, Reset, vars, EventThread, LoopTest,
     EpollWait, EpollNothing, BatchDone, ListenEvent, AcceptFails, Refuse, Admit, PushConnection,
     ConnectionCallback, EraseConnection, CloseTest, CloseSys, Accept, StopBegin,
     Stopping, StopListening, StopLock, StopCloseSys, StopClear, StopEpoll, StopJoin,
     StopCloseTest, Worker, WorkerTake, SendTest, SendLoad, SendSome, SendFails, ErrorCallback,
     WorkerEnd, kernel
  <1> QED BY <1>1, <1>2

(* A client that waits closes only when there is nothing to come. *)
LEMMA Leaves ==
    ASSUME Waiting, Good, NEW c \in Conns, Close(c), c \in backlog \/ HasSocket(c)
    PROVE  taken[c] = sent[c] /\ Quiet(c) /\ peer[c] = "open"
  <1>1. Answered(c) = sent[c] /\ sent[c] \in Nat
    BY DEF Waiting, Close, Good, Basic, ClientTypes
  <1>2. Answered(c) >= sent[c]
    BY <1>1
  <1> QED BY <1>2, Satisfied DEF Close

LEMMA StaysStep ==
    ASSUME Waiting, Good, [Next]_vars
    PROVE  Stays'
  <1> SUFFICES ASSUME NEW c \in Conns, (c \in backlog \/ HasSocket(c))',
                      (taken[c] < sent[c] \/ ~Quiet(c))'
               PROVE  peer'[c] = "open"
    BY DEF Stays
  <1>1. (c \in backlog \/ HasSocket(c)) /\ (taken[c] < sent[c] \/ ~Quiet(c)) => peer[c] = "open"
    BY DEF Good, Serving, Stays
  <1>2. ASSUME NEW d \in Conns, Connect(d) PROVE peer'[c] = "open"
    <2>1. \A e \in Conns : peer'[e] = IF e = d THEN "open" ELSE peer[e]
      BY <1>2 DEF Connect, Good, Basic, ClientTypes
    <2>2. UNCHANGED <<taken, sent, tasks, worker, descriptor>> /\ backlog' = backlog \cup {d}
      BY <1>2 DEF Connect
    <2> QED BY <1>1, <2>1, <2>2 DEF HasSocket, Quiet, Busy, worker
  <1>3. ASSUME NEW d \in Conns, Request(d) PROVE peer'[c] = "open"
    <2>1. /\ UNCHANGED <<peer, taken, tasks, worker, descriptor, backlog>> /\ peer[d] = "open"
          /\ \A e \in Conns : e # d => sent'[e] = sent[e]
      BY <1>3 DEF Request, Good, Basic, ClientTypes
    <2> QED BY <1>1, <2>1 DEF HasSocket, Quiet, Busy, worker
  <1>4. ASSUME NEW d \in Conns, Close(d) PROVE peer'[c] = "open"
    <2>1. /\ UNCHANGED <<sent, taken, tasks, worker, descriptor, backlog>>
          /\ \A e \in Conns : e # d => peer'[e] = peer[e]
      BY <1>4 DEF Close, Good, Basic, ClientTypes
    <2>2. (c \in backlog \/ HasSocket(c)) /\ (taken[c] < sent[c] \/ ~Quiet(c))
      BY <2>1 DEF HasSocket, Quiet, Busy, worker
    <2>3. c # d
      <3>1. c = d => taken[c] = sent[c] /\ Quiet(c)
        BY <1>4, <2>2, Leaves
      <3>2. taken[c] \in Int /\ sent[c] \in Int
        BY DEF Good, Basic, ClientTypes
      <3> QED BY <2>2, <3>1, <3>2
    <2> QED BY <1>1, <2>1, <2>2, <2>3
  <1>5. CASE \A d \in Conns : ~Connect(d) /\ ~Request(d) /\ ~Close(d)
    <2>1. UNCHANGED <<peer, sent>> /\ backlog' \subseteq backlog
      BY <1>5, PeersStay
    <2>2. c \in backlog \/ HasSocket(c)
      <3>1. HasSocket(c)' => HasSocket(c) \/ Accept(c)
        BY SocketsStay
      <3> QED BY <2>1, <3>1 DEF Accept
    <2>3. CASE ClientEvent(c)
      <3>1. CASE UNCHANGED <<tasks, taken>>
        <4>1. UNCHANGED worker
          BY <2>3, Reads
        <4> QED BY <1>1, <2>1, <2>2, <3>1, <4>1 DEF Quiet, Busy, worker
      <3>2. CASE ~UNCHANGED <<tasks, taken>>
        <4>1. sent[c] = taken[c] + 1 /\ taken[c] \in Nat
          BY <2>3, <3>2, Reads DEF Good, Basic, ClientTypes
        <4>2. taken[c] < sent[c]
          BY <4>1
        <4> QED BY <1>1, <2>1, <2>2, <4>2
      <3> QED BY <3>1, <3>2
    <2>4. CASE ~ClientEvent(c)
      <3>1. taken'[c] = taken[c]
        BY <2>4, TakenStays
      <3>2. Quiet(c) => Quiet(c)'
        BY <2>4, QuietStays DEF Good
      <3> QED BY <1>1, <2>1, <2>2, <3>1, <3>2
    <2> QED BY <2>3, <2>4
  <1> QED BY <1>2, <1>3, <1>4, <1>5

-----------------------------------------------------------------------------
(* The events *)

LEMMA States ==
    ASSUME Basic, [Next]_vars, NEW c \in Conns
    PROVE  \/ state'[c] = state[c]
           \/ c = at /\ (Admit \/ CloseTest \/ CloseSys)
           \/ \E w \in Workers : SendFails(w) /\ c = task[w][1] /\ state'[c] = "DISCONNECTED"
           \/ StopCloseTest(c)
           \/ StopCloseSys /\ c = closing /\ state'[c] = "DISCONNECTED"
  <1>1. CASE Admit \/ CloseTest \/ CloseSys
    <2>1. state' = state \/ \E s : state' = [state EXCEPT ![at] = s]
      BY <1>1 DEF Admit, CloseTest, CloseSys, CloseSocket
    <2> QED BY <1>1, <2>1 DEF Basic, ServerTypes
  <1>2. ASSUME NEW w \in Workers, SendFails(w)
        PROVE  state'[c] = state[c] \/ (c = task[w][1] /\ state'[c] = "DISCONNECTED")
    BY <1>2 DEF SendFails, Basic, ServerTypes
  <1>3. ASSUME NEW d \in Conns, StopCloseTest(d) PROVE state'[c] = state[c] \/ d = c
    <2>1. state' = state \/ state' = [state EXCEPT ![d] = "DISCONNECTING"]
      BY <1>3 DEF StopCloseTest
    <2> QED BY <2>1 DEF Basic, ServerTypes
  <1>4. CASE StopCloseSys
    BY <1>4, Closes DEF StopCloseSys, Basic, StopTypes
  <1>5. CASE /\ ~(Admit \/ CloseTest \/ CloseSys) /\ \A w \in Workers : ~SendFails(w)
             /\ \A d \in Conns : ~StopCloseTest(d)
             /\ ~StopCloseSys
    BY <1>5 DEF Next, Server, Connect, Request, Close, Reset, vars, EventThread, LoopTest,
     EpollWait, EpollNothing, BatchDone, ListenEvent, AcceptFails, Refuse, PushConnection,
     ConnectionCallback, EraseConnection, Accept, ClientEvent, StopBegin, Stopping, StopListening,
     StopLock, StopClear, StopEpoll, StopJoin, Worker, WorkerTake, SendTest, SendLoad, SendSome,
     ErrorCallback, WorkerEnd, objects
  <1> QED BY <1>1, <1>2, <1>3, <1>4, <1>5

(* What the event thread has in hand. *)
LEMMA Hands ==
    ASSUME Basic, [Next]_vars, epc' \in Handling
    PROVE  \/ epc \in Handling /\ at' = at
           \/ \E c \in Conns : Accept(c) /\ at' = c /\ epc' = "admit"
           \/ \E c \in Conns : ClientEvent(c) /\ at' = c /\ epc' = "erase"
  <1>1. ASSUME NEW c \in Conns, Accept(c) PROVE at' = c /\ epc' = "admit"
    BY <1>1 DEF Accept
  <1>2. ASSUME NEW c \in Conns, ClientEvent(c) PROVE at' = c /\ epc' = "erase"
    <2>1. at' = c /\ epc = "next"
      BY <1>2 DEF ClientEvent
    <2>2. epc' = epc \/ epc' \in {"next", "erase"}
      BY <1>2, Events
    <2> QED BY <2>1, <2>2 DEF Handling
  <1>3. CASE \A c \in Conns : ~Accept(c) /\ ~ClientEvent(c)
    <2>1. UNCHANGED <<epc, at>> \/ EventThread
      BY DEF Next, Server, Connect, Request, Close, Reset, vars, StopBegin, Stopping, StopListening,
        StopLock, StopCloseSys, StopClear, StopEpoll, StopJoin, StopCloseTest, Worker, WorkerTake,
        SendTest, SendLoad, SendSome, SendFails, ErrorCallback, WorkerEnd, event
    <2>2. EventThread => epc \in Handling /\ at' = at
      BY <1>3 DEF EventThread, LoopTest, EpollWait, EpollNothing, BatchDone, ListenEvent,
        AcceptFails, Refuse, Admit, PushConnection, ConnectionCallback, EraseConnection, CloseTest,
        CloseSys, Handling
    <2> QED BY <2>1, <2>2
  <1> QED BY <1>1, <1>2, <1>3

(* Where an edge comes from. *)
LEMMA Wakes ==
    ASSUME Waiting, Good, [Next]_vars, NEW c \in Conns, c \in (ready \cup batch)'
    PROVE  \/ c \in ready \cup batch /\ ~ClientEvent(c)
           \/ /\ Request(c) \/ Close(c)
              /\ state[c] # "NONE" /\ HasSocket(c) /\ c \in ready' /\ batch' = batch
           \/ /\ Admit /\ c = at /\ epc' = "push" /\ batch' = batch
              /\ sent[c] > 0 \/ peer[c] = "closed"
  <1>1. ASSUME ClientEvent(c) PROVE FALSE
    <2>1. c \in batch /\ c \notin batch' /\ ready' = ready
      BY <1>1 DEF ClientEvent
    <2> QED BY <2>1 DEF Good, Serving, Pending
  <1>2. ASSUME NEW d \in Conns, Request(d) \/ Close(d), c \notin ready \cup batch
        PROVE  c = d /\ state[c] # "NONE" /\ HasSocket(c) /\ c \in ready' /\ batch' = batch
    BY <1>2 DEF Request, Close, Edge, event
  <1>3. ASSUME NEW d \in Conns, Connect(d) \/ Reset(d) PROVE c \in ready \cup batch
    BY <1>3 DEF Connect, Reset, Waiting, event
  <1>4. CASE Admit
    <2>1. batch' = batch /\ (EpollOpen => epc' = "push")
      BY <1>4 DEF Admit
    <2>2. c \in ready \cup batch \/ (EpollOpen /\ c = at /\ (sent[c] > 0 \/ peer[c] = "closed"))
      BY <1>4, <2>1 DEF Admit, CloseSocket
    <2> QED BY <1>1, <1>4, <2>1, <2>2
  <1>5. CASE EventThread /\ ~Admit
    <2>1. (ready \cup batch)' \subseteq ready \cup batch \cup {Listener}
      <3>1. EraseConnection => batch' = batch /\ ready' = ready
        BY NothingDestroyed DEF EraseConnection
      <3>2. CloseSys => batch' = batch /\ ready' \subseteq ready
        BY DEF CloseSys, CloseSocket
      <3>3. CASE ~EraseConnection /\ ~CloseSys
        BY <1>5, <3>3 DEF EventThread, LoopTest, EpollWait, EpollNothing, BatchDone, ListenEvent,
          AcceptFails, Refuse, PushConnection, ConnectionCallback, CloseTest, Accept, ClientEvent,
          Ready, kernel
      <3> QED BY <3>1, <3>2, <3>3
    <2>2. c # Listener
      BY ServerAssumption
    <2> QED BY <1>1, <2>1, <2>2
  <1>6. CASE (\E w \in Workers : Worker(w)) \/ StopBegin \/ Stopping \/ UNCHANGED vars
    <2>1. batch' = batch
      BY <1>6 DEF vars, StopBegin, Stopping, StopListening, StopLock, StopCloseSys, StopClear,
        StopEpoll, StopJoin, StopCloseTest, Worker, WorkerTake, SendTest, SendLoad, SendSome,
        SendFails, ErrorCallback, WorkerEnd, event
    <2>2. ready' \subseteq ready
      <3>1. CASE (\E w \in Workers : WorkerEnd(w)) \/ StopClear \/ StopJoin
        BY <3>1, NothingDestroyed
      <3>2. CASE StopCloseSys
        BY <3>2 DEF StopCloseSys, CloseSocket
      <3>3. CASE ~((\E w \in Workers : WorkerEnd(w)) \/ StopClear \/ StopJoin \/ StopCloseSys)
        BY <1>6, <3>3 DEF vars, StopBegin, Stopping, StopListening, StopLock, StopEpoll,
          StopCloseTest, Worker, WorkerTake, SendTest, SendLoad, SendSome, SendFails,
          ErrorCallback, kernel
      <3> QED BY <3>1, <3>2, <3>3
    <2> QED BY <1>1, <2>1, <2>2
  <1> QED BY <1>1, <1>2, <1>3, <1>4, <1>5, <1>6 DEF Next, Server

LEMMA ReadyGrows ==
    ASSUME Waiting, Good, [Next]_vars, NEW c \in Conns, c \in ready' \ ready
    PROVE  ((Request(c) \/ Close(c)) /\ HasSocket(c)) \/ (Admit /\ c = at)
  <1>1. ASSUME NEW d \in Conns, Connect(d) \/ Request(d) \/ Close(d) \/ Reset(d)
        PROVE  (Request(c) \/ Close(c)) /\ HasSocket(c)
    BY <1>1 DEF Connect, Request, Close, Reset, Edge, Waiting
  <1>2. CASE (\E w \in Workers : WorkerEnd(w)) \/ StopClear \/ StopJoin \/ EraseConnection
    BY <1>2, NothingDestroyed
  <1>3. CASE StopCloseSys \/ CloseSys
    BY <1>3 DEF StopCloseSys, CloseSys, CloseSocket
  <1>4. CASE Admit
    BY <1>4 DEF Admit, CloseSocket
  <1>5. CASE UNCHANGED vars \/ ((\E w \in Workers : Worker(w)) /\ ~(\E w \in Workers : WorkerEnd(w)))
    BY <1>5 DEF vars, kernel, Worker, WorkerTake, SendTest, SendLoad, SendSome, SendFails,
       ErrorCallback
  <1>6. CASE StopBegin \/ (Stopping /\ ~(StopCloseSys \/ StopClear \/ StopJoin))
    BY <1>6 DEF StopBegin, Stopping, StopListening, StopLock, StopEpoll, StopCloseTest, kernel
  <1>7. CASE EventThread /\ ~(Admit \/ CloseSys \/ EraseConnection)
    BY <1>7 DEF EventThread, LoopTest, EpollWait, EpollNothing, BatchDone, ListenEvent,
       AcceptFails, Refuse, PushConnection, ConnectionCallback, CloseTest, Accept, ClientEvent,
       kernel
  <1> QED BY <1>1, <1>2, <1>3, <1>4, <1>5, <1>6, <1>7 DEF Next, Server

LEMMA BatchShrinks ==
    ASSUME [Next]_vars
    PROVE  batch' \subseteq batch \/ (EpollWait /\ ready' = {})
  BY DEF Next, Server, Connect, Request, Close, Reset, vars, EventThread, LoopTest, EpollWait,
     EpollNothing, BatchDone, ListenEvent, AcceptFails, Refuse, Admit, PushConnection,
     ConnectionCallback, EraseConnection, CloseTest, CloseSys, Accept, ClientEvent, StopBegin,
     Stopping, StopListening, StopLock, StopCloseSys, StopClear, StopEpoll, StopJoin,
     StopCloseTest, Worker, WorkerTake, SendTest, SendLoad, SendSome, SendFails, ErrorCallback,
     WorkerEnd, event

(* What a client that goes on, or leaves, finds. *)
LEMMA NothingPending ==
    ASSUME Waiting, Good, NEW c \in Conns, Request(c) \/ Close(c), HasSocket(c)
    PROVE  Quiet(c) /\ taken[c] = sent[c] /\ peer[c] = "open" /\ c \notin ready \cup batch
  <1>1. Quiet(c) /\ taken[c] = sent[c] /\ peer[c] = "open"
    BY Asks, Leaves
  <1>2. taken[c] \in Nat
    BY DEF Good, Basic, ClientTypes
  <1>3. c \in ready \cup batch => taken[c] < sent[c] \/ peer[c] = "closed" \/ ~HasSocket(c)
    BY DEF Good, Serving, Pending
  <1> QED BY <1>1, <1>2, <1>3

LEMMA PendingStep ==
    ASSUME Waiting, Good, [Next]_vars
    PROVE  Pending'
  <1>1. Pending
    BY DEF Good, Serving
  <1>2. ASSUME NEW c \in Conns, c \in (ready \cup batch)'
        PROVE  Quiet(c)' /\ (taken'[c] < sent'[c] \/ peer'[c] = "closed" \/ ~HasSocket(c)')
    <2>1. CASE c \in ready \cup batch /\ ~ClientEvent(c)
      <3>1. Quiet(c)' /\ taken'[c] = taken[c]
        BY <1>1, <2>1, QuietStays, TakenStays DEF Pending, Good
      <3>2. ~HasSocket(c) => ~HasSocket(c)'
        BY <2>1, SocketsStay, Accepts DEF Good, Strange
      <3>3. taken[c] < sent[c] \/ peer[c] = "closed" \/ ~HasSocket(c)
        BY <1>1, <2>1 DEF Pending
      <3>4. ASSUME NEW d \in Conns, Connect(d) \/ Close(d)
            PROVE  sent' = sent /\ (peer'[c] = peer[c] \/ peer[c] # "closed")
        BY <3>4 DEF Connect, Close, Good, Basic, ClientTypes
      <3>5. ASSUME NEW d \in Conns, Request(d)
            PROVE  peer' = peer /\ (taken[c] < sent[c] => taken[c] < sent'[c])
        <4>1. sent'[c] = sent[c] \/ sent'[c] = sent[c] + 1
          BY <3>5, Asks
        <4>2. sent[c] \in Nat /\ taken[c] \in Nat
          BY DEF Good, Basic, ClientTypes
        <4>3. taken[c] < sent[c] => taken[c] < sent'[c]
          BY <4>1, <4>2
        <4> QED BY <3>5, <4>3 DEF Request
      <3>6. ASSUME NEW d \in Conns, Close(d), peer[c] = "closed" PROVE peer'[c] = "closed"
        BY <3>6 DEF Close, Good, Basic, ClientTypes
      <3>7. ASSUME NEW d \in Conns, Connect(d), peer[c] = "closed" PROVE peer'[c] = "closed"
        BY <3>7 DEF Connect, Good, Basic, ClientTypes
      <3> QED BY <3>1, <3>2, <3>3, <3>4, <3>5, <3>6, <3>7, PeersStay
    <2>2. CASE (Request(c) \/ Close(c)) /\ state[c] # "NONE" /\ HasSocket(c)
      <3>1. Quiet(c) /\ taken[c] = sent[c]
        BY <2>2, NothingPending
      <3>2. Quiet(c)' /\ taken' = taken
        BY <2>2, <3>1 DEF Request, Close, Quiet, Busy, worker
      <3>3. Request(c) => taken[c] < sent'[c]
        <4>1. Request(c) => sent'[c] = sent[c] + 1
          BY Asks
        <4>2. sent[c] \in Nat
          BY DEF Good, Basic, ClientTypes
        <4> QED BY <3>1, <4>1, <4>2
      <3>4. Close(c) => peer'[c] = "closed"
        BY DEF Close, Good, Basic, ClientTypes
      <3> QED BY <2>2, <3>2, <3>3, <3>4
    <2>3. CASE Admit /\ c = at /\ (sent[c] > 0 \/ peer[c] = "closed")
      <3>1. Quiet(c) /\ taken[c] = 0
        BY <1>1, <2>3 DEF Admit, Pending, Handling
      <3>2. UNCHANGED <<peer, sent, taken, tasks, worker>>
        BY <2>3 DEF Admit, peers
      <3> QED BY <2>3, <3>1, <3>2 DEF Quiet, Busy, worker
    <2> QED BY <1>2, <2>1, <2>2, <2>3, Wakes
  <1>3. ASSUME NEW c \in (ready \cap batch)' PROVE FALSE
    <2>1. c \in Conns
      BY BasicStep DEF Good, Basic, ClientTypes
    <2>2. c \in batch
      BY <1>3, BatchShrinks
    <2>3. c \notin ready
      BY <1>1, <2>2 DEF Pending
    <2>4. ~((Request(c) \/ Close(c)) /\ HasSocket(c))
      BY <2>1, <2>2, NothingPending
    <2>5. Admit /\ c = at
      BY <1>3, <2>1, <2>3, <2>4, ReadyGrows
    <2> QED BY <1>1, <2>2, <2>5 DEF Admit, Pending
  <1>4. epc' \in Handling => Quiet(at)'
    <2> SUFFICES ASSUME epc' \in Handling PROVE Quiet(at)'
      OBVIOUS
    <2>1. CASE epc \in Handling /\ at' = at
      <3>1. PICK c \in Conns : c = at
        BY <2>1 DEF Good, Basic, EventTypes
      <3>2. Quiet(c) /\ ~ClientEvent(c)
        BY <1>1, <2>1, <3>1 DEF Pending, ClientEvent, Handling
      <3>3. Quiet(c)'
        BY <3>2, QuietStays DEF Good
      <3> QED BY <2>1, <3>1, <3>3 DEF Quiet
    <2>2. ASSUME NEW c \in Conns, Accept(c), at' = c PROVE Quiet(at)'
      <3>1. Strange(c)
        BY <2>2, Accepts DEF Good
      <3>2. Quiet(c)
        BY <3>1 DEF Strange, Quiet, Busy
      <3>3. UNCHANGED <<tasks, worker>>
        BY <2>2 DEF Accept
      <3> QED BY <2>2, <3>2, <3>3 DEF Quiet, Busy, worker
    <2>3. ASSUME NEW c \in Conns, ClientEvent(c), at' = c, epc' = "erase" PROVE Quiet(at)'
      <3>1. Quiet(c) /\ UNCHANGED <<tasks, worker>>
        BY <2>3, Reads
      <3> QED BY <2>3, <3>1 DEF Quiet, Busy, worker
    <2> QED BY <2>1, <2>2, <2>3, Hands DEF Good
  <1>5. epc' = "admit" => state'[at'] = "NONE" /\ taken'[at'] = 0 /\ at' \notin (ready \cup batch)'
    <2> SUFFICES ASSUME epc' = "admit"
                 PROVE  state'[at'] = "NONE" /\ taken'[at'] = 0 /\ at' \notin (ready \cup batch)'
      OBVIOUS
    <2>1. ASSUME NEW c \in Conns, Accept(c), at' = c
          PROVE  state'[at'] = "NONE" /\ taken'[at'] = 0 /\ at' \notin (ready \cup batch)'
      <3>1. Strange(c) /\ UNCHANGED <<state, taken, ready, batch>>
        BY <2>1, Accepts DEF Good, Accept
      <3> QED BY <2>1, <3>1 DEF Strange
    <2>2. CASE epc \in Handling /\ at' = at
      <3>1. ~EventThread
        BY <2>2 DEF EventThread, LoopTest, EpollWait, EpollNothing, BatchDone, ListenEvent,
          AcceptFails, Refuse, Admit, PushConnection, ConnectionCallback, EraseConnection, CloseTest,
          CloseSys, CloseCallDone, Accept, ClientEvent, Handling
      <3>2. epc = "admit"
        BY <3>1 DEF Next, Server, Connect, Request, Close, Reset, vars, StopBegin, Stopping,
          StopListening, StopLock, StopCloseSys, StopClear, StopEpoll, StopJoin, StopCloseTest,
          Worker, WorkerTake, SendTest, SendLoad, SendSome, SendFails, ErrorCallback, WorkerEnd,
          event
      <3>3. PICK c \in Conns : c = at
        BY <2>2 DEF Good, Basic, EventTypes
      <3>4. /\ state[c] = "NONE" /\ taken[c] = 0 /\ c \notin ready \cup batch /\ Quiet(c)
            /\ c \notin tcpConnections
        BY <1>1, <2>2, <3>2, <3>3 DEF Pending, Good, Lists
      <3>5. state'[c] = state[c]
        <4>1. \A w \in Workers : SendFails(w) => c # task[w][1]
          BY <3>4 DEF SendFails, Quiet, Busy
        <4>2. ~StopCloseTest(c) /\ (StopCloseSys => c # closing)
          BY <3>4 DEF StopCloseTest, StopCloseSys, Good, Lists, Locked
        <4>3. ~(Admit \/ CloseTest \/ CloseSys)
          BY <3>1 DEF EventThread
        <4> QED BY <4>1, <4>2, <4>3, States DEF Good
      <3>6. taken'[c] = taken[c]
        BY <3>1, TakenStays DEF EventThread
      <3>7. c \notin (ready \cup batch)'
        BY <3>1, <3>4, Wakes DEF EventThread
      <3> QED BY <2>2, <3>3, <3>4, <3>5, <3>6, <3>7
    <2>3. CASE \E c \in Conns : ClientEvent(c) /\ at' = c /\ epc' = "erase"
      BY <2>3
    <2> QED BY <2>1, <2>2, <2>3, Hands DEF Good, Handling
  <1> QED BY <1>2, <1>3, <1>4, <1>5 DEF Pending

-----------------------------------------------------------------------------
(* What the event thread may come to use is kept *)

LEMMA DisconnectedStays ==
    ASSUME Good, [Next]_vars, NEW c \in Conns, state[c] = "DISCONNECTED"
    PROVE  state'[c] = "DISCONNECTED"
  <1>1. CASE c = at /\ Admit
    BY <1>1 DEF Admit, Good, Serving, Pending
  <1>2. CASE c = at /\ CloseTest
    <2>1. UNCHANGED state
      BY <1>2 DEF CloseTest
    <2> QED BY <2>1
  <1>3. CASE c = at /\ CloseSys
    BY <1>3, Closes DEF CloseSys, Good
  <1>4. CASE StopCloseTest(c)
    BY <1>4 DEF StopCloseTest
  <1> QED BY <1>1, <1>2, <1>3, <1>4, States DEF Good

(* A new reference comes only from accept(). *)
LEMMA ReferencesGrow ==
    ASSUME Basic, [Next]_vars, NEW c \in Referenced'
    PROVE  c \in Referenced \/ (Admit /\ c = at /\ epc' = "push" /\ at' = at)
  <1>1. ASSUME NEW w \in Workers, WorkerTake(w) PROVE c \in Referenced
    <2>1. /\ 1 \in 1..Len(tasks)
          /\ \A i \in 1..Len(tasks') : i + 1 \in 1..Len(tasks) /\ tasks'[i] = tasks[i + 1]
          /\ \A v \in Workers : /\ task'[v] = IF v = w THEN tasks[1] ELSE task[v]
                                /\ wpc'[v] = IF v = w THEN "handle" ELSE wpc[v]
      BY <1>1, Takes
    <2>2. UNCHANGED <<tcpConnections, rpcConnections, epc, at>>
      BY <1>1 DEF WorkerTake, event
    <2> QED BY <2>1, <2>2 DEF Referenced
  <1>2. ASSUME NEW w \in Workers, Worker(w), ~WorkerTake(w) PROVE c \in Referenced
    <2>1. \A v \in Workers : wpc'[v] # "idle" => wpc[v] # "idle" /\ task'[v] = task[v]
      BY <1>2 DEF Worker, SendTest, SendLoad, SendSome, SendFails, ErrorCallback, WorkerEnd, Basic,
        WorkerTypes
    <2>2. /\ UNCHANGED <<tcpConnections, epc, at, tasks>> /\ rpcConnections' \subseteq rpcConnections
      BY <1>2 DEF Worker, SendTest, SendLoad, SendSome, SendFails, ErrorCallback, WorkerEnd, event
    <2> QED BY <2>1, <2>2 DEF Referenced
  <1>3. ASSUME NEW d \in Conns, ClientEvent(d) PROVE c \in Referenced
    <2>1. UNCHANGED worker /\ epc' \notin {"push", "callback"}
      <3>1. epc' = epc \/ epc' \in {"next", "erase"}
        BY <1>3, Events
      <3> QED BY <1>3, <3>1 DEF ClientEvent
    <2>2. UNCHANGED <<tcpConnections, rpcConnections>>
      BY <1>3 DEF ClientEvent
    <2>3. UNCHANGED tasks \/ (d \in Referenced /\ tasks' = tasks \o Frames(d))
      BY <1>3, Events
    <2>4. CASE UNCHANGED tasks
      BY <2>1, <2>2, <2>4 DEF Referenced, worker
    <2>5. CASE d \in Referenced /\ tasks' = tasks \o Frames(d)
      <3>1. \A i \in 1..Len(tasks') :
               \/ i \in 1..Len(tasks) /\ tasks'[i] = tasks[i]
               \/ i > Len(tasks) /\ tasks'[i] = <<d, taken[d] + (i - Len(tasks))>>
        BY <2>5, Submits
      <3>2. \A i \in 1..Len(tasks') :
               tasks'[i][1] = d \/ (i \in 1..Len(tasks) /\ tasks'[i] = tasks[i])
        BY <3>1
      <3>3. d \in Referenced
        BY <2>5
      <3> QED BY <2>1, <2>2, <3>2, <3>3 DEF Referenced, worker
    <2> QED BY <2>3, <2>4, <2>5
  <1>4. CASE PushConnection \/ ConnectionCallback \/ EraseConnection
    <2>1. UNCHANGED <<tasks, worker, at>>
      BY <1>4 DEF PushConnection, ConnectionCallback, EraseConnection
    <2>2. /\ epc \in {"push", "callback"} /\ tcpConnections' \subseteq tcpConnections \cup {at}
             /\ rpcConnections' \subseteq rpcConnections \cup {at}
          \/ /\ epc' \notin {"push", "callback"} /\ tcpConnections' \subseteq tcpConnections
             /\ rpcConnections' \subseteq rpcConnections
      BY <1>4 DEF PushConnection, ConnectionCallback, EraseConnection
    <2> QED BY <2>1, <2>2 DEF Referenced, worker
  <1>5. CASE Admit
    <2>1. /\ UNCHANGED <<tasks, worker, at, tcpConnections, rpcConnections>>
          /\ epc' \in {"push", "next"}
      BY <1>5 DEF Admit
    <2> QED BY <1>5, <2>1 DEF Referenced, worker
  <1>6. CASE EventThread /\ ~(PushConnection \/ ConnectionCallback \/ EraseConnection \/ Admit)
             /\ \A d \in Conns : ~ClientEvent(d)
    <2>1. /\ UNCHANGED <<tasks, worker, tcpConnections, rpcConnections>>
          /\ epc' \notin {"push", "callback"}
      BY <1>6 DEF EventThread, LoopTest, EpollWait, EpollNothing, BatchDone, ListenEvent,
          AcceptFails, Refuse, CloseTest, CloseSys, CloseCallDone, Accept
    <2> QED BY <2>1 DEF Referenced, worker
  <1>7. CASE \/ \E d \in Conns : Connect(d) \/ Request(d) \/ Close(d) \/ Reset(d)
             \/ StopBegin \/ Stopping \/ UNCHANGED vars
    <2>1. /\ UNCHANGED <<tasks, worker, epc, at>> /\ tcpConnections' \subseteq tcpConnections
          /\ rpcConnections' \subseteq rpcConnections
      BY <1>7 DEF Connect, Request, Close, Reset, StopBegin, Stopping, StopListening, StopLock,
          StopCloseSys, StopClear, StopEpoll, StopJoin, StopCloseTest, vars, event
    <2> QED BY <2>1 DEF Referenced, worker
  <1> QED BY <1>1, <1>2, <1>3, <1>4, <1>5, <1>6, <1>7 DEF Next, Server

(* An entry of RpcServer's list goes with an error of send(), and in the   *)
(* end.                                                                    *)
LEMMA RpcListStays ==
    ASSUME [Next]_vars, NEW c \in rpcConnections
    PROVE  \/ c \in rpcConnections'
           \/ \E w \in Workers : ErrorCallback(w) /\ c = task[w][1]
           \/ spc' = "stopped"
  BY DEF Next, Server, Connect, Request, Close, Reset, vars, EventThread, LoopTest, EpollWait,
     EpollNothing, BatchDone, ListenEvent, AcceptFails, Refuse, Admit, PushConnection,
     ConnectionCallback, EraseConnection, CloseTest, CloseSys, Accept, ClientEvent, StopBegin,
     Stopping, StopListening, StopLock, StopCloseSys, StopClear, StopEpoll, StopJoin,
     StopCloseTest, Worker, WorkerTake, SendTest, SendLoad, SendSome, SendFails, ErrorCallback,
     WorkerEnd

(* The event thread's place. *)
LEMMA EventPlaces ==
    ASSUME [Next]_vars
    PROVE  \/ UNCHANGED <<epc, at>>
           \/ EventThread /\ (epc = "ended" => FALSE)
  BY DEF Next, Server, Connect, Request, Close, Reset, vars, EventThread, LoopTest, EpollWait,
     EpollNothing, BatchDone, ListenEvent, AcceptFails, Refuse, Admit, PushConnection,
     ConnectionCallback, EraseConnection, CloseTest, CloseSys, Accept, ClientEvent, StopBegin,
     Stopping, StopListening, StopLock, StopCloseSys, StopClear, StopEpoll, StopJoin,
     StopCloseTest, Worker, WorkerTake, SendTest, SendLoad, SendSome, SendFails, ErrorCallback,
     WorkerEnd, event

LEMMA StopPlaces ==
    ASSUME [Next]_vars
    PROVE  /\ spc = "stopped" => spc' = "stopped"
           /\ spc' = "stopped" => spc = "stopped" \/ (StopJoin /\ epc = "ended" /\ UNCHANGED epc)
  BY DEF Next, Server, Connect, Request, Close, Reset, vars, EventThread, LoopTest, EpollWait,
     EpollNothing, BatchDone, ListenEvent, AcceptFails, Refuse, Admit, PushConnection,
     ConnectionCallback, EraseConnection, CloseTest, CloseSys, Accept, ClientEvent, StopBegin,
     Stopping, StopListening, StopLock, StopCloseSys, StopClear, StopEpoll, StopJoin,
     StopCloseTest, Worker, WorkerTake, SendTest, SendLoad, SendSome, SendFails, ErrorCallback,
     WorkerEnd, event, stopper

(* Where a connection that is to be used has its entry. *)
LEMMA KeptEntry ==
    ASSUME Good, epc # "ended"
    PROVE  /\ epc \notin {"push", "callback"} =>
                 \A c \in Conns : c \in ready \cup batch => c \in rpcConnections
           /\ epc \in {"erase", "close", "sysclose"} => at \in rpcConnections
  BY DEF Good, Serving, Kept

LEMMA KeptStep ==
    ASSUME Waiting, Good, [Next]_vars
    PROVE  Kept'
  <1>1. Kept
    BY DEF Good, Serving
  <1>2. \A w \in Workers : ErrorCallback(w) =>
            /\ wpc[w] = "error" /\ Busy(w) /\ task[w][1] \in Conns
            /\ UNCHANGED <<epc, at, spc, ready, batch, descriptor>>
    BY DEF ErrorCallback, Busy, Good, Basic, WorkerTypes, Requests, event, stopper, kernel
  <1>3. ASSUME NEW c \in (Referenced \ tcpConnections)'
        PROVE  state'[c] = "DISCONNECTED" \/ (at' = c /\ epc' \in {"push", "close", "sysclose"})
    <2>1. CASE Admit /\ c = at /\ epc' = "push" /\ at' = at
      BY <2>1
    <2>2. CASE c \in Referenced
      <3>1. c \in Conns
        <4>1. tasks \in Seq(Requests)
          BY DEF Good, Basic, ServerTypes
        <4>2. \A i \in 1..Len(tasks) : tasks[i][1] \in Conns
          BY <4>1, ElementOfSeq DEF Requests
        <4> QED BY <2>2, <4>2 DEF Referenced, Good, Basic, ServerTypes, WorkerTypes, EventTypes,
                   Requests, Handling
      <3>2. CASE c \in tcpConnections
        <4>1. tcpConnections' = tcpConnections \/ tcpConnections' = tcpConnections \cup {at}
              \/ (EraseConnection /\ epc' = "close" /\ at' = at
                      /\ tcpConnections' = tcpConnections \ {at})
              \/ StopClear
          BY DEF Next, Server, Connect, Request, Close, Reset, vars, EventThread, LoopTest,
            EpollWait, EpollNothing, BatchDone, ListenEvent, AcceptFails, Refuse, Admit,
            PushConnection, ConnectionCallback, EraseConnection, CloseTest, CloseSys, Accept,
            ClientEvent, StopBegin, Stopping, StopListening, StopLock, StopCloseSys, StopEpoll,
            StopJoin, StopCloseTest, Worker, WorkerTake, SendTest, SendLoad, SendSome, SendFails,
            ErrorCallback, WorkerEnd
        <4>2. CASE StopClear
          <5>1. state[c] = "DISCONNECTED"
            BY <3>2, <4>2 DEF StopClear, Good, Lists, Locked
          <5> QED BY <3>1, <5>1, DisconnectedStays
        <4>3. CASE ~StopClear
          BY <1>3, <3>2, <4>1, <4>3
        <4> QED BY <4>2, <4>3
      <3>3. CASE c \notin tcpConnections
        <4>1. state[c] = "DISCONNECTED" \/ (at = c /\ epc \in {"push", "close", "sysclose"})
          BY <1>1, <2>2, <3>3 DEF Kept
        <4>2. CASE state[c] = "DISCONNECTED"
          BY <3>1, <4>2, DisconnectedStays
        <4>3. CASE at = c /\ epc \in {"push", "close", "sysclose"} /\ state[c] # "DISCONNECTED"
          <5>1. CASE UNCHANGED <<epc, at>>
            BY <4>3, <5>1
          <5>2. CASE PushConnection
            BY <1>3, <4>3, <5>2 DEF PushConnection
          <5>3. CASE CloseTest
            BY <4>3, <5>3 DEF CloseTest
          <5>4. CASE CloseSys
            BY <3>1, <4>3, <5>4, Closes DEF CloseSys, Good
          <5>5. EventThread => PushConnection \/ CloseTest \/ CloseSys
            BY <4>3 DEF EventThread, LoopTest, EpollWait, EpollNothing, BatchDone, ListenEvent,
              AcceptFails, Refuse, Admit, ConnectionCallback, EraseConnection, Accept, ClientEvent
          <5> QED BY <5>1, <5>2, <5>3, <5>4, <5>5, EventPlaces
        <4> QED BY <4>1, <4>2, <4>3
      <3> QED BY <3>2, <3>3
    <2> QED BY <2>1, <2>2, ReferencesGrow DEF Good
  <1>4. spc' = "stopped" => epc' = "ended"
    BY <1>1, StopPlaces, EventPlaces DEF Kept
  <1>5. ASSUME spc' # "stopped", NEW c \in Conns, HasSocket(c)'
        PROVE  c \in rpcConnections' \/ (at' = c /\ epc' \in {"admit", "push", "callback"})
    <2>1. CASE Accept(c)
      BY <2>1 DEF Accept
    <2>2. CASE HasSocket(c)
      <3>1. c \in rpcConnections \/ (at = c /\ epc \in {"admit", "push", "callback"})
        BY <1>1, <1>5, <2>2, StopPlaces DEF Kept
      <3>2. CASE c \in rpcConnections
        <4>1. ASSUME NEW w \in Workers, ErrorCallback(w) PROVE c # task[w][1]
          BY <1>2, <2>2, <4>1 DEF Good, Serving, Own
        <4> QED BY <1>5, <3>2, <4>1, RpcListStays
      <3>3. CASE at = c /\ epc \in {"admit", "push", "callback"}
        <4>1. CASE UNCHANGED <<epc, at>>
          BY <3>3, <4>1
        <4>2. CASE Refuse
          BY <1>5, <3>3, <4>2, Refuses DEF Good
        <4>3. CASE Admit
          <5>1. CASE EpollOpen
            BY <3>3, <4>3, <5>1 DEF Admit
          <5>2. CASE ~EpollOpen
            BY <1>5, <3>3, <4>3, <5>2, CloseSocketKnown DEF Admit, Good
          <5> QED BY <5>1, <5>2
        <4>4. CASE PushConnection \/ ConnectionCallback
          BY <3>3, <4>4 DEF PushConnection, ConnectionCallback
        <4>5. EventThread => Refuse \/ Admit \/ PushConnection \/ ConnectionCallback
          BY <3>3 DEF EventThread, LoopTest, EpollWait, EpollNothing, BatchDone, ListenEvent,
            AcceptFails, EraseConnection, CloseTest, CloseSys, Accept, ClientEvent
        <4> QED BY <4>1, <4>2, <4>3, <4>4, <4>5, EventPlaces
      <3> QED BY <3>1, <3>2, <3>3
    <2> QED BY <1>5, <2>1, <2>2, SocketsStay
  <1>6. ASSUME spc' # "stopped", NEW c \in Conns, c \in (ready \cup batch)'
        PROVE  c \in rpcConnections' \/ (at' = c /\ epc' \in {"push", "callback"})
    <2>1. spc # "stopped"
      BY <1>6, StopPlaces
    <2>2. CASE c \in ready \cup batch
      <3>1. c \in rpcConnections \/ (at = c /\ epc \in {"push", "callback"})
        BY <1>1, <2>1, <2>2 DEF Kept
      <3>2. CASE c \in rpcConnections
        <4>1. ASSUME NEW w \in Workers, ErrorCallback(w) PROVE c # task[w][1]
          BY <1>2, <2>2, <4>1 DEF Good, Serving, Pending, Quiet
        <4> QED BY <1>6, <3>2, <4>1, RpcListStays
      <3>3. CASE at = c /\ epc \in {"push", "callback"}
        <4>1. CASE PushConnection \/ ConnectionCallback
          BY <3>3, <4>1 DEF PushConnection, ConnectionCallback
        <4>2. EventThread => PushConnection \/ ConnectionCallback
          BY <3>3 DEF EventThread, LoopTest, EpollWait, EpollNothing, BatchDone, ListenEvent,
            AcceptFails, Refuse, Admit, EraseConnection, CloseTest, CloseSys, Accept, ClientEvent
        <4> QED BY <3>3, <4>1, <4>2, EventPlaces
      <3> QED BY <3>1, <3>2, <3>3
    <2>3. CASE (Request(c) \/ Close(c)) /\ state[c] # "NONE" /\ HasSocket(c)
      <3>1. c \in rpcConnections \/ (at = c /\ epc \in {"admit", "push", "callback"})
        BY <1>1, <2>1, <2>3 DEF Kept
      <3>2. ~(at = c /\ epc = "admit")
        BY <2>3 DEF Good, Serving, Pending
      <3>3. UNCHANGED <<rpcConnections, at, epc>>
        BY <2>3 DEF Request, Close, event
      <3> QED BY <3>1, <3>2, <3>3
    <2>4. CASE Admit /\ c = at /\ epc' = "push"
      BY <2>4 DEF Admit
    <2> QED BY <1>6, <2>2, <2>3, <2>4, Wakes
  <1>7. ASSUME spc' # "stopped", epc' \in {"erase", "close", "sysclose"}
        PROVE  at' \in rpcConnections'
    <2>1. spc # "stopped"
      BY <1>7, StopPlaces
    <2>2. CASE epc \in {"erase", "close", "sysclose"} /\ at' = at
      <3>1. at \in rpcConnections /\ at \in Conns /\ Quiet(at)
        BY <1>1, <2>1, <2>2 DEF Kept, Good, Serving, Pending, Handling, Basic, EventTypes
      <3>2. ASSUME NEW w \in Workers, ErrorCallback(w) PROVE at # task[w][1]
        BY <1>2, <3>1, <3>2 DEF Quiet
      <3> QED BY <1>7, <2>2, <3>1, <3>2, RpcListStays
    <2>3. ASSUME NEW c \in Conns, ClientEvent(c), at' = c PROVE at' \in rpcConnections'
      <3>1. c \in rpcConnections /\ rpcConnections' = rpcConnections
        BY <2>3, KeptEntry DEF ClientEvent
      <3> QED BY <2>3, <3>1
    <2>4. CASE epc \in Handling /\ at' = at /\ epc \notin {"erase", "close", "sysclose"}
      <3>1. epc \in {"admit", "push", "callback"}
        BY <2>4 DEF Handling
      <3>2. epc' \notin {"erase", "close", "sysclose"}
        <4>1. CASE UNCHANGED epc
          BY <3>1, <4>1
        <4>2. EventThread => Refuse \/ Admit \/ PushConnection \/ ConnectionCallback
          BY <3>1 DEF EventThread, LoopTest, EpollWait, EpollNothing, BatchDone, ListenEvent,
            AcceptFails, EraseConnection, CloseTest, CloseSys, Accept, ClientEvent
        <4>3. Refuse \/ Admit \/ PushConnection \/ ConnectionCallback =>
                  epc' \in {"push", "callback", "next"}
          BY DEF Refuse, Admit, PushConnection, ConnectionCallback
        <4> QED BY <4>1, <4>2, <4>3, EventPlaces
      <3> QED BY <1>7, <3>2
    <2> QED BY <1>7, <2>2, <2>3, <2>4, Hands DEF Good, Handling
  <1> QED BY <1>3, <1>4, <1>5, <1>6, <1>7 DEF Kept

LEMMA NoUseAfterFreeStep ==
    ASSUME Good, [Next]_vars
    PROVE  NoUseAfterFree'
  <1>1. crashed # "freed"
    BY DEF Good, Serving, NoUseAfterFree
  <1>2. ASSUME NEW c \in Conns, ClientEvent(c) PROVE crashed' = crashed
    BY <1>2, Reads
  <1>3. CASE EraseConnection \/ CloseTest
    <2>1. at \in rpcConnections
      BY <1>3, KeptEntry DEF EraseConnection, CloseTest
    <2> QED BY <1>1, <1>3, <2>1 DEF EraseConnection, CloseTest, Referenced, NoUseAfterFree
  <1>4. CASE ~(EraseConnection \/ CloseTest) /\ \A c \in Conns : ~ClientEvent(c)
    <2>1. crashed' = crashed \/ crashed' = "wild"
      BY <1>4 DEF Next, Server, Connect, Request, Close, Reset, vars, EventThread, LoopTest,
        EpollWait, EpollNothing, BatchDone, ListenEvent, AcceptFails, Refuse, Admit,
        PushConnection, ConnectionCallback, CloseSys, Accept, StopBegin, Stopping, StopListening,
        StopLock, StopCloseSys, StopClear, StopEpoll, StopJoin, StopCloseTest, Worker, WorkerTake,
        SendTest, SendLoad, SendSome, SendFails, ErrorCallback, WorkerEnd
    <2> QED BY <1>1, <2>1 DEF NoUseAfterFree
  <1> QED BY <1>1, <1>2, <1>3, <1>4 DEF NoUseAfterFree

LEMMA ServingInit == Init => Serving
  <1> SUFFICES ASSUME Init PROVE Serving
    OBVIOUS
  <1>1. Len(tasks) = 0 /\ \A c \in Conns : Len(received[c]) = 0
    BY DEF Init
  <1>2. \A w \in Workers : wpc[w] = "idle" /\ done[w] = 0
    BY DEF Init
  <1>3. \A c \in Conns : taken[c] = 0 /\ sent[c] = 0 /\ peer[c] = "new" /\ ~HasSocket(c)
    BY ServerAssumption DEF Init, HasSocket
  <1>4. 0 * Units = 0
    BY ServerAssumption
  <1>5. Turns
    BY <1>1, <1>3, <1>4 DEF Turns
  <1>6. Queue
    BY <1>1 DEF Queue
  <1>7. Working
    BY <1>2 DEF Working, Busy
  <1>8. \A c \in Conns : Quiet(c)
    BY <1>1, <1>2 DEF Quiet, Busy
  <1>9. Own
    BY <1>2, <1>8 DEF Init, Own
  <1>10. Stays
    BY <1>3 DEF Init, Stays
  <1>11. Pending
    BY DEF Init, Pending, Handling
  <1>12. Kept
    <2>1. Referenced = {}
      BY <1>1, <1>2 DEF Init, Referenced
    <2> QED BY <1>3, <2>1 DEF Init, Kept
  <1>13. AnswersIntact
    BY <1>1 DEF AnswersIntact
  <1>14. NoUseAfterFree
    BY DEF Init, NoUseAfterFree
  <1> QED BY <1>5, <1>6, <1>7, <1>9, <1>10, <1>11, <1>12, <1>13, <1>14 DEF Serving

LEMMA ServingInvariant ==
    ASSUME Waiting
    PROVE  Spec => []Good
  <1>1. Init => Good
    BY BasicInit, ListsInit, SocketsInit, ServingInit DEF Good
  <1>2. Good /\ [Next]_vars => Good'
    <2>1. Good /\ [Next]_vars => (Basic /\ Lists /\ Strangers /\ Known)'
      BY BasicStep, ListsStep, StrangersStep, KnownStep DEF Good
    <2>2. Good /\ [Next]_vars => Serving'
      BY TurnsStep, QueueStep, WorkingStep, OwnStep, StaysStep, PendingStep, KeptStep,
         AnswersIntactStep, NoUseAfterFreeStep DEF Serving
    <2> QED BY <2>1, <2>2 DEF Good
  <1> QED BY <1>1, <1>2, PTL DEF Spec

(* The event thread never uses a freed connection as long as clients wait  *)
(* for their answers: each event is about a connection that RpcServer's    *)
(* list still holds, because an error of send() removes only the entry of  *)
(* a connection with a request, of which no event is pending.              *)
THEOREM ServerConnectionsNoUseAfterFree == Waiting => (Spec => []NoUseAfterFree)
  <1> SUFFICES ASSUME Waiting PROVE Spec => []NoUseAfterFree
    OBVIOUS
  <1>1. Good => NoUseAfterFree
    BY DEF Good, Serving
  <1> QED BY <1>1, ServingInvariant, PTL

(* What such a client receives are the responses to its own requests, in   *)
(* their order and without a gap, however the workers send, in however     *)
(* many pieces, and whatever the clients beside it and stop() do: a        *)
(* descriptor that is closed under a sender is not given out again.        *)
THEOREM ServerConnectionsAnswersIntact == Waiting => (Spec => []AnswersIntact)
  <1> SUFFICES ASSUME Waiting PROVE Spec => []AnswersIntact
    OBVIOUS
  <1>1. Good => AnswersIntact
    BY DEF Good, Serving
  <1> QED BY <1>1, ServingInvariant, PTL
-----------------------------------------------------------------------------
(* Any clients, until the first reset or stop() *)

Calm == reset = {} /\ spc = "no"

(* What has a socket has an entry in RpcServer's list, or is about to get  *)
(* it; what has an event has a socket.  An entry goes only with an error   *)
(* of send(), and without a reset that means that there is no socket.      *)
Anchored ==
    /\ hangups = {}
    /\ \A c \in Conns : HasSocket(c) =>
          c \in rpcConnections \/ (at = c /\ epc \in {"admit", "push", "callback"})
    /\ \A c \in Conns : c \in ready \cup batch => HasSocket(c)
    /\ epc \in Handling => at \notin batch
    /\ epc = "admit" => state[at] = "NONE" /\ at \notin ready \cup Referenced
    /\ epc \in {"admit", "erase", "close", "sysclose"} => HasSocket(at)
    /\ epc \in {"erase", "close", "sysclose"} => closes = 1
    /\ \A w \in Workers : wpc[w] = "error" => ~HasSocket(task[w][1])

Safe == Bounded /\ Calm /\ Anchored /\ NoUseAfterFree

LEMMA CalmBefore == ASSUME [Next]_vars, Calm' PROVE Calm /\ ~Stopping /\ ~StopBegin
  <1>1. Calm
    BY DEF Calm, Next, Server, Connect, Request, Close, Reset, vars, EventThread, LoopTest,
     EpollWait, EpollNothing, BatchDone, ListenEvent, AcceptFails, Refuse, Admit, PushConnection,
     ConnectionCallback, EraseConnection, CloseTest, CloseSys, Accept, ClientEvent, StopBegin,
     Stopping, StopListening, StopLock, StopCloseSys, StopClear, StopEpoll, StopJoin,
     StopCloseTest, Worker, WorkerTake, SendTest, SendLoad, SendSome, SendFails, ErrorCallback,
     WorkerEnd, kernel, stopper
  <1>2. ~StopBegin /\ ~Stopping
    BY <1>1 DEF Calm, StopBegin, Stopping, StopListening, StopLock, StopCloseSys, StopClear,
       StopEpoll, StopJoin, StopCloseTest
  <1> QED BY <1>1, <1>2

(* No destructor closes a socket. *)
LEMMA SafeDestroys ==
    ASSUME Safe, EraseConnection \/ (\E w \in Workers : WorkerEnd(w))
    PROVE  UNCHANGED <<descriptor, ready>>
  <1>1. DestroyUnreferenced /\ UNCHANGED rpcConnections
    BY DEF EraseConnection, WorkerEnd
  <1>2. epc \in {"push", "callback"} => UNCHANGED <<epc, at>>
    BY DEF EraseConnection, WorkerEnd, event
  <1>3. ASSUME NEW c \in Conns, c \in Referenced \ Referenced', HasSocket(c) PROVE FALSE
    <2>1. c \notin rpcConnections
      BY <1>1, <1>3 DEF Referenced
    <2>2. at = c /\ epc \in {"admit", "push", "callback"}
      BY <1>3, <2>1 DEF Safe, Anchored
    <2>3. epc # "admit"
      BY <1>3, <2>2 DEF Safe, Anchored
    <2>4. at' = c /\ epc' \in {"push", "callback"}
      BY <1>2, <2>2, <2>3
    <2>5. c \in Referenced'
      BY <2>4 DEF Referenced
    <2> QED BY <1>3, <2>5
  <1>4. /\ descriptor' \in [Fds -> Conns \cup {None}] /\ ready' \subseteq ready
        /\ \A f \in Fds : descriptor'[f] = descriptor[f] \/ descriptor[f] \in Referenced \ Referenced'
        /\ \A c \in ready \ ready' : c \in Referenced \ Referenced'
    BY <1>1, Destroys DEF Safe, Bounded
  <1>5. /\ descriptor \in [Fds -> Conns \cup {None}] /\ ready \subseteq Conns
        /\ Referenced \subseteq Conns
    <2>1. \A i \in 1..Len(tasks) : tasks[i] \in Requests
      BY ElementOfSeq DEF Safe, Bounded, Basic, ServerTypes
    <2>2. {tasks[i][1] : i \in 1..Len(tasks)} \subseteq Conns
      BY <2>1 DEF Requests
    <2>3. {task[w][1] : w \in {v \in Workers : wpc[v] # "idle"}} \subseteq Conns
      BY DEF Safe, Bounded, Basic, WorkerTypes, Requests
    <2>4. epc \in {"push", "callback"} => at \in Conns
      BY DEF Safe, Bounded, Basic, EventTypes, Handling
    <2> QED BY <2>2, <2>3, <2>4 DEF Referenced, Safe, Bounded, Basic, ServerTypes, ClientTypes
  <1>6. \A f \in Fds : descriptor'[f] = descriptor[f]
    <2> SUFFICES ASSUME NEW f \in Fds, descriptor'[f] # descriptor[f] PROVE FALSE
      OBVIOUS
    <2>1. descriptor[f] \in Referenced \ Referenced' /\ descriptor[f] \in Conns
      BY <1>4, <1>5
    <2>2. HasSocket(descriptor[f])
      BY <2>1 DEF HasSocket
    <2> QED BY <1>3, <2>1, <2>2
  <1>7. ready' = ready
    <2>1. \A c \in ready : HasSocket(c)
      BY <1>5 DEF Safe, Anchored
    <2> QED BY <1>3, <1>4, <1>5, <2>1
  <1> QED BY <1>4, <1>5, <1>6, <1>7

(* The steps that open and close sockets. *)
LEMMA SafeSockets ==
    ASSUME Safe, [Next]_vars, Calm', NEW c \in Conns
    PROVE  /\ HasSocket(c)' => HasSocket(c) \/ Accept(c)
           /\ HasSocket(c) => HasSocket(c)' \/ (c = at /\ (Refuse \/ CloseSys))
  <1>1. CASE Refuse \/ CloseSys
    <2>1. at \in Conns /\ HasSocket(at) /\ Basic /\ Known
      BY <1>1 DEF Refuse, CloseSys, Safe, Anchored, Bounded, Basic, EventTypes, Handling
    <2>2. \A f \in Fds : descriptor'[f] = IF f = sockfd[at] THEN None ELSE descriptor[f]
      BY <1>1, <2>1, Closes DEF Refuse, CloseSys, Basic, ServerTypes
    <2>3. descriptor[sockfd[at]] = at
      BY <2>1, ServerAssumption DEF HasSocket, Known
    <2>4. \A f \in Fds : descriptor[f] = at => f = sockfd[at]
      BY <2>1, ServerAssumption DEF Known
    <2> QED BY <1>1, <2>1, <2>2, <2>3, <2>4, ServerAssumption DEF HasSocket
  <1>2. ASSUME NEW d \in Conns, Accept(d)
        PROVE  (HasSocket(c) => HasSocket(c)') /\ (HasSocket(c)' => HasSocket(c) \/ c = d)
    <2>1. PICK f \in Fds : /\ descriptor[f] = None
                           /\ \A g \in Fds : descriptor'[g] = IF g = f THEN d ELSE descriptor[g]
      BY <1>2, AcceptsAt DEF Safe, Bounded
    <2> QED BY <2>1, ServerAssumption DEF HasSocket
  <1>3. CASE UNCHANGED descriptor
    BY <1>3 DEF HasSocket
  <1>4. CASE EraseConnection \/ (\E w \in Workers : WorkerEnd(w))
    BY <1>3, <1>4, SafeDestroys
  <1>5. CASE Admit
    BY <1>3, <1>5 DEF Admit, EpollOpen, Safe, Calm
  <1>6. CASE LoopTest \/ EpollWait \/ EpollNothing \/ BatchDone \/ ListenEvent \/ AcceptFails
             \/ PushConnection \/ ConnectionCallback \/ CloseTest
             \/ (\E d \in Conns : ClientEvent(d))
    BY <1>3, <1>6 DEF LoopTest, EpollWait, EpollNothing, BatchDone, ListenEvent, AcceptFails,
       PushConnection, ConnectionCallback, CloseTest, ClientEvent, kernel
  <1>7. ASSUME NEW w \in Workers, Worker(w), ~WorkerEnd(w) PROVE UNCHANGED descriptor
    BY <1>7 DEF Worker, WorkerTake, SendTest, SendLoad, SendSome, SendFails, ErrorCallback, kernel
  <1>8. CASE (\E d \in Conns : Connect(d) \/ Request(d) \/ Close(d) \/ Reset(d)) \/ UNCHANGED vars
    BY <1>3, <1>8 DEF Connect, Request, Close, Reset, vars, kernel
  <1> QED BY <1>1, <1>2, <1>3, <1>4, <1>5, <1>6, <1>7, <1>8, CalmBefore
          DEF Next, Server, EventThread

(* Where an edge comes from. *)
LEMMA SafeWakes ==
    ASSUME Basic, [Next]_vars, Calm', NEW c \in Conns, c \in (ready \cup batch)'
    PROVE  \/ c \in ready \cup batch
           \/ (Request(c) \/ Close(c)) /\ state[c] # "NONE" /\ HasSocket(c)
           \/ Admit /\ c = at
  <1>1. ASSUME NEW d \in Conns, Connect(d) \/ Request(d) \/ Close(d), c \notin ready \cup batch
        PROVE  (Request(c) \/ Close(c)) /\ state[c] # "NONE" /\ HasSocket(c)
    BY <1>1 DEF Connect, Request, Close, Edge, event
  <1>2. ASSUME NEW d \in Conns, Reset(d) PROVE FALSE
    BY <1>2 DEF Reset, Calm
  <1>3. CASE Admit
    BY <1>3 DEF Admit, CloseSocket
  <1>4. CASE EraseConnection \/ (\E w \in Workers : WorkerEnd(w))
    <2>1. batch' = batch /\ DestroyUnreferenced
      BY <1>4 DEF EraseConnection, WorkerEnd, event
    <2> QED BY <2>1, Destroys
  <1>5. CASE EventThread /\ ~Admit /\ ~EraseConnection
    <2>1. (ready \cup batch)' \subseteq ready \cup batch \cup {Listener}
      BY <1>5 DEF EventThread, LoopTest, EpollWait, EpollNothing, BatchDone, ListenEvent,
         AcceptFails, Refuse, PushConnection, ConnectionCallback, CloseTest, CloseSys, CloseSocket,
         Accept, ClientEvent, Ready, kernel
    <2> QED BY <2>1, ServerAssumption
  <1>6. ASSUME NEW w \in Workers, Worker(w), ~WorkerEnd(w) PROVE UNCHANGED <<ready, batch>>
    BY <1>6 DEF Worker, WorkerTake, SendTest, SendLoad, SendSome, SendFails, ErrorCallback, kernel,
       event
  <1>7. UNCHANGED vars => UNCHANGED <<ready, batch>>
    BY DEF vars, kernel, event
  <1> QED BY <1>1, <1>2, <1>3, <1>4, <1>5, <1>6, <1>7, CalmBefore DEF Next, Server

(* A socket has its entry, from the callback on and as long as it is open. *)
LEMMA SafeEntries ==
    ASSUME Safe, [Next]_vars, Calm', NEW c \in Conns, HasSocket(c)'
    PROVE  c \in rpcConnections' \/ (at' = c /\ epc' \in {"admit", "push", "callback"})
  <1>1. CASE Accept(c)
    BY <1>1 DEF Accept
  <1>2. CASE HasSocket(c) /\ c \in rpcConnections
    <2>1. ASSUME NEW w \in Workers, ErrorCallback(w) PROVE c # task[w][1]
      BY <1>2, <2>1 DEF ErrorCallback, Safe, Anchored
    <2> QED BY <1>2, <2>1, RpcListStays DEF Calm
  <1>3. CASE at = c /\ epc \in {"admit", "push", "callback"}
    <2>1. CASE UNCHANGED <<epc, at>>
      BY <1>3, <2>1
    <2>2. CASE Refuse
      BY <1>3, <2>2, Refuses DEF Safe, Bounded
    <2>3. CASE Admit \/ PushConnection
      BY <1>3, <2>3 DEF Admit, PushConnection, EpollOpen, Safe, Calm
    <2>4. CASE ConnectionCallback
      BY <1>3, <2>4 DEF ConnectionCallback
    <2>5. EventThread => Refuse \/ Admit \/ PushConnection \/ ConnectionCallback
      BY <1>3 DEF EventThread, LoopTest, EpollWait, EpollNothing, BatchDone, ListenEvent,
         AcceptFails, EraseConnection, CloseTest, CloseSys, Accept, ClientEvent
    <2> QED BY <2>1, <2>2, <2>3, <2>4, <2>5, EventPlaces
  <1> QED BY <1>1, <1>2, <1>3, SafeSockets DEF Safe, Anchored

(* An event is about a connection that has a socket, and not about the one *)
(* in the event thread's hands.                                            *)
LEMMA SafeEvents ==
    ASSUME Safe, [Next]_vars, Calm'
    PROVE  /\ \A c \in Conns : c \in (ready \cup batch)' => HasSocket(c)'
           /\ epc' \in Handling => at' \notin batch'
           /\ hangups' = {}
  <1>1. ASSUME NEW c \in Conns, c \in (ready \cup batch)' PROVE HasSocket(c)'
    <2>1. HasSocket(c)
      <3>1. Admit => HasSocket(at)
        BY DEF Admit, Safe, Anchored
      <3> QED BY <1>1, <3>1, SafeWakes DEF Safe, Bounded, Anchored
    <2>2. CASE c = at /\ Refuse
      BY <1>1, <2>2 DEF Refuse, Safe, Anchored, Handling
    <2>3. CASE c = at /\ CloseSys
      BY <1>1, <2>3 DEF CloseSys, CloseSocket, Safe, Anchored, Handling
    <2> QED BY <2>1, <2>2, <2>3, SafeSockets
  <1>2. ASSUME epc' \in Handling PROVE at' \notin batch'
    <2>1. CASE epc \in Handling /\ at' = at
      <3>1. at \notin batch /\ epc # "wait"
        BY <2>1 DEF Safe, Anchored, Handling
      <3> QED BY <2>1, <3>1, BatchShrinks DEF EpollWait
    <2>2. ASSUME NEW c \in Conns, Accept(c), at' = c PROVE at' \notin batch'
      <3>1. Strange(c) /\ batch' = batch
        BY <2>2, Accepts DEF Accept, Safe, Bounded
      <3> QED BY <2>2, <3>1 DEF Strange
    <2>3. ASSUME NEW c \in Conns, ClientEvent(c), at' = c PROVE at' \notin batch'
      BY <2>3 DEF ClientEvent
    <2> QED BY <1>2, <2>1, <2>2, <2>3, Hands DEF Safe, Bounded
  <1>3. hangups' \subseteq hangups \cup reset
    BY DEF Next, Server, Connect, Request, Close, Reset, vars, EventThread, LoopTest, EpollWait,
     EpollNothing, BatchDone, ListenEvent, AcceptFails, Refuse, Admit, PushConnection,
     ConnectionCallback, EraseConnection, CloseTest, CloseSys, Accept, ClientEvent, StopBegin,
     Stopping, StopListening, StopLock, StopCloseSys, StopClear, StopEpoll, StopJoin,
     StopCloseTest, Worker, WorkerTake, SendTest, SendLoad, SendSome, SendFails, ErrorCallback,
     WorkerEnd, event
  <1> QED BY <1>1, <1>2, <1>3 DEF Safe, Calm, Anchored

(* Nothing knows of the connection that is being admitted. *)
LEMMA SafeAdmits ==
    ASSUME Safe, [Next]_vars, Calm', epc' = "admit"
    PROVE  state'[at'] = "NONE" /\ at' \notin (ready \cup Referenced)'
  <1>1. CASE epc = "admit" /\ at' = at
    <2>1. /\ at \in Conns /\ Basic /\ state[at] = "NONE" /\ at \notin ready \cup Referenced
          /\ at \notin batch
      BY <1>1 DEF Safe, Anchored, Bounded, Basic, EventTypes, Handling
    <2>2. ~Admit /\ ~CloseTest /\ ~CloseSys
      BY <1>1 DEF Admit, CloseTest, CloseSys, CloseSocket
    <2>3. ASSUME NEW w \in Workers, SendFails(w) PROVE at # task[w][1]
      <3>1. task[w][1] \in Referenced
        BY <2>3 DEF SendFails, Referenced
      <3> QED BY <2>1, <3>1
    <2>4. state'[at] = "NONE"
      <3>1. ~StopCloseTest(at) /\ ~StopCloseSys
        BY <2>1, CalmBefore DEF Stopping
      <3> QED BY <2>1, <2>2, <2>3, <3>1, States
    <2>5. at \notin ready'
      BY <2>1, <2>2, SafeWakes
    <2>6. at \notin Referenced'
      BY <2>1, <2>2, ReferencesGrow
    <2> QED BY <1>1, <2>4, <2>5, <2>6
  <1>2. ASSUME NEW c \in Conns, Accept(c), at' = c
        PROVE  state'[c] = "NONE" /\ c \notin (ready \cup Referenced)'
    <2>1. Strange(c)
      BY <1>2, Accepts DEF Safe, Bounded
    <2>2. UNCHANGED <<state, ready, tcpConnections, rpcConnections, tasks, worker>>
      BY <1>2 DEF Accept
    <2>3. epc' = "admit"
      BY <1>2 DEF Accept
    <2> QED BY <2>1, <2>2, <2>3 DEF Strange, Referenced, worker
  <1>3. epc \in Handling /\ at' = at => epc = "admit"
    <2>1. EventThread => epc = "admit" \/ epc \notin Handling
      BY DEF EventThread, LoopTest, EpollWait, EpollNothing, BatchDone, ListenEvent, AcceptFails,
         Refuse, Admit, PushConnection, ConnectionCallback, EraseConnection, CloseTest, CloseSys,
         CloseCallDone, Accept, ClientEvent, Handling
    <2> QED BY <2>1, EventPlaces
  <1> QED BY <1>1, <1>2, <1>3, Hands DEF Safe, Bounded, Handling

(* handleClientClose is called once, for a connection that has a socket.   *)
LEMMA SafeCloses ==
    ASSUME Safe, [Next]_vars, Calm', epc' \in {"erase", "close", "sysclose"}
    PROVE  HasSocket(at)' /\ closes' = 1
  <1>1. CASE epc \in Handling /\ at' = at
    <2>1. ~Refuse /\ ~Admit /\ ~PushConnection /\ ~ConnectionCallback
      BY DEF Refuse, Admit, PushConnection, ConnectionCallback
    <2>2. epc \in {"erase", "close", "sysclose"}
      <3>1. EventThread => EraseConnection \/ CloseTest \/ CloseSys
        BY <1>1, <2>1 DEF EventThread, LoopTest, EpollWait, EpollNothing, BatchDone, ListenEvent,
           AcceptFails, Accept, ClientEvent, Handling
      <3> QED BY <3>1, EventPlaces DEF EraseConnection, CloseTest, CloseSys
    <2>3. at \in Conns /\ HasSocket(at) /\ closes = 1
      BY <1>1, <2>2 DEF Safe, Anchored, Bounded, Basic, EventTypes
    <2>4. ~CloseCallDone
      BY <2>3 DEF CloseCallDone
    <2>5. ~CloseSys
      BY <2>4 DEF CloseSys
    <2>6. HasSocket(at)'
      <3>1. HasSocket(at) => \E f \in Fds : descriptor'[f] = at
        BY <2>1, <2>3, <2>5, SafeSockets DEF HasSocket
      <3> QED BY <1>1, <2>3, <3>1 DEF HasSocket
    <2>7. closes' = closes
      BY <1>1, <2>4 DEF Next, Server, Connect, Request, Close, Reset, vars, EventThread, LoopTest,
       EpollWait, EpollNothing, BatchDone, ListenEvent, AcceptFails, Refuse, Admit, PushConnection,
       ConnectionCallback, EraseConnection, CloseTest, CloseSys, Accept, ClientEvent, StopBegin,
       Stopping, StopListening, StopLock, StopCloseSys, StopClear, StopEpoll, StopJoin,
       StopCloseTest, Worker, WorkerTake, SendTest, SendLoad, SendSome, SendFails, ErrorCallback,
       WorkerEnd, event, Handling
    <2> QED BY <2>3, <2>6, <2>7
  <1>2. ASSUME NEW c \in Conns, ClientEvent(c), at' = c PROVE HasSocket(at)' /\ closes' = 1
    <2>1. HasSocket(c) /\ c \notin hangups
      BY <1>2 DEF ClientEvent, Safe, Anchored
    <2>2. UNCHANGED descriptor /\ epc = "next"
      BY <1>2 DEF ClientEvent
    <2>3. closes' \in 0..1 /\ closes' > 0
      BY <1>2, <2>1, <2>2 DEF ClientEvent
    <2> QED BY <1>2, <2>1, <2>2, <2>3 DEF HasSocket
  <1> QED BY <1>1, <1>2, Hands DEF Safe, Bounded, Handling

(* send() fails only where the socket is closed. *)
LEMMA SafeErrors ==
    ASSUME Safe, [Next]_vars, Calm', NEW w \in Workers, wpc'[w] = "error"
    PROVE  ~HasSocket(task[w][1])'
  <1>1. CASE SendFails(w)
    <2>1. task[w] \in Requests /\ wpc[w] = "send" /\ ~Sendable(w) /\ UNCHANGED <<descriptor, task>>
      BY <1>1 DEF SendFails, Safe, Bounded, Basic, WorkerTypes, kernel
    <2>2. task[w][1] \in Conns /\ task[w][1] # None
      BY <2>1, ServerAssumption DEF Requests
    <2>3. \A f \in Fds : descriptor[f] # task[w][1]
      <3> SUFFICES ASSUME NEW f \in Fds, descriptor[f] = task[w][1] PROVE FALSE
        OBVIOUS
      <3>1. fd[w] = f
        BY <2>1 DEF Safe, Bounded, Known
      <3> QED BY <2>1, <2>2, <3>1 DEF Sendable, Target, Safe, Calm
    <2> QED BY <2>1, <2>3 DEF HasSocket
  <1>2. CASE wpc[w] = "error" /\ task'[w] = task[w]
    <2>1. task[w] \in Requests /\ Basic /\ Strangers /\ Known /\ ~HasSocket(task[w][1])
      BY <1>2 DEF Safe, Anchored, Bounded, Basic, WorkerTypes
    <2>2. PICK c \in Conns : c = task[w][1]
      BY <2>1 DEF Requests
    <2>3. ~Accept(c)
      BY <1>2, <2>1, <2>2, Accepts DEF Strange
    <2>4. \A f \in Fds : descriptor'[f] # c
      BY <2>1, <2>2, <2>3, SafeSockets DEF HasSocket
    <2> QED BY <1>2, <2>2, <2>4 DEF HasSocket
  <1> QED BY <1>1, <1>2, SendPlaces DEF Safe, Bounded

LEMMA SafeNoUse ==
    ASSUME Safe, [Next]_vars, Calm'
    PROVE  NoUseAfterFree'
  <1>1. ASSUME NEW c \in Conns, ClientEvent(c) PROVE crashed' = crashed
    <2>1. epc = "next" /\ c \in batch
      BY <1>1 DEF ClientEvent
    <2>2. c \in Referenced
      BY <2>1 DEF Safe, Anchored, Referenced
    <2> QED BY <1>1, <2>2 DEF ClientEvent
  <1>2. CASE EraseConnection \/ CloseTest
    <2>1. epc \in {"erase", "close"} /\ at \in Conns
      BY <1>2 DEF EraseConnection, CloseTest, Safe, Bounded, Basic, EventTypes, Handling
    <2>2. at \in Referenced
      BY <2>1 DEF Safe, Anchored, Referenced
    <2> QED BY <1>2, <2>2 DEF EraseConnection, CloseTest, Safe, NoUseAfterFree
  <1>3. CASE ListenEvent
    BY <1>3 DEF ListenEvent, Safe, NoUseAfterFree
  <1>4. CASE ~EraseConnection /\ ~CloseTest /\ ~ListenEvent /\ \A c \in Conns : ~ClientEvent(c)
    <2>1. crashed' = crashed
      BY <1>4 DEF Next, Server, Connect, Request, Close, Reset, vars, EventThread, LoopTest,
       EpollWait, EpollNothing, BatchDone, AcceptFails, Refuse, Admit, PushConnection,
       ConnectionCallback, CloseSys, Accept, StopBegin, Stopping, StopListening, StopLock,
       StopCloseSys, StopClear, StopEpoll, StopJoin, StopCloseTest, Worker, WorkerTake, SendTest,
       SendLoad, SendSome, SendFails, ErrorCallback, WorkerEnd
    <2> QED BY <2>1 DEF Safe, NoUseAfterFree
  <1> QED BY <1>1, <1>2, <1>3, <1>4 DEF Safe, NoUseAfterFree

LEMMA SafeStep ==
    ASSUME Safe, [Next]_vars, Calm'
    PROVE  (Anchored /\ NoUseAfterFree)'
  <1>1. hangups' = {} /\ (epc' \in Handling => at' \notin batch')
    BY SafeEvents
  <1>2. \A c \in Conns : HasSocket(c)' =>
            c \in rpcConnections' \/ (at' = c /\ epc' \in {"admit", "push", "callback"})
    BY SafeEntries
  <1>3. \A c \in Conns : c \in (ready \cup batch)' => HasSocket(c)'
    BY SafeEvents
  <1>4. epc' = "admit" => state'[at'] = "NONE" /\ at' \notin (ready \cup Referenced)'
    BY SafeAdmits
  <1>5. epc' \in {"erase", "close", "sysclose"} => HasSocket(at)' /\ closes' = 1
    BY SafeCloses
  <1>6. \A w \in Workers : wpc'[w] = "error" => ~HasSocket(task[w][1])'
    BY SafeErrors
  <1>7. epc' = "admit" => HasSocket(at)'
    <2>1. CASE epc' = "admit" /\ epc \in Handling /\ at' = at
      <3>1. EventThread => FALSE
        BY <2>1 DEF EventThread, LoopTest, EpollWait, EpollNothing, BatchDone, ListenEvent,
         AcceptFails, Refuse, Admit, PushConnection, ConnectionCallback, EraseConnection,
         CloseTest, CloseSys, CloseCallDone, Accept, ClientEvent, Handling
      <3>2. epc = "admit" /\ at \in Conns /\ HasSocket(at) /\ ~Refuse /\ ~CloseSys
        <4>1. epc = "admit"
          BY <2>1, <3>1, EventPlaces
        <4> QED BY <2>1, <4>1 DEF Safe, Anchored, Bounded, Basic, EventTypes, Refuse, CloseSys
      <3>3. \E f \in Fds : descriptor'[f] = at
        BY <3>2, SafeSockets DEF HasSocket
      <3> QED BY <2>1, <3>3 DEF HasSocket
    <2>2. ASSUME NEW c \in Conns, Accept(c), at' = c PROVE HasSocket(at)'
      <3>1. \E f \in Fds : descriptor'[f] = c
        BY <2>2, AcceptsAt DEF Safe, Bounded
      <3> QED BY <2>2, <3>1 DEF HasSocket
    <2> QED BY <2>1, <2>2, Hands DEF Safe, Bounded, Handling
  <1>8. NoUseAfterFree'
    BY SafeNoUse
  <1> QED BY <1>1, <1>2, <1>3, <1>4, <1>5, <1>6, <1>7, <1>8 DEF Anchored

(* Clients may leave when they like, with any number of requests open: the *)
(* event thread uses no freed connection until one of them resets its      *)
(* connection or stop() is called.  A worker whose send() fails then works *)
(* for a connection that the event thread has closed itself, so the entry  *)
(* that handleError removes is one that nobody comes back for.             *)
THEOREM ServerConnectionsSafeUntilReset == Spec => []SafeUntilReset
  <1> DEFINE Inv == Bounded /\ (Calm => Anchored /\ NoUseAfterFree)
  <1>1. Init => Inv
    <2>1. Init => Bounded
      BY BasicInit, ListsInit, SocketsInit DEF Bounded
    <2>2. Init => Anchored
      <3>1. Init => \A c \in Conns : ~HasSocket(c)
        BY ServerAssumption DEF Init, HasSocket
      <3> QED BY <3>1 DEF Init, Anchored, Handling
    <2>3. Init => NoUseAfterFree
      BY DEF Init, NoUseAfterFree
    <2> QED BY <2>1, <2>2, <2>3
  <1>2. Inv /\ [Next]_vars => Inv'
    <2> SUFFICES ASSUME Inv, [Next]_vars PROVE Inv'
      OBVIOUS
    <2>1. Bounded'
      BY BasicStep, ListsStep, StrangersStep, KnownStep, PlacedStep, RoomStep DEF Bounded
    <2>2. Calm' => (Anchored /\ NoUseAfterFree)'
      BY CalmBefore, SafeStep DEF Safe
    <2> QED BY <2>1, <2>2
  <1>3. Inv => SafeUntilReset
    BY DEF Calm, SafeUntilReset
  <1> QED BY <1>1, <1>2, <1>3, PTL DEF Spec
=============================================================================
