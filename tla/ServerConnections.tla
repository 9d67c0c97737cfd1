-------------------------- MODULE ServerConnections --------------------------
(***************************************************************************)
(* The connections of a running server and the threads that use them: the  *)
(* event thread of TcpServerImpl, the workers of RpcServer's pool, which   *)
(* send the responses themselves, and a thread in RpcServer::stop()        *)
(* (src/src/transport/tcp_server.cpp, tcp_connection.cpp,                  *)
(* src/src/core/rpc_server.cpp).                                           *)
(*                                                                         *)
(* What FrameReader and ThreadPool say in detail is taken as given here: a *)
(* read takes the whole frames that the socket holds, and the pool is a    *)
(* queue that is never stopped.                                            *)
(***************************************************************************)
EXTENDS Integers, Sequences, FiniteSets

CONSTANTS
    Conns,           \* clients; each connects once.  A name stands for the
                     \* client, for its socket and for its TcpConnectionImpl
    Workers,
    MaxConnections,  \* max_connections_
    MaxFds,          \* descriptors the process may open for connections
    MaxRequests,     \* bound: how many requests a client makes
    Outstanding,     \* how many of them may await their response
    Units,           \* a response is so many pieces, sent one or more at a time
    Patient,         \* clients that only leave when their requests are answered
    MayStop,         \* the application calls stop()
    Listener,        \* stands for listen_sockfd_ among the epoll events
    None

ASSUME ServerAssumption ==
    /\ IsFiniteSet(Conns)
    /\ MaxConnections \in Nat /\ MaxFds \in Nat
    /\ MaxRequests \in Nat /\ Outstanding \in Nat \ {0} /\ Units \in Nat \ {0}
    /\ Patient \subseteq Conns /\ MayStop \in BOOLEAN
    /\ Listener \notin Conns /\ None \notin Conns

Fds == 1..MaxFds

VARIABLES
    (* the clients and the kernel *)
    peer,            \* "new", "open" or "closed"
    sent,            \* how many requests a client has sent
    taken,           \* how many of them have been read from the socket
    received,        \* what the client has received
    backlog,         \* connections that are established but not accepted
    reset,           \* connections that the client's kernel has reset
    descriptor,      \* the connection that a descriptor number stands for
    ready,           \* connections with an edge that epoll has not reported
    (* TcpConnectionImpl *)
    state,           \* state_
    sockfd,          \* sockfd_, 0 for -1
    (* TcpServerImpl and RpcServer *)
    running,
    listening,       \* listen_sockfd_ is open
    tcpConnections,  \* connections_ of TcpServerImpl
    rpcConnections,  \* connections_ of RpcServer
    tasks,           \* tasks_ of the thread pool
    (* the event thread *)
    epc,
    batch,           \* events that epoll_wait returned and that are not handled
    hangups,         \* those of them that have EPOLLERR or EPOLLHUP
    at,              \* the connection that is being handled
    closes,          \* how often handleClientClose is still to be called for it
    (* the workers *)
    wpc, task,
    fd,              \* the descriptor that send() is called with
    done,            \* total_sent
    (* the thread in stop() *)
    spc,
    toClose, closing,
    crashed          \* "no", "freed" (a freed connection was used) or "wild"
                     \* (what is not a connection was used as one)

peers == <<peer, sent>>
kernel == <<taken, received, backlog, reset, descriptor, ready>>
objects == <<state, sockfd>>
flags == <<running, listening>>
event == <<epc, batch, hangups, at, closes>>
worker == <<wpc, task, fd, done>>
stopper == <<spc, toClose, closing>>

vars == <<peers, kernel, objects, flags, tcpConnections, rpcConnections, tasks, event,
          worker, stopper, crashed>>

(* The state after start(). *)
Init ==
    /\ peer = [c \in Conns |-> "new"]
    /\ sent = [c \in Conns |-> 0]
    /\ taken = [c \in Conns |-> 0]
    /\ received = [c \in Conns |-> <<>>]
    /\ backlog = {} /\ reset = {} /\ ready = {}
    /\ descriptor = [f \in Fds |-> None]
    /\ state = [c \in Conns |-> "NONE"]
    /\ sockfd = [c \in Conns |-> 0]
    /\ running = TRUE /\ listening = TRUE
    /\ tcpConnections = {} /\ rpcConnections = {}
    /\ tasks = <<>>
    /\ epc = "loop" /\ batch = {} /\ hangups = {} /\ at = None /\ closes = 0
    /\ wpc = [w \in Workers |-> "idle"]
    /\ task = [w \in Workers |-> <<None, 0>>]
    /\ fd = [w \in Workers |-> 0]
    /\ done = [w \in Workers |-> 0]
    /\ spc = "no" /\ toClose = {} /\ closing = None
    /\ crashed = "no"

(* The server's end of the connection is open. *)
HasSocket(c) == \E f \in Fds : descriptor[f] = c

Whole(c, n) == [i \in 1..Units |-> <<c, n, i>>]

-----------------------------------------------------------------------------
(* The shared_ptrs to a connection: in the two lists, in the tasks, in the *)
(* hands of the workers, and in handleNewConnection.                       *)

Referenced ==
    tcpConnections \cup rpcConnections
        \cup {tasks[i][1] : i \in 1..Len(tasks)}
        \cup {task[w][1] : w \in {v \in Workers : wpc[v] # "idle"}}
        \cup (IF epc \in {"push", "callback"} THEN {at} ELSE {})

(* The destructors of the connections that lose their last reference: they *)
(* close(), which does nothing in the state DISCONNECTED.                  *)
DestroyUnreferenced ==
    LET closed == {c \in Referenced \ Referenced' : state[c] # "DISCONNECTED"}
    IN  /\ descriptor' = [f \in Fds |-> IF descriptor[f] \in closed THEN None ELSE descriptor[f]]
        /\ ready' = ready \ closed

(* ::close(sockfd_) and what follows it in close(). *)
CloseSocket(c) ==
    /\ descriptor' = [f \in Fds |-> IF f = sockfd[c] THEN None ELSE descriptor[f]]
    /\ ready' = ready \ {c}
    /\ sockfd' = [sockfd EXCEPT ![c] = 0]
    /\ state' = [state EXCEPT ![c] = "DISCONNECTED"]

-----------------------------------------------------------------------------
(* Clients *)

Answered(c) == Len(received[c]) \div Units

Connect(c) ==
    /\ peer[c] = "new"
    /\ listening
    /\ peer' = [peer EXCEPT ![c] = "open"]
    /\ backlog' = backlog \cup {c}
    /\ UNCHANGED <<sent, taken, received, reset, descriptor, ready, objects, flags,
                   tcpConnections, rpcConnections, tasks, event, worker, stopper, crashed>>

(* A connection is watched by epoll once it is in the list. *)
Edge(c) == ready' = IF state[c] # "NONE" /\ HasSocket(c) THEN ready \cup {c} ELSE ready

Request(c) ==
    /\ peer[c] = "open"
    /\ c \in backlog \/ HasSocket(c)
    /\ sent[c] < MaxRequests
    /\ sent[c] - Answered(c) < Outstanding
    /\ sent' = [sent EXCEPT ![c] = @ + 1]
    /\ Edge(c)
    /\ UNCHANGED <<peer, taken, received, backlog, reset, descriptor, objects, flags,
                   tcpConnections, rpcConnections, tasks, event, worker, stopper, crashed>>

Close(c) ==
    /\ peer[c] = "open"
    /\ c \in Patient => Answered(c) = sent[c] \/ ~(c \in backlog \/ HasSocket(c))
    /\ peer' = [peer EXCEPT ![c] = "closed"]
    /\ Edge(c)
    /\ UNCHANGED <<sent, taken, received, backlog, reset, descriptor, objects, flags,
                   tcpConnections, rpcConnections, tasks, event, worker, stopper, crashed>>

(* The client left although something was still to come. *)
Reset(c) ==
    /\ c \notin Patient
    /\ peer[c] = "closed"
    /\ c \notin reset
    /\ reset' = reset \cup {c}
    /\ Edge(c)
    /\ UNCHANGED <<peer, sent, taken, received, backlog, descriptor, objects, flags,
                   tcpConnections, rpcConnections, tasks, event, worker, stopper, crashed>>

-----------------------------------------------------------------------------
(* The event thread.  stop() holds connections_mutex_ while it closes the  *)
(* connections; every other critical section is one step.                  *)

(* Faulty variant, used only to test the properties: the lock spans the    *)
(* join.                                                                   *)
LockedUntilJoin == spc \in {"closing", "sysclose", "epoll", "join"}

Locked == spc \in {"closing", "sysclose"}

EpollOpen == spc \notin {"join", "stopped"}

LoopTest ==
    /\ epc = "loop"
    /\ epc' = IF running THEN "wait" ELSE "ended"
    /\ UNCHANGED <<peers, kernel, objects, flags, tcpConnections, rpcConnections, tasks, batch,
                   hangups, at, closes, worker, stopper, crashed>>

(* The listening socket is level-triggered, the connections are            *)
(* edge-triggered.                                                         *)
Ready == ready \cup (IF listening /\ backlog # {} THEN {Listener} ELSE {})

EpollWait ==
    /\ epc = "wait"
    /\ Ready # {}
    /\ batch' = Ready
    /\ hangups' = ready \cap reset
    /\ ready' = {}
    /\ epc' = "next"
    /\ UNCHANGED <<peers, taken, received, backlog, reset, descriptor, objects, flags,
                   tcpConnections, rpcConnections, tasks, at, closes, worker, stopper, crashed>>

(* The timeout of a second, or the error after stop() has closed epoll_fd_. *)
EpollNothing ==
    /\ epc = "wait"
    /\ Ready = {} \/ ~EpollOpen
    /\ epc' = "loop"
    /\ UNCHANGED <<peers, kernel, objects, flags, tcpConnections, rpcConnections, tasks, batch,
                   hangups, at, closes, worker, stopper, crashed>>

BatchDone ==
    /\ epc = "next"
    /\ batch = {}
    /\ epc' = "loop"
    /\ UNCHANGED <<peers, kernel, objects, flags, tcpConnections, rpcConnections, tasks, batch,
                   hangups, at, closes, worker, stopper, crashed>>

(* Faulty variant, used only to test the properties: the rest of the       *)
(* events is forgotten.                                                    *)
ListenEventLast ==
    /\ epc = "next"
    /\ Listener \in batch
    /\ batch' = {}
    /\ IF listening THEN epc' = "accept" /\ UNCHANGED crashed
                    ELSE crashed' = "wild" /\ UNCHANGED epc
    /\ UNCHANGED <<peers, kernel, objects, flags, tcpConnections, rpcConnections, tasks,
                   hangups, at, closes, worker, stopper>>

(* stop() may have reset listen_sockfd_: the event is then taken for one   *)
(* of a connection, whose pointer it does not have.                        *)
ListenEvent ==
    /\ epc = "next"
    /\ Listener \in batch
    /\ batch' = batch \ {Listener}
    /\ IF listening THEN epc' = "accept" /\ UNCHANGED crashed
                    ELSE crashed' = "wild" /\ UNCHANGED epc
    /\ UNCHANGED <<peers, kernel, objects, flags, tcpConnections, rpcConnections, tasks,
                   hangups, at, closes, worker, stopper>>

(* accept takes the lowest free descriptor. *)
FreeFds == {f \in Fds : descriptor[f] = None}

Accept(c) ==
    /\ epc = "accept"
    /\ listening
    /\ c \in backlog
    /\ \E f \in FreeFds :
        /\ \A g \in FreeFds : f <= g
        /\ descriptor' = [descriptor EXCEPT ![f] = c]
        /\ sockfd' = [sockfd EXCEPT ![c] = f]
    /\ backlog' = backlog \ {c}
    /\ at' = c
    /\ epc' = "admit"
    /\ UNCHANGED <<peers, taken, received, reset, ready, state, flags, tcpConnections,
                   rpcConnections, tasks, batch, hangups, closes, worker, stopper, crashed>>

AcceptFails ==
    /\ epc = "accept"
    /\ ~listening \/ FreeFds = {}
    /\ epc' = "next"
    /\ UNCHANGED <<peers, kernel, objects, flags, tcpConnections, rpcConnections, tasks, batch,
                   hangups, at, closes, worker, stopper, crashed>>

(* Faulty variant, used only to test the properties. *)
AtLimitLate == Cardinality(tcpConnections) > MaxConnections

AtLimit == Cardinality(tcpConnections) >= MaxConnections

Refuse ==
    /\ epc = "admit"
    /\ ~Locked
    /\ AtLimit
    /\ descriptor' = [descriptor EXCEPT ![sockfd[at]] = None]
    /\ sockfd' = [sockfd EXCEPT ![at] = 0]
    /\ epc' = "next"
    /\ UNCHANGED <<peers, taken, received, backlog, reset, ready, state, flags, tcpConnections,
                   rpcConnections, tasks, batch, hangups, at, closes, worker, stopper, crashed>>

(* What has arrived meanwhile is reported as soon as epoll watches. *)
Admit ==
    /\ epc = "admit"
    /\ ~Locked
    /\ ~AtLimit
    /\ IF EpollOpen
       THEN /\ state' = [state EXCEPT ![at] = "CONNECTED"]
            /\ ready' = IF sent[at] > 0 \/ peer[at] = "closed" THEN ready \cup {at} ELSE ready
            /\ epc' = "push"
            /\ UNCHANGED <<descriptor, sockfd>>
       ELSE CloseSocket(at) /\ epc' = "next"
    /\ UNCHANGED <<peers, taken, received, backlog, reset, flags, tcpConnections,
                   rpcConnections, tasks, batch, hangups, at, closes, worker, stopper, crashed>>

PushConnection ==
    /\ epc = "push"
    /\ ~Locked
    /\ tcpConnections' = tcpConnections \cup {at}
    /\ epc' = "callback"
    /\ UNCHANGED <<peers, kernel, objects, flags, rpcConnections, tasks, batch, hangups, at,
                   closes, worker, stopper, crashed>>

(* Faulty variant, used only to test the properties: RpcServer does not    *)
(* remember the connection.                                                *)
ConnectionCallbackOnly ==
    /\ epc = "callback"
    /\ epc' = "next"
    /\ UNCHANGED <<peers, kernel, objects, flags, tcpConnections, rpcConnections, tasks, batch,
                   hangups, at, closes, worker, stopper, crashed>>

(* RpcServer::handleNewConnection, called back. *)
ConnectionCallback ==
    /\ epc = "callback"
    /\ rpcConnections' = rpcConnections \cup {at}
    /\ epc' = "next"
    /\ UNCHANGED <<peers, kernel, objects, flags, tcpConnections, tasks, batch, hangups, at,
                   closes, worker, stopper, crashed>>

(* handleClientEvent up to handleClientClose, which the end of the stream, *)
(* an error and a hangup each call.  Every frame is submitted to the pool. *)
ClientEvent(c) ==
    /\ epc = "next"
    /\ c \in batch
    /\ batch' = batch \ {c}
    /\ at' = c
    /\ IF c \notin Referenced
       THEN crashed' = "freed" /\ UNCHANGED <<tasks, taken, closes, epc>>
       ELSE LET data == HasSocket(c) /\ taken[c] < sent[c]
                over == ~data /\ (peer[c] = "closed" \/ ~HasSocket(c))
            IN  /\ tasks' = IF data THEN tasks \o [i \in 1 .. sent[c] - taken[c] |->
                                                       <<c, taken[c] + i>>]
                                    ELSE tasks
                /\ taken' = IF data THEN [taken EXCEPT ![c] = sent[c]] ELSE taken
                /\ closes' = (IF over THEN 1 ELSE 0) + (IF c \in hangups THEN 1 ELSE 0)
                /\ epc' = IF closes' > 0 THEN "erase" ELSE "next"
                /\ UNCHANGED crashed
    /\ UNCHANGED <<peers, received, backlog, reset, descriptor, ready, objects, flags,
                   tcpConnections, rpcConnections, hangups, worker, stopper>>

(* Faulty variant, used only to test the properties: the connection stays  *)
(* in the list.                                                            *)
EraseConnectionNot ==
    /\ epc = "erase"
    /\ ~Locked
    /\ epc' = "close"
    /\ UNCHANGED <<peers, kernel, objects, flags, tcpConnections, rpcConnections, tasks, batch,
                   hangups, at, closes, worker, stopper, crashed>>

(* handleClientClose *)
EraseConnection ==
    /\ epc = "erase"
    /\ ~Locked
    /\ IF at \in Referenced
       THEN /\ tcpConnections' = tcpConnections \ {at}
            /\ epc' = "close"
            /\ UNCHANGED crashed
       ELSE crashed' = "freed" /\ UNCHANGED <<tcpConnections, epc>>
    /\ UNCHANGED <<peers, taken, received, backlog, reset, objects, flags, rpcConnections,
                   tasks, batch, hangups, at, closes, worker, stopper>>
    /\ DestroyUnreferenced

CloseCallDone ==
    /\ closes' = closes - 1
    /\ epc' = IF closes = 1 THEN "next" ELSE "erase"

(* Faulty variant, used only to test the properties: the closing is left   *)
(* to the destructor.                                                      *)
CloseTestSkipped ==
    /\ epc = "close"
    /\ CloseCallDone
    /\ UNCHANGED <<peers, kernel, objects, flags, tcpConnections, rpcConnections, tasks, batch,
                   hangups, at, worker, stopper, crashed>>

(* close(): the test of state_, and then the system call. *)
CloseTest ==
    /\ epc = "close"
    /\ IF at \notin Referenced
       THEN crashed' = "freed" /\ UNCHANGED <<state, closes, epc>>
       ELSE /\ UNCHANGED crashed
            /\ IF state[at] = "DISCONNECTED"
               THEN CloseCallDone /\ UNCHANGED state
               ELSE /\ state' = [state EXCEPT ![at] = "DISCONNECTING"]
                    /\ epc' = "sysclose"
                    /\ UNCHANGED closes
    /\ UNCHANGED <<peers, kernel, sockfd, flags, tcpConnections, rpcConnections, tasks, batch,
                   hangups, at, worker, stopper>>

CloseSys ==
    /\ epc = "sysclose"
    /\ CloseSocket(at)
    /\ CloseCallDone
    /\ UNCHANGED <<peers, taken, received, backlog, reset, flags, tcpConnections,
                   rpcConnections, tasks, batch, hangups, at, worker, stopper, crashed>>

EventThread ==
    \/ LoopTest \/ EpollWait \/ EpollNothing \/ BatchDone
    \/ ListenEvent \/ AcceptFails \/ Refuse \/ Admit \/ PushConnection \/ ConnectionCallback
    \/ EraseConnection \/ CloseTest \/ CloseSys
    \/ \E c \in Conns : Accept(c) \/ ClientEvent(c)

-----------------------------------------------------------------------------
(* A worker of the pool: handleRpcRequest and send(). *)

WorkerTake(w) ==
    /\ wpc[w] = "idle"
    /\ tasks # <<>>
    /\ task' = [task EXCEPT ![w] = Head(tasks)]
    /\ tasks' = Tail(tasks)
    /\ wpc' = [wpc EXCEPT ![w] = "handle"]
    /\ UNCHANGED <<peers, kernel, objects, flags, tcpConnections, rpcConnections, event, fd, done,
                   stopper, crashed>>

(* The method has ended; send() tests state_ once. *)
SendTest(w) ==
    /\ wpc[w] = "handle"
    /\ wpc' = [wpc EXCEPT ![w] = IF state[task[w][1]] = "CONNECTED" THEN "load" ELSE "end"]
    /\ UNCHANGED <<peers, kernel, objects, flags, tcpConnections, rpcConnections, tasks, event,
                   task, fd, done, stopper, crashed>>

SendLoad(w) ==
    /\ wpc[w] = "load"
    /\ fd' = [fd EXCEPT ![w] = sockfd[task[w][1]]]
    /\ wpc' = [wpc EXCEPT ![w] = "send"]
    /\ UNCHANGED <<peers, kernel, objects, flags, tcpConnections, rpcConnections, tasks, event,
                   task, done, stopper, crashed>>

(* The socket that the descriptor of the call stands for by now. *)
Target(w) == IF fd[w] \in Fds THEN descriptor[fd[w]] ELSE None

Sendable(w) == Target(w) # None /\ Target(w) \notin reset

(* Faulty variant, used only to test the properties: data.data() without   *)
(* total_sent.                                                             *)
SendSomeFirst(w, n) ==
    LET c == Target(w)
        piece == SubSeq(Whole(task[w][1], task[w][2]), 1, n)
    IN  /\ wpc[w] = "send"
        /\ Sendable(w)
        /\ n \in 1 .. Units - done[w]
        /\ received' = IF peer[c] = "open" THEN [received EXCEPT ![c] = @ \o piece] ELSE received
        /\ done' = [done EXCEPT ![w] = @ + n]
        /\ wpc' = [wpc EXCEPT ![w] = IF done[w] + n = Units THEN "end" ELSE "load"]
        /\ UNCHANGED <<peers, taken, backlog, reset, descriptor, ready, objects, flags,
                       tcpConnections, rpcConnections, tasks, event, task, fd, stopper, crashed>>

(* The kernel takes the next n pieces; what a closed client is sent is lost. *)
SendSome(w, n) ==
    LET c == Target(w)
        piece == SubSeq(Whole(task[w][1], task[w][2]), done[w] + 1, done[w] + n)
    IN  /\ wpc[w] = "send"
        /\ Sendable(w)
        /\ n \in 1 .. Units - done[w]
        /\ received' = IF peer[c] = "open" THEN [received EXCEPT ![c] = @ \o piece] ELSE received
        /\ done' = [done EXCEPT ![w] = @ + n]
        /\ wpc' = [wpc EXCEPT ![w] = IF done[w] + n = Units THEN "end" ELSE "load"]
        /\ UNCHANGED <<peers, taken, backlog, reset, descriptor, ready, objects, flags,
                       tcpConnections, rpcConnections, tasks, event, task, fd, stopper, crashed>>

(* handleError, in its two steps. *)
SendFails(w) ==
    /\ wpc[w] = "send"
    /\ ~Sendable(w)
    /\ state' = [state EXCEPT ![task[w][1]] = "DISCONNECTED"]
    /\ wpc' = [wpc EXCEPT ![w] = "error"]
    /\ UNCHANGED <<peers, kernel, sockfd, flags, tcpConnections, rpcConnections, tasks, event,
                   task, fd, done, stopper, crashed>>

ErrorCallback(w) ==
    /\ wpc[w] = "error"
    /\ rpcConnections' = rpcConnections \ {task[w][1]}
    /\ wpc' = [wpc EXCEPT ![w] = "end"]
    /\ UNCHANGED <<peers, kernel, objects, flags, tcpConnections, tasks, event, task, fd, done,
                   stopper, crashed>>

(* The task goes, and with it its reference. *)
WorkerEnd(w) ==
    /\ wpc[w] = "end"
    /\ wpc' = [wpc EXCEPT ![w] = "idle"]
    /\ task' = [task EXCEPT ![w] = <<None, 0>>]
    /\ fd' = [fd EXCEPT ![w] = 0]
    /\ done' = [done EXCEPT ![w] = 0]
    /\ UNCHANGED <<peers, taken, received, backlog, reset, objects, flags, tcpConnections,
                   rpcConnections, tasks, event, stopper, crashed>>
    /\ DestroyUnreferenced

Worker(w) ==
    \/ WorkerTake(w) \/ SendTest(w) \/ SendLoad(w)
    \/ \E n \in 1..Units : SendSome(w, n)
    \/ SendFails(w) \/ ErrorCallback(w) \/ WorkerEnd(w)

-----------------------------------------------------------------------------
(* RpcServer::stop(), and in it TcpServerImpl::stop(). *)

StopBegin ==
    /\ MayStop
    /\ spc = "no"
    /\ running' = FALSE
    /\ spc' = "listener"
    /\ UNCHANGED <<peers, kernel, objects, listening, tcpConnections, rpcConnections, tasks,
                   event, worker, toClose, closing, crashed>>

StopListening ==
    /\ spc = "listener"
    /\ listening' = FALSE
    /\ backlog' = {}
    /\ spc' = "lock"
    /\ UNCHANGED <<peers, taken, received, reset, descriptor, ready, objects, running,
                   tcpConnections, rpcConnections, tasks, event, worker, toClose, closing,
                   crashed>>

StopLock ==
    /\ spc = "lock"
    /\ toClose' = tcpConnections
    /\ spc' = "closing"
    /\ UNCHANGED <<peers, kernel, objects, flags, tcpConnections, rpcConnections, tasks, event,
                   worker, closing, crashed>>

StopCloseTest(c) ==
    /\ spc = "closing"
    /\ c \in toClose
    /\ toClose' = toClose \ {c}
    /\ IF state[c] = "DISCONNECTED"
       THEN UNCHANGED <<state, closing, spc>>
       ELSE /\ state' = [state EXCEPT ![c] = "DISCONNECTING"]
            /\ closing' = c
            /\ spc' = "sysclose"
    /\ UNCHANGED <<peers, kernel, sockfd, flags, tcpConnections, rpcConnections, tasks, event,
                   worker, crashed>>

StopCloseSys ==
    /\ spc = "sysclose"
    /\ CloseSocket(closing)
    /\ spc' = "closing"
    /\ UNCHANGED <<peers, taken, received, backlog, reset, flags, tcpConnections,
                   rpcConnections, tasks, event, worker, toClose, closing, crashed>>

(* The list is cleared and unlocked; then epoll_fd_ is closed. *)
StopClear ==
    /\ spc = "closing"
    /\ toClose = {}
    /\ tcpConnections' = {}
    /\ spc' = "epoll"
    /\ UNCHANGED <<peers, taken, received, backlog, reset, objects, flags, rpcConnections,
                   tasks, event, worker, toClose, closing, crashed>>
    /\ DestroyUnreferenced

StopEpoll ==
    /\ spc = "epoll"
    /\ spc' = "join"
    /\ UNCHANGED <<peers, kernel, objects, flags, tcpConnections, rpcConnections, tasks, event,
                   worker, toClose, closing, crashed>>

(* The event thread has ended; RpcServer drops its own references. *)
StopJoin ==
    /\ spc = "join"
    /\ epc = "ended"
    /\ rpcConnections' = {}
    /\ spc' = "stopped"
    /\ UNCHANGED <<peers, taken, received, backlog, reset, objects, flags, tcpConnections,
                   tasks, event, worker, toClose, closing, crashed>>
    /\ DestroyUnreferenced

Stopping ==
    \/ StopListening \/ StopLock \/ StopCloseSys \/ StopClear \/ StopEpoll \/ StopJoin
    \/ \E c \in Conns : StopCloseTest(c)

-----------------------------------------------------------------------------

Server ==
    \/ EventThread
    \/ \E w \in Workers : Worker(w)
    \/ StopBegin \/ Stopping

Next ==
    \/ \E c \in Conns : Connect(c) \/ Request(c) \/ Close(c) \/ Reset(c)
    \/ crashed = "no" /\ Server

Spec == Init /\ [][Next]_vars

(* Every thread of the server runs on; clients do as they please, and      *)
(* nobody has to call stop().                                              *)
FairSpec ==
    /\ Spec
    /\ WF_vars(crashed = "no" /\ EventThread)
    /\ \A w \in Workers : WF_vars(crashed = "no" /\ Worker(w))
    /\ WF_vars(crashed = "no" /\ Stopping)

-----------------------------------------------------------------------------
(* Properties *)

TypeOK ==
    /\ peer \in [Conns -> {"new", "open", "closed"}]
    /\ sent \in [Conns -> 0..MaxRequests] /\ taken \in [Conns -> 0..MaxRequests]
    /\ received \in [Conns -> Seq(Conns \X (1..MaxRequests) \X (1..Units))]
    /\ backlog \subseteq Conns /\ reset \subseteq Conns /\ ready \subseteq Conns
    /\ descriptor \in [Fds -> Conns \cup {None}]
    /\ state \in [Conns -> {"NONE", "CONNECTED", "DISCONNECTING", "DISCONNECTED"}]
    /\ sockfd \in [Conns -> {0} \cup Fds]
    /\ running \in BOOLEAN /\ listening \in BOOLEAN
    /\ tcpConnections \subseteq Conns /\ rpcConnections \subseteq Conns
    /\ tasks \in Seq(Conns \X (1..MaxRequests))
    /\ epc \in {"loop", "wait", "next", "accept", "admit", "push", "callback", "erase",
                "close", "sysclose", "ended"}
    /\ batch \subseteq Conns \cup {Listener} /\ hangups \subseteq Conns
    /\ at \in Conns \cup {None} /\ closes \in 0..2
    /\ wpc \in [Workers -> {"idle", "handle", "load", "send", "error", "end"}]
    /\ task \in [Workers -> (Conns \X (1..MaxRequests)) \cup {<<None, 0>>}]
    /\ fd \in [Workers -> {0} \cup Fds] /\ done \in [Workers -> 0..Units]
    /\ spc \in {"no", "listener", "lock", "closing", "sysclose", "epoll", "join", "stopped"}
    /\ toClose \subseteq Conns /\ closing \in Conns \cup {None}
    /\ crashed \in {"no", "freed", "wild"}

(* What a client receives are the responses to its own requests, in the    *)
(* order of the requests and without a gap, the last one perhaps still     *)
(* incomplete: although workers send without a lock, on a descriptor whose *)
(* number may have passed on to another client (tcp_connection.cpp:28-57). *)
AnswersIntact ==
    \A c \in Conns : \A i \in 1..Len(received[c]) :
        received[c][i] = <<c, ((i - 1) \div Units) + 1, ((i - 1) % Units) + 1>>

(* The event thread never uses a connection that has been freed: epoll     *)
(* holds plain pointers, and handleClientClose goes on with a connection   *)
(* that it has just taken from the list (tcp_server.cpp:268-290).  Only    *)
(* the entry in RpcServer::connections_ keeps the object.                  *)
NoUseAfterFree == crashed # "freed"

(* It does not even if clients leave with requests open, on which workers  *)
(* still work, as long as none resets its connection and nobody has called *)
(* stop(): nothing else takes the last entry away (tcp_server.cpp:230-236, *)
(* rpc_server.cpp:261-271).                                                *)
SafeUntilReset == reset = {} /\ spc = "no" => NoUseAfterFree

(* No two threads are between the test of state_ and the ::close of one    *)
(* connection, which would close its descriptor twice                      *)
(* (tcp_connection.cpp:60-68): stop() closes only what is in the list, and *)
(* handleClientClose takes it from the list first.                         *)
ClosedByOne == ~(epc = "sysclose" /\ spc = "sysclose" /\ at = closing)

(* As long as no client has reset its connection, no more descriptors are  *)
(* open than the limit allows, apart from the one whose connection is      *)
(* being tested against it: no connection leaves the list and keeps its    *)
(* descriptor (tcp_server.cpp:186-192 and :277-288).                       *)
SocketsBounded ==
    LET open == {f \in Fds : descriptor[f] # None /\ ~(epc = "admit" /\ descriptor[f] = at)}
    IN  reset = {} => Cardinality(open) <= MaxConnections

(* A client that waits gets as many whole responses as it has sent         *)
(* requests, whatever other clients do, unless the server is stopped or    *)
(* crashes: no edge, frame or task is lost between epoll and the worker.   *)
RequestsAnswered ==
    \A c \in Patient : \A n \in 1..MaxRequests :
        c \in tcpConnections /\ sent[c] >= n
            ~> Answered(c) >= n \/ ~running \/ crashed # "no"

(* When a client has left with its own answers, the descriptor is closed,  *)
(* whatever other clients do (tcp_server.cpp:257-290).                     *)
DescriptorsReturned ==
    \A c \in Patient :
        HasSocket(c) /\ peer[c] = "closed"
            ~> ~HasSocket(c) \/ ~running \/ crashed # "no" \/ ~AnswersIntact

(* The same for every client.                                              *)
AllDescriptorsReturned ==
    \A c \in Conns :
        HasSocket(c) /\ peer[c] = "closed" ~> ~HasSocket(c) \/ ~running \/ crashed # "no"

(* stop() returns: the event thread sees running_ or the closed epoll, and *)
(* never waits for the mutex for ever (tcp_server.cpp:99-134).             *)
StopReturns == spc = "listener" ~> spc = "stopped" \/ crashed # "no"

(* getConnectionCount() is "the current number of connections"             *)
(* (rpc_serser.h:89): between two events the list it counts holds the      *)
(* connections that the TCP server has.                                    *)
CountIsCurrent == epc = "wait" /\ running => rpcConnections = tcpConnections

(* "Close all connections" (tcp_server.cpp:113): when stop() has returned  *)
(* no connection is open.                                                  *)
StopClosesAll == spc = "stopped" => \A c \in Conns : ~HasSocket(c)

(* stop() does not crash the event thread.                                 *)
NoWildPointer == crashed # "wild"
=============================================================================
