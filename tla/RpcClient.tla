------------------------------ MODULE RpcClient ------------------------------
(***************************************************************************)
(* RpcClientStubImpl in direct mode, shared by several threads, with its   *)
(* TcpClientImpl (src/src/core/rpc_client.cpp, transport/tcp_client.cpp),  *)
(* the TCP connections it opens, and the server as far as its connections  *)
(* show it (src/src/core/rpc_server.cpp).                                  *)
(*                                                                         *)
(* Calls are numbered in the order they are made; a number stands for the  *)
(* request of that call, and for the connection that the call opens.  A    *)
(* reply is a header of HeaderUnits units followed by BodyUnits units,     *)
(* unit i of the reply to r being <<r, i>>, and can be read in pieces.     *)
(***************************************************************************)
EXTENDS Integers, Sequences

CONSTANTS
    Threads,
    MaxCalls,       \* bound: how many calls are made
    MaxStops,       \* bound: how often the server ends, or closes a connection
    HeaderUnits,    \* the length prefix
    BodyUnits,
    MayTimeout,     \* the server may take longer than the client waits
    Nobody

ASSUME ClientAssumption ==
    /\ MaxCalls \in Nat /\ MaxStops \in Nat
    /\ HeaderUnits \in Nat \ {0} /\ BodyUnits \in Nat \ {0}
    /\ MayTimeout \in BOOLEAN
    /\ Nobody \notin Threads

Calls == 1 .. MaxCalls

Unit == Calls \X (1 .. HeaderUnits + BodyUnits)

VARIABLES
    (* the server and the connections, by number *)
    serverUp,
    stops,
    up,          \* requests on their way to the server
    pending,     \* requests handed to the server's thread pool
    down,        \* units on their way to the client
    fin,         \* the server's end is closed
    executed,    \* how the method of a request ended: "no", "ok", "error"
    (* the stub *)
    connected,   \* connected_
    tcp,         \* tcp_client_: its sockfd_ (0 for -1) and its state_
    fds,         \* connections whose client end is an open descriptor
    holder,      \* who holds mutex_ across a blocking receive
    (* the calling threads *)
    pc,
    cur,         \* the thread's call
    got,         \* what readExactly has read
    need,        \* and how much it is to read
    (* what the calls came to *)
    calls,       \* how many were made
    outcome,     \* "none", "running", "true" or "false"
    answer,      \* the request whose response was returned; 0 for garbage
    disturbed    \* during the call the server was down or closed a
                 \* connection, disconnect() was called, or a wait timed out

server == <<serverUp, stops, up, pending, fin, executed>>
stub == <<connected, tcp, fds>>
reading == <<got, need>>
history == <<calls, outcome, answer, disturbed>>

vars == <<server, down, stub, holder, pc, cur, reading, history>>

NoTcp == [conn |-> 0, state |-> "NONE"]

Running(r) == outcome[r] = "running"

Init ==
    /\ serverUp = TRUE
    /\ stops = 0
    /\ up = [c \in Calls |-> <<>>]
    /\ pending = [c \in Calls |-> {}]
    /\ down = [c \in Calls |-> <<>>]
    /\ fin = [c \in Calls |-> FALSE]
    /\ executed = [r \in Calls |-> "no"]
    /\ connected = FALSE
    /\ tcp = NoTcp
    /\ fds = {}
    /\ holder = Nobody
    /\ pc = [t \in Threads |-> "idle"]
    /\ cur = [t \in Threads |-> 0]
    /\ got = [t \in Threads |-> <<>>]
    /\ need = [t \in Threads |-> 0]
    /\ calls = 0
    /\ outcome = [r \in Calls |-> "none"]
    /\ answer = [r \in Calls |-> 0]
    /\ disturbed = [r \in Calls |-> FALSE]

-----------------------------------------------------------------------------
(* The server.  Its event thread takes the requests of a connection in     *)
(* order; the workers of its pool finish them in any order.                *)

ServerTake(c) ==
    /\ serverUp
    /\ up[c] # <<>>
    /\ pending' = [pending EXCEPT ![c] = @ \cup {Head(up[c])}]
    /\ up' = [up EXCEPT ![c] = Tail(@)]
    /\ UNCHANGED <<serverUp, stops, fin, executed, down, stub, holder, pc, cur, reading, history>>

Reply(r) == [i \in 1 .. HeaderUnits + BodyUnits |-> <<r, i>>]

(* Faulty variant, used only to test the properties: the request stays     *)
(* with the pool.                                                          *)
HandleRepeatedly(c, r) ==
    /\ serverUp
    /\ r \in pending[c]
    /\ \E how \in {"ok", "error"} : executed' = [executed EXCEPT ![r] = how]
    /\ down' = IF c \in fds /\ ~fin[c] THEN [down EXCEPT ![c] = @ \o Reply(r)] ELSE down
    /\ UNCHANGED <<serverUp, stops, up, pending, fin, stub, holder, pc, cur, reading, history>>

(* handleRpcRequest: the method is called, and the response sent, if the   *)
(* client has not closed its end.                                          *)
HandleRpcRequest(c, r) ==
    /\ serverUp
    /\ r \in pending[c]
    /\ pending' = [pending EXCEPT ![c] = @ \ {r}]
    /\ \E how \in {"ok", "error"} : executed' = [executed EXCEPT ![r] = how]
    /\ down' = IF c \in fds /\ ~fin[c] THEN [down EXCEPT ![c] = @ \o Reply(r)] ELSE down
    /\ UNCHANGED <<serverUp, stops, up, fin, stub, holder, pc, cur, reading, history>>

(* The server closes one connection: it has too many, or epoll reported an *)
(* error.  Requests already handed to the pool are still executed.         *)
ServerCloses(c) ==
    /\ serverUp
    /\ stops < MaxStops
    /\ c \in fds /\ ~fin[c]
    /\ stops' = stops + 1
    /\ fin' = [fin EXCEPT ![c] = TRUE]
    /\ up' = [up EXCEPT ![c] = <<>>]
    /\ disturbed' = [r \in Calls |-> disturbed[r] \/ Running(r)]
    /\ UNCHANGED <<serverUp, pending, executed, down, stub, holder, pc, cur, reading, calls,
                   outcome, answer>>

(* The process ends.  What it had sent may still arrive, or not.           *)
ServerStop ==
    /\ serverUp
    /\ stops < MaxStops
    /\ serverUp' = FALSE
    /\ stops' = stops + 1
    /\ up' = [c \in Calls |-> <<>>]
    /\ pending' = [c \in Calls |-> {}]
    /\ fin' = [c \in Calls |-> fin[c] \/ c \in fds]
    /\ \/ UNCHANGED down
       \/ down' = [c \in Calls |-> <<>>]
    /\ disturbed' = [r \in Calls |-> disturbed[r] \/ Running(r)]
    /\ UNCHANGED <<executed, stub, holder, pc, cur, reading, calls, outcome, answer>>

ServerStart ==
    /\ ~serverUp
    /\ serverUp' = TRUE
    /\ UNCHANGED <<stops, up, pending, fin, executed, down, stub, holder, pc, cur, reading, history>>

-----------------------------------------------------------------------------
(* disconnect() of the stub: TcpClientImpl::disconnect closes its socket   *)
(* only in a state other than DISCONNECTED.                                *)

Released == IF tcp.state = "CONNECTED" THEN fds \ {tcp.conn} ELSE fds

(* Faulty variants, used only to test the properties.                      *)
DisconnectFlagKept ==
    /\ holder = Nobody
    /\ fds' = Released
    /\ tcp' = NoTcp
    /\ disturbed' = [r \in Calls |-> disturbed[r] \/ Running(r)]
    /\ UNCHANGED <<server, down, connected, holder, pc, cur, reading, calls, outcome, answer>>

DisconnectUnclosed ==
    /\ holder = Nobody
    /\ tcp' = NoTcp
    /\ connected' = FALSE
    /\ disturbed' = [r \in Calls |-> disturbed[r] \/ Running(r)]
    /\ UNCHANGED <<server, down, fds, holder, pc, cur, reading, calls, outcome, answer>>

Disconnect ==
    /\ holder = Nobody
    /\ fds' = Released
    /\ tcp' = NoTcp
    /\ connected' = FALSE
    /\ disturbed' = [r \in Calls |-> disturbed[r] \/ Running(r)]
    /\ UNCHANGED <<server, down, holder, pc, cur, reading, calls, outcome, answer>>

-----------------------------------------------------------------------------
(* callMethod *)

Goto(t, label) == pc' = [pc EXCEPT ![t] = label]

Call(t) ==
    /\ pc[t] = "idle"
    /\ calls < MaxCalls
    /\ calls' = calls + 1
    /\ cur' = [cur EXCEPT ![t] = calls + 1]
    /\ outcome' = [outcome EXCEPT ![calls + 1] = "running"]
    /\ disturbed' = [disturbed EXCEPT ![calls + 1] = ~serverUp]
    /\ Goto(t, "check")
    /\ UNCHANGED <<server, down, stub, holder, reading, answer>>

(* isConnected() reads connected_ without the mutex. *)
Check(t) ==
    /\ pc[t] = "check"
    /\ Goto(t, IF connected THEN "send" ELSE "connect")
    /\ UNCHANGED <<server, down, stub, holder, cur, reading, history>>

(* callMethod returns false; what locked mutex_ has released it. *)
ReturnFalse(t) ==
    /\ Goto(t, "idle")
    /\ holder' = Nobody
    /\ outcome' = [outcome EXCEPT ![cur[t]] = "false"]
    /\ UNCHANGED <<cur, calls, answer>>

(* connect(): the test of connected_ is repeated under the mutex.  The new *)
(* TcpClientImpl replaces the old one, whose destructor disconnects it.    *)
ConnectAlready(t) ==
    /\ pc[t] = "connect"
    /\ holder = Nobody
    /\ connected
    /\ Goto(t, "send")
    /\ UNCHANGED <<server, down, stub, holder, cur, reading, history>>

ConnectOk(t) ==
    /\ pc[t] = "connect"
    /\ holder = Nobody
    /\ ~connected
    /\ serverUp
    /\ tcp' = [conn |-> cur[t], state |-> "CONNECTED"]
    /\ fds' = Released \cup {cur[t]}
    /\ connected' = TRUE
    /\ Goto(t, "send")
    /\ UNCHANGED <<server, down, holder, cur, reading, history>>

ConnectFails(t) ==
    /\ pc[t] = "connect"
    /\ holder = Nobody
    /\ ~connected
    /\ ~serverUp \/ MayTimeout
    /\ tcp' = [conn |-> 0, state |-> "DISCONNECTED"]
    /\ fds' = Released
    /\ disturbed' = [disturbed EXCEPT ![cur[t]] = TRUE]
    /\ ReturnFalse(t)
    /\ UNCHANGED <<server, down, connected, reading>>

(* sendRpcRequest takes the mutex and keeps it until the response is read. *)
SendRefused(t) ==
    /\ pc[t] = "send"
    /\ holder = Nobody
    /\ tcp.state # "CONNECTED"
    /\ ReturnFalse(t)
    /\ UNCHANGED <<server, down, stub, reading, disturbed>>

SendBroken(t) ==
    /\ pc[t] = "send"
    /\ holder = Nobody
    /\ tcp.state = "CONNECTED"
    /\ fin[tcp.conn]
    /\ tcp' = [tcp EXCEPT !.state = "DISCONNECTED"]
    /\ ReturnFalse(t)
    /\ UNCHANGED <<server, down, connected, fds, reading, disturbed>>

(* Faulty variant, used only to test the properties: a retry sends again.  *)
SendRequestTwice(t) ==
    /\ pc[t] = "send"
    /\ holder = Nobody
    /\ tcp.state = "CONNECTED"
    /\ up' = IF fin[tcp.conn] THEN up
             ELSE [up EXCEPT ![tcp.conn] = @ \o <<cur[t], cur[t]>>]
    /\ holder' = t
    /\ got' = [got EXCEPT ![t] = <<>>]
    /\ need' = [need EXCEPT ![t] = HeaderUnits]
    /\ Goto(t, "header")
    /\ UNCHANGED <<serverUp, stops, pending, fin, executed, down, stub, cur, history>>

SendRequest(t) ==
    /\ pc[t] = "send"
    /\ holder = Nobody
    /\ tcp.state = "CONNECTED"
    /\ up' = IF fin[tcp.conn] THEN up ELSE [up EXCEPT ![tcp.conn] = Append(@, cur[t])]
    /\ holder' = t
    /\ got' = [got EXCEPT ![t] = <<>>]
    /\ need' = [need EXCEPT ![t] = HeaderUnits]
    /\ Goto(t, "header")
    /\ UNCHANGED <<serverUp, stops, pending, fin, executed, down, stub, cur, history>>

-----------------------------------------------------------------------------
(* receive(): readExactly for the length prefix, then for the message.     *)

Reading(t) == pc[t] \in {"header", "body"} /\ Len(got[t]) < need[t]

Read(t) ==
    /\ Reading(t)
    /\ down[tcp.conn] # <<>>
    /\ got' = [got EXCEPT ![t] = Append(@, Head(down[tcp.conn]))]
    /\ down' = [down EXCEPT ![tcp.conn] = Tail(@)]
    /\ UNCHANGED <<server, stub, holder, pc, cur, need, history>>

(* recv returned 0, or an error: the state changes, the socket stays open. *)
ReadEof(t) ==
    /\ Reading(t)
    /\ down[tcp.conn] = <<>>
    /\ fin[tcp.conn]
    /\ tcp' = [tcp EXCEPT !.state = "DISCONNECTED"]
    /\ ReturnFalse(t)
    /\ UNCHANGED <<server, down, connected, fds, reading, disturbed>>

(* Faulty variant, used only to test the properties: the retries are not   *)
(* counted.                                                                *)
ReadTimeoutWaitsOn(t) ==
    /\ MayTimeout
    /\ Reading(t)
    /\ disturbed' = [disturbed EXCEPT ![cur[t]] = TRUE]
    /\ UNCHANGED <<server, down, stub, holder, pc, cur, reading, calls, outcome, answer>>

(* Nothing came for MAX_RETRIES milliseconds (what is on its way may not   *)
(* have arrived).  The connection stays in use.                            *)
ReadTimeout(t) ==
    /\ MayTimeout
    /\ Reading(t)
    /\ disturbed' = [disturbed EXCEPT ![cur[t]] = TRUE]
    /\ ReturnFalse(t)
    /\ UNCHANGED <<server, down, stub, reading>>

(* The units are a piece of one reply, from its unit i on. *)
IsPiece(units, i) ==
    \A k \in 1..Len(units) : units[k] = <<units[1][1], i + k - 1>>

HeaderComplete(t) == pc[t] = "header" /\ Len(got[t]) = HeaderUnits

(* The length a prefix announces: read at any other place of the stream,   *)
(* it is whatever the units there happen to say.                           *)
Announces(t, len) == IsPiece(got[t], 1) => len = BodyUnits

ValidLength(len) == len > 0 /\ len <= BodyUnits

AcceptHeader(t, len) ==
    /\ HeaderComplete(t)
    /\ Announces(t, len)
    /\ ValidLength(len)
    /\ got' = [got EXCEPT ![t] = <<>>]
    /\ need' = [need EXCEPT ![t] = len]
    /\ Goto(t, "body")
    /\ UNCHANGED <<server, down, stub, holder, cur, history>>

RefuseHeader(t, len) ==
    /\ HeaderComplete(t)
    /\ Announces(t, len)
    /\ ~ValidLength(len)
    /\ ReturnFalse(t)
    /\ UNCHANGED <<server, down, stub, reading, disturbed>>

BodyComplete(t) == pc[t] = "body" /\ Len(got[t]) = need[t]

WholeBody(t) == need[t] = BodyUnits /\ IsPiece(got[t], HeaderUnits + 1)

(* callMethod returns true, whatever the response says. *)
ReturnResponse(t) ==
    /\ BodyComplete(t)
    /\ answer' = [answer EXCEPT ![cur[t]] = IF WholeBody(t) THEN got[t][1][1] ELSE 0]
    /\ outcome' = [outcome EXCEPT ![cur[t]] = "true"]
    /\ holder' = Nobody
    /\ Goto(t, "idle")
    /\ UNCHANGED <<server, down, stub, cur, reading, calls, disturbed>>

(* What is not a response may or may not parse. *)
ParseFails(t) ==
    /\ BodyComplete(t)
    /\ ~WholeBody(t)
    /\ ReturnFalse(t)
    /\ UNCHANGED <<server, down, stub, reading, disturbed>>

-----------------------------------------------------------------------------

Step(t) ==
    \/ Check(t)
    \/ ConnectAlready(t) \/ ConnectOk(t) \/ ConnectFails(t)
    \/ SendRefused(t) \/ SendBroken(t) \/ SendRequest(t)
    \/ Read(t) \/ ReadEof(t) \/ ReadTimeout(t)
    \/ \E len \in 0 .. BodyUnits + 1 : AcceptHeader(t, len) \/ RefuseHeader(t, len)
    \/ ReturnResponse(t) \/ ParseFails(t)

Server ==
    \/ \E c \in Calls : \/ ServerTake(c) \/ ServerCloses(c)
                        \/ \E r \in Calls : HandleRpcRequest(c, r)
    \/ ServerStop \/ ServerStart

Next ==
    \/ Server
    \/ Disconnect
    \/ \E t \in Threads : Call(t) \/ Step(t)

Spec == Init /\ [][Next]_vars

(* A thread in a call goes on with it.  Nothing is asked of the server.    *)
FairSpec == Spec /\ \A t \in Threads : WF_vars(Step(t))

-----------------------------------------------------------------------------
(* Properties *)

TypeOK ==
    /\ serverUp \in BOOLEAN /\ stops \in 0..MaxStops
    /\ up \in [Calls -> Seq(Calls)]
    /\ pending \in [Calls -> SUBSET Calls]
    /\ down \in [Calls -> Seq(Unit)]
    /\ fin \in [Calls -> BOOLEAN]
    /\ executed \in [Calls -> {"no", "ok", "error"}]
    /\ connected \in BOOLEAN
    /\ tcp \in [conn : {0} \cup Calls, state : {"NONE", "DISCONNECTED", "CONNECTED"}]
    /\ fds \in SUBSET Calls
    /\ holder \in Threads \cup {Nobody}
    /\ pc \in [Threads -> {"idle", "check", "connect", "send", "header", "body"}]
    /\ cur \in [Threads -> {0} \cup Calls]
    /\ got \in [Threads -> Seq(Unit)]
    /\ need \in [Threads -> 0 .. HeaderUnits + BodyUnits]
    /\ \A t \in Threads : Len(got[t]) <= need[t] /\ (pc[t] = "body" => need[t] <= BodyUnits)
    /\ calls \in 0..MaxCalls
    /\ outcome \in [Calls -> {"none", "running", "true", "false"}]
    /\ answer \in [Calls -> {0} \cup Calls]
    /\ disturbed \in [Calls -> BOOLEAN]

(* The response that a call returns is the response to its own request     *)
(* (rpc_protocol.proto:25, "request id" of the response), although threads *)
(* share the connection and nothing compares the ids: the mutex is held    *)
(* from the sending of the request to the end of the response              *)
(* (rpc_client.cpp:163-187).                                               *)
ResponseMatches == \A r \in Calls : outcome[r] = "true" => answer[r] = r

(* When a thread is to send its request, nothing of an earlier call is     *)
(* left on the connection it will use.                                     *)
NothingLeftOver ==
    holder = Nobody /\ tcp.state = "CONNECTED" =>
        /\ up[tcp.conn] = <<>>
        /\ pending[tcp.conn] = {}
        /\ down[tcp.conn] = <<>>

(* As long as the server has not closed anything, a call only fails for a  *)
(* reason that arose during it: the server was not reached, a wait timed   *)
(* out, or the application disconnected the stub.  In particular, what     *)
(* other threads do with the connection does not make it fail.             *)
UndisturbedSucceeds ==
    stops = 0 => \A r \in Calls : outcome[r] = "false" => disturbed[r]

(* A call that returned true has been executed without an error.           *)
TrueMeansSucceeded == \A r \in Calls : outcome[r] = "true" => executed[r] = "ok"

(* Unless a request is under way, isConnected() means that the client can  *)
(* be used ("check the state of the connection", rpc_client.cpp:156): only *)
(* then does callMethod open a new connection when there is need to.       *)
ConnectedMeansUsable == connected /\ holder = Nobody => tcp.state = "CONNECTED"

(* Every open descriptor is the socket of the stub's present client, which *)
(* disconnect() can close.                                                 *)
DescriptorsClosed == fds \subseteq {tcp.conn}

(* So it is for as long as no connection breaks, whatever the threads do   *)
(* (rpc_client.cpp:120-154, tcp_client.cpp:161-181).                       *)
NoDescriptorLost == stops = 0 => DescriptorsClosed

(* Whatever is lost, late or broken, no method is executed twice for one   *)
(* call, or for a call that was not made: a request leaves the stub once,  *)
(* and the server's threads pass it on to one worker (rpc_client.cpp:180,  *)
(* rpc_server.cpp:218).                                                    *)
ExecutedOnce ==
    [][\A c, r \in Calls :
        HandleRpcRequest(c, r) => executed[r] = "no" /\ outcome[r] # "none"]_vars

(* A response that comes late is returned to a call that did not ask for   *)
(* it, but no response is returned to two calls (tcp_client.cpp:190).      *)
ReturnedOnce ==
    \A r, q \in Calls : answer[r] # 0 /\ answer[r] = answer[q] => r = q

(* Every call returns, also when the server never answers: the wait of     *)
(* readExactly is bounded, and no path keeps the mutex.                    *)
CallReturns == \A t \in Threads : pc[t] # "idle" ~> pc[t] = "idle"

(* The stub as a whole keeps the promise of a remote call.                 *)
Remote == INSTANCE RemoteCall WITH NoAnswer <- 0
ImplementsRemoteCall == Remote!Spec
=============================================================================
