---------------------------- MODULE RpcClientProofs ----------------------------
(***************************************************************************)
(* Theorems about RpcClient, for any number of threads, calls and server   *)
(* failures and for replies of any size.                                   *)
(*                                                                         *)
(* Stub says who holds the mutex, which call is whose and what tcp_client_ *)
(* stands for; it holds with and without timeouts.  Conversation says what *)
(* is on the connections; it is what a timeout destroys, so everything     *)
(* that rests on it is proved for servers that answer in time.  Once and   *)
(* Marks, at the end, are what a timeout leaves: a request, and each       *)
(* reply, is in one place only.                                            *)
(***************************************************************************)
EXTENDS RpcClient, SequenceTheorems, TLAPS

-----------------------------------------------------------------------------
(* The stub *)

Receiving == {"header", "body"}

(* mutex_ is held across a receive, and then there is a connection. *)
Mutex ==
    /\ \A t \in Threads : pc[t] \in Receiving <=> holder = t
    /\ holder # Nobody => tcp.state = "CONNECTED"

(* The calls in progress are distinct, and numbered up to calls. *)
Numbers ==
    /\ \A t \in Threads : pc[t] # "idle" => cur[t] \in 1..calls /\ Running(cur[t])
    /\ \A t, u \in Threads : pc[t] # "idle" /\ cur[t] = cur[u] /\ pc[u] # "idle" => t = u
    /\ \A r \in Calls : r > calls <=> outcome[r] = "none"

Client ==
    /\ tcp.state = "CONNECTED" => tcp.conn \in fds
    /\ \A c \in fds : c <= calls

Stub == TypeOK /\ Mutex /\ Numbers /\ Client

(* A connection that breaks needs a server that closes it. *)
Unbroken ==
    stops = 0 =>
        /\ serverUp
        /\ \A c \in Calls : ~fin[c]
        /\ connected <=> tcp.state = "CONNECTED"
        /\ tcp.state = "CONNECTED" => fds = {tcp.conn}
        /\ tcp.state # "CONNECTED" => fds = {}

-----------------------------------------------------------------------------
(* The connections *)

(* The calls that have not sent their request. *)
Preparing(t) == pc[t] \in {"check", "connect", "send"}

(* The connection that a call may yet open. *)
Untouched(c) ==
    up[c] = <<>> /\ pending[c] = {} /\ down[c] = <<>> /\ ~fin[c] /\ c \notin fds

Unopened ==
    /\ \A c \in Calls : c > calls => Untouched(c)
    /\ \A t \in Threads : pc[t] \in {"check", "connect"} => Untouched(cur[t])

(* A request is sent once, and executed once. *)
Unsent(r) == executed[r] = "no" /\ \A c \in Calls : r \notin pending[c]

Requests ==
    /\ \A r \in Calls : r > calls => Unsent(r)
    /\ \A t \in Threads : Preparing(t) => Unsent(cur[t])
    /\ \A c \in Calls : \A r \in pending[c] :
          /\ executed[r] = "no"
          /\ \A d \in Calls : r \in pending[d] => d = c

Up ==
    \A c \in Calls : up[c] # <<>> => ~fin[c] /\ c = tcp.conn /\ holder # Nobody

(* Of the reply to its call the holder has read the first ReadSoFar units. *)
Before(t) == IF pc[t] = "header" THEN 0 ELSE HeaderUnits
ReadSoFar(t) == Before(t) + Len(got[t])

OnItsWay(c, r, n) ==
    n = 0 /\ up[c] = <<r>> /\ pending[c] = {} /\ down[c] = <<>> /\ Unsent(r)

WithPool(c, r, n) ==
    n = 0 /\ up[c] = <<>> /\ pending[c] = {r} /\ down[c] = <<>>

Rest(units, r, n) ==
    /\ Len(units) = HeaderUnits + BodyUnits - n
    /\ \A k \in 1..Len(units) : units[k] = <<r, n + k>>

Replied(c, r, n) ==
    up[c] = <<>> /\ pending[c] = {} /\ executed[r] # "no" /\ Rest(down[c], r, n)

(* What there was has gone with the server's end. *)
Lost(c, r, n) ==
    /\ fin[c] /\ up[c] = <<>> /\ pending[c] \subseteq {r} /\ down[c] = <<>>
    /\ n > 0 => executed[r] # "no"

Whereabouts(c, r, n) ==
    OnItsWay(c, r, n) \/ WithPool(c, r, n) \/ Replied(c, r, n) \/ Lost(c, r, n)

Exchange(t) ==
    /\ need[t] = IF pc[t] = "header" THEN HeaderUnits ELSE BodyUnits
    /\ \A k \in 1..Len(got[t]) : got[t][k] = <<cur[t], Before(t) + k>>
    /\ Whereabouts(tcp.conn, cur[t], ReadSoFar(t))

Conversation ==
    /\ Unopened /\ Requests /\ Up
    /\ NothingLeftOver
    /\ \A t \in Threads : holder = t => Exchange(t)

IInv == Stub /\ Unbroken /\ Conversation

(* What a call that fails undisturbed would need. *)
Excused ==
    stops = 0 =>
        /\ \A t \in Threads : pc[t] = "send" /\ ~connected => disturbed[cur[t]]
        /\ \A r \in Calls : outcome[r] = "false" => disturbed[r]

-----------------------------------------------------------------------------
(* Types *)

LEMMA TypesInit == Init => TypeOK
  <1> SUFFICES ASSUME Init PROVE TypeOK
    OBVIOUS
  <1>1. /\ stops \in 0..MaxStops
        /\ executed \in [Calls -> {"no", "ok", "error"}]
        /\ fds \in SUBSET Calls
        /\ holder \in Threads \cup {Nobody}
    BY ClientAssumption DEF Init
  <1>2. /\ serverUp \in BOOLEAN
        /\ fin \in [Calls -> BOOLEAN]
        /\ connected \in BOOLEAN
    BY DEF Init
  <1>3. tcp \in [conn : {0} \cup Calls, state : {"NONE", "DISCONNECTED", "CONNECTED"}]
    <2>1. tcp = NoTcp
      BY DEF Init
    <2> QED BY <2>1 DEF NoTcp
  <1>4. /\ up \in [Calls -> Seq(Calls)]
        /\ pending \in [Calls -> SUBSET Calls]
        /\ down \in [Calls -> Seq(Unit)]
        /\ got \in [Threads -> Seq(Unit)]
    BY EmptySeq DEF Init
  <1>5. /\ pc \in [Threads -> {"idle", "check", "connect", "send", "header", "body"}]
        /\ cur \in [Threads -> {0} \cup Calls]
        /\ need \in [Threads -> 0 .. HeaderUnits + BodyUnits]
        /\ \A t \in Threads : Len(got[t]) <= need[t] /\ (pc[t] = "body" => need[t] <= BodyUnits)
    BY ClientAssumption DEF Init
  <1>6. /\ calls \in 0..MaxCalls
        /\ outcome \in [Calls -> {"none", "running", "true", "false"}]
        /\ answer \in [Calls -> {0} \cup Calls]
        /\ disturbed \in [Calls -> BOOLEAN]
    BY ClientAssumption DEF Init
  <1> QED BY <1>1, <1>3, <1>4, <1>5, <1>6, <1>2 DEF TypeOK

LEMMA TypesTake ==
    ASSUME TypeOK, NEW c \in Calls, ServerTake(c)
    PROVE  TypeOK'
  <1>1. up[c] \in Seq(Calls) /\ up[c] # <<>>
    BY DEF TypeOK, ServerTake
  <1>2. Head(up[c]) \in Calls /\ Tail(up[c]) \in Seq(Calls)
    BY <1>1, HeadTailProperties
  <1>3. up' \in [Calls -> Seq(Calls)] /\ pending' \in [Calls -> SUBSET Calls]
    BY <1>2 DEF TypeOK, ServerTake
  <1> QED BY <1>3 DEF TypeOK, ServerTake, stub, reading, history

LEMMA ReplyType ==
    ASSUME NEW r \in Calls
    PROVE  Reply(r) \in Seq(Unit)
  <1>1. HeaderUnits + BodyUnits \in Nat
    BY ClientAssumption
  <1> QED BY <1>1 DEF Reply, Unit

LEMMA TypesHandle ==
    ASSUME TypeOK, NEW c \in Calls, NEW r \in Calls, HandleRpcRequest(c, r)
    PROVE  TypeOK'
  <1>1. down[c] \o Reply(r) \in Seq(Unit)
    BY ReplyType, ConcatProperties DEF TypeOK
  <1>2. down' \in [Calls -> Seq(Unit)]
    BY <1>1 DEF TypeOK, HandleRpcRequest
  <1>3. executed' \in [Calls -> {"no", "ok", "error"}] /\ pending' \in [Calls -> SUBSET Calls]
    BY DEF TypeOK, HandleRpcRequest
  <1> QED BY <1>2, <1>3 DEF TypeOK, HandleRpcRequest, stub, reading, history

LEMMA TypesServer ==
    ASSUME TypeOK, Server
    PROVE  TypeOK'
  <1>1. ASSUME NEW c \in Calls, ServerCloses(c) PROVE TypeOK'
    BY <1>1, ClientAssumption DEF TypeOK, ServerCloses, stub, reading
  <1>2. CASE ServerStop
    <2>1. up' \in [Calls -> Seq(Calls)]
      <3>1. up' = [c \in Calls |-> <<>>]
        BY <1>2 DEF ServerStop
      <3> QED BY <3>1, EmptySeq
    <2>2. down' \in [Calls -> Seq(Unit)]
      <3>1. down' = down \/ down' = [c \in Calls |-> <<>>]
        BY <1>2 DEF ServerStop
      <3>2. down \in [Calls -> Seq(Unit)]
        BY DEF TypeOK
      <3> QED BY <3>1, <3>2, EmptySeq
    <2>3. pending' \in [Calls -> SUBSET Calls]
      BY <1>2 DEF ServerStop
    <2>4. stops' \in 0..MaxStops /\ serverUp' \in BOOLEAN
      <3>1. stops' = stops + 1 /\ stops < MaxStops /\ stops \in 0..MaxStops /\ serverUp' = FALSE
        BY <1>2 DEF TypeOK, ServerStop
      <3>2. stops' \in 0..MaxStops
        BY <3>1, ClientAssumption
      <3> QED BY <3>1, <3>2
    <2>5. fin' \in [Calls -> BOOLEAN]
      <3>1. fin' = [c \in Calls |-> fin[c] \/ c \in fds]
        BY <1>2 DEF ServerStop
      <3> QED BY <3>1
    <2>6. disturbed' \in [Calls -> BOOLEAN]
      <3>1. disturbed' = [r \in Calls |-> disturbed[r] \/ Running(r)]
        BY <1>2 DEF ServerStop
      <3> QED BY <3>1
    <2> QED BY <1>2, <2>1, <2>2, <2>3, <2>4, <2>5, <2>6 DEF TypeOK, ServerStop, stub, reading
  <1>3. CASE ServerStart
    BY <1>3 DEF TypeOK, ServerStart, stub, reading, history
  <1> QED BY <1>1, <1>2, <1>3, TypesTake, TypesHandle DEF Server

(* What an action leaves alone keeps its type. *)
Threading ==
    /\ pc \in [Threads -> {"idle", "check", "connect", "send", "header", "body"}]
    /\ holder \in Threads \cup {Nobody}
    /\ \A t \in Threads : Len(got[t]) <= need[t] /\ (pc[t] = "body" => need[t] <= BodyUnits)

LEMMA TypesReturn ==
    ASSUME TypeOK, NEW t \in Threads, ReturnFalse(t), UNCHANGED reading
    PROVE  Threading' /\ outcome' \in [Calls -> {"none", "running", "true", "false"}]
  <1>1. \A u \in Threads : pc'[u] = IF u = t THEN "idle" ELSE pc[u]
    BY DEF TypeOK, ReturnFalse, Goto
  <1>2. pc' \in [Threads -> {"idle", "check", "connect", "send", "header", "body"}]
    BY DEF TypeOK, ReturnFalse, Goto
  <1>3. outcome' \in [Calls -> {"none", "running", "true", "false"}] /\ holder' = Nobody
    BY DEF TypeOK, ReturnFalse
  <1>4. \A u \in Threads : Len(got'[u]) <= need'[u] /\ (pc'[u] = "body" => need'[u] <= BodyUnits)
    BY <1>1 DEF TypeOK, reading
  <1> QED BY <1>2, <1>3, <1>4 DEF Threading

LEMMA TypesDisconnect ==
    ASSUME TypeOK, Disconnect
    PROVE  TypeOK'
  <1>1. disturbed' \in [Calls -> BOOLEAN]
    <2>1. disturbed' = [r \in Calls |-> disturbed[r] \/ Running(r)]
      BY DEF Disconnect
    <2> QED BY <2>1
  <1>2. tcp' \in [conn : {0} \cup Calls, state : {"NONE", "DISCONNECTED", "CONNECTED"}]
    <2>1. tcp' = NoTcp
      BY DEF Disconnect
    <2> QED BY <2>1 DEF NoTcp
  <1>3. fds' \in SUBSET Calls /\ connected' \in BOOLEAN
    BY DEF TypeOK, Disconnect, Released
  <1> QED BY <1>1, <1>2, <1>3 DEF TypeOK, Disconnect, server, reading

LEMMA TypesCall ==
    ASSUME TypeOK, NEW t \in Threads, Call(t)
    PROVE  TypeOK'
  <1>1. calls + 1 \in Calls /\ calls' = calls + 1 /\ calls' \in 0..MaxCalls
    BY ClientAssumption DEF TypeOK, Call, Calls
  <1>2. cur' \in [Threads -> {0} \cup Calls]
    BY <1>1 DEF TypeOK, Call
  <1>3. outcome' \in [Calls -> {"none", "running", "true", "false"}]
    BY <1>1 DEF TypeOK, Call
  <1>4. disturbed' \in [Calls -> BOOLEAN]
    BY <1>1 DEF TypeOK, Call
  <1>5. pc' \in [Threads -> {"idle", "check", "connect", "send", "header", "body"}]
    BY DEF TypeOK, Call, Goto
  <1>6. \A u \in Threads : pc'[u] = IF u = t THEN "check" ELSE pc[u]
    BY DEF TypeOK, Call, Goto
  <1>7. \A u \in Threads : Len(got'[u]) <= need'[u] /\ (pc'[u] = "body" => need'[u] <= BodyUnits)
    BY <1>6 DEF TypeOK, Call, reading
  <1> QED BY <1>1, <1>2, <1>3, <1>4, <1>5, <1>7 DEF TypeOK, Call, server, stub, reading

LEMMA TypesGoto ==
    ASSUME TypeOK, NEW t \in Threads,
           NEW label \in {"idle", "check", "connect", "send"}, Goto(t, label),
           holder' \in Threads \cup {Nobody}, UNCHANGED reading
    PROVE  Threading'
  <1>1. \A u \in Threads : pc'[u] = IF u = t THEN label ELSE pc[u]
    BY DEF TypeOK, Goto
  <1>2. pc' \in [Threads -> {"idle", "check", "connect", "send", "header", "body"}]
    BY DEF TypeOK, Goto
  <1>3. \A u \in Threads : Len(got'[u]) <= need'[u] /\ (pc'[u] = "body" => need'[u] <= BodyUnits)
    BY <1>1 DEF TypeOK, reading
  <1> QED BY <1>2, <1>3 DEF Threading

LEMMA TypesConnect ==
    ASSUME Stub, NEW t \in Threads,
           Check(t) \/ ConnectAlready(t) \/ ConnectOk(t) \/ ConnectFails(t)
    PROVE  TypeOK'
  <1> USE DEF Stub
  <1>1. CASE Check(t)
    <2>1. Threading'
      BY <1>1, TypesGoto DEF Check, TypeOK
    <2> QED BY <1>1, <2>1 DEF TypeOK, Threading, Check, server, stub, reading, history
  <1>2. CASE ConnectAlready(t)
    <2>1. Threading'
      BY <1>2, TypesGoto DEF ConnectAlready, TypeOK
    <2> QED BY <1>2, <2>1 DEF TypeOK, Threading, ConnectAlready, server, stub, reading, history
  <1>3. CASE ConnectOk(t)
    <2>1. Threading'
      BY <1>3, TypesGoto DEF ConnectOk, TypeOK
    <2>2. cur[t] \in Calls
      BY <1>3, ClientAssumption DEF ConnectOk, Numbers, TypeOK, Calls
    <2>3. tcp' \in [conn : {0} \cup Calls, state : {"NONE", "DISCONNECTED", "CONNECTED"}]
      BY <1>3, <2>2 DEF ConnectOk
    <2>4. fds' \in SUBSET Calls /\ connected' \in BOOLEAN
      BY <1>3, <2>2 DEF ConnectOk, Released, TypeOK
    <2> QED BY <1>3, <2>1, <2>3, <2>4 DEF TypeOK, Threading, ConnectOk, server, reading, history
  <1>4. CASE ConnectFails(t)
    <2>1. Threading' /\ outcome' \in [Calls -> {"none", "running", "true", "false"}]
      BY <1>4, TypesReturn DEF ConnectFails
    <2>2. tcp' \in [conn : {0} \cup Calls, state : {"NONE", "DISCONNECTED", "CONNECTED"}]
      <3>1. tcp' = [conn |-> 0, state |-> "DISCONNECTED"]
        BY <1>4 DEF ConnectFails
      <3> QED BY <3>1
    <2>3. fds' \in SUBSET Calls /\ connected' \in BOOLEAN
      BY <1>4 DEF ConnectFails, Released, TypeOK
    <2>4. disturbed' \in [Calls -> BOOLEAN]
      BY <1>4 DEF ConnectFails, TypeOK
    <2> QED BY <1>4, <2>1, <2>2, <2>3, <2>4
            DEF TypeOK, Threading, ConnectFails, ReturnFalse, server, reading
  <1> QED BY <1>1, <1>2, <1>3, <1>4

LEMMA TypesSend ==
    ASSUME Stub, NEW t \in Threads, SendRefused(t) \/ SendBroken(t) \/ SendRequest(t)
    PROVE  TypeOK'
  <1> USE DEF Stub
  <1>1. CASE SendRefused(t)
    <2>1. Threading' /\ outcome' \in [Calls -> {"none", "running", "true", "false"}]
      BY <1>1, TypesReturn DEF SendRefused
    <2> QED BY <1>1, <2>1 DEF TypeOK, Threading, SendRefused, ReturnFalse, server, stub, reading
  <1>2. CASE SendBroken(t)
    <2>1. Threading' /\ outcome' \in [Calls -> {"none", "running", "true", "false"}]
      BY <1>2, TypesReturn DEF SendBroken
    <2>2. tcp' \in [conn : {0} \cup Calls, state : {"NONE", "DISCONNECTED", "CONNECTED"}]
      BY <1>2 DEF SendBroken, TypeOK
    <2> QED BY <1>2, <2>1, <2>2 DEF TypeOK, Threading, SendBroken, ReturnFalse, server, reading
  <1>3. CASE SendRequest(t)
    <2>1. cur[t] \in Calls
      BY <1>3, ClientAssumption DEF SendRequest, Numbers, TypeOK, Calls
    <2>2. up' \in [Calls -> Seq(Calls)]
      <3> DEFINE s == Append(up[tcp.conn], cur[t])
      <3>1. tcp.conn \in Calls /\ up \in [Calls -> Seq(Calls)]
        BY <1>3 DEF SendRequest, Client, TypeOK
      <3>2. s \in Seq(Calls)
        BY <2>1, <3>1, AppendProperties
      <3>3. up' = up \/ up' = [up EXCEPT ![tcp.conn] = s]
        BY <1>3 DEF SendRequest
      <3> HIDE DEF s
      <3> QED BY <3>1, <3>2, <3>3
    <2>3. got' \in [Threads -> Seq(Unit)]
      BY <1>3, EmptySeq DEF SendRequest, TypeOK
    <2>4. need' \in [Threads -> 0 .. HeaderUnits + BodyUnits]
      <3>1. HeaderUnits \in 0 .. HeaderUnits + BodyUnits
        BY ClientAssumption
      <3> QED BY <1>3, <3>1 DEF SendRequest, TypeOK
    <2>5. /\ pc' \in [Threads -> {"idle", "check", "connect", "send", "header", "body"}]
          /\ holder' \in Threads \cup {Nobody}
      BY <1>3 DEF SendRequest, Goto, TypeOK
    <2>6. ASSUME NEW u \in Threads
          PROVE  Len(got'[u]) <= need'[u] /\ (pc'[u] = "body" => need'[u] <= BodyUnits)
      <3>1. CASE u = t
        <4>1. got'[u] = <<>> /\ need'[u] = HeaderUnits /\ pc'[u] = "header"
          BY <1>3, <3>1 DEF SendRequest, Goto, TypeOK
        <4>2. 0 <= HeaderUnits
          BY ClientAssumption
        <4> QED BY <4>1, <4>2, EmptySeq
      <3>2. CASE u # t
        <4>1. got'[u] = got[u] /\ need'[u] = need[u] /\ pc'[u] = pc[u]
          BY <1>3, <3>2 DEF SendRequest, Goto, TypeOK
        <4> QED BY <4>1 DEF TypeOK
      <3> QED BY <3>1, <3>2
    <2> QED BY <1>3, <2>2, <2>3, <2>4, <2>5, <2>6 DEF TypeOK, SendRequest, stub, history
  <1> QED BY <1>1, <1>2, <1>3

LEMMA TypesRead ==
    ASSUME Stub, NEW t \in Threads, Read(t)
    PROVE  TypeOK'
  <1> USE DEF Stub
  <1>1. holder = t /\ tcp.state = "CONNECTED" /\ tcp.conn \in Calls
    BY ClientAssumption DEF Read, Reading, Mutex, Receiving, Client, TypeOK
  <1>2. down[tcp.conn] \in Seq(Unit) /\ down[tcp.conn] # <<>> /\ got[t] \in Seq(Unit)
    BY <1>1 DEF TypeOK, Read
  <1>3. Head(down[tcp.conn]) \in Unit /\ Tail(down[tcp.conn]) \in Seq(Unit)
    BY <1>2, HeadTailProperties
  <1> DEFINE g == Append(got[t], Head(down[tcp.conn]))
  <1>4. g \in Seq(Unit) /\ Len(g) = Len(got[t]) + 1
    BY <1>2, <1>3, AppendProperties
  <1>5. got' = [got EXCEPT ![t] = g] /\ down' = [down EXCEPT ![tcp.conn] = Tail(down[tcp.conn])]
    BY DEF Read
  <1> HIDE DEF g
  <1>6. got' \in [Threads -> Seq(Unit)]
    BY <1>4, <1>5 DEF TypeOK
  <1>7. down' \in [Calls -> Seq(Unit)]
    BY <1>3, <1>5 DEF TypeOK
  <1>8. ASSUME NEW u \in Threads
        PROVE  Len(got'[u]) <= need'[u] /\ (pc'[u] = "body" => need'[u] <= BodyUnits)
    <2>1. need'[u] = need[u] /\ pc'[u] = pc[u]
      BY DEF Read
    <2>2. CASE u = t
      <3>1. got'[u] = g
        BY <1>5, <2>2 DEF TypeOK
      <3>2. Len(got[t]) < need[t] /\ Len(got[t]) \in Nat /\ need[t] \in Nat
        BY <1>2, LenProperties, ClientAssumption DEF Read, Reading, TypeOK
      <3>3. Len(got'[u]) <= need[t]
        BY <1>4, <3>1, <3>2
      <3> QED BY <2>1, <2>2, <3>3 DEF TypeOK
    <2>3. CASE u # t
      <3>1. got'[u] = got[u]
        BY <1>5, <2>3 DEF TypeOK
      <3> QED BY <2>1, <3>1 DEF TypeOK
    <2> QED BY <2>2, <2>3
  <1> QED BY <1>6, <1>7, <1>8 DEF TypeOK, Read, server, stub, history

LEMMA TypesReadFails ==
    ASSUME Stub, NEW t \in Threads, ReadEof(t) \/ ReadTimeout(t)
    PROVE  TypeOK'
  <1> USE DEF Stub
  <1>1. CASE ReadEof(t)
    <2>1. Threading' /\ outcome' \in [Calls -> {"none", "running", "true", "false"}]
      BY <1>1, TypesReturn DEF ReadEof
    <2>2. tcp' \in [conn : {0} \cup Calls, state : {"NONE", "DISCONNECTED", "CONNECTED"}]
      BY <1>1 DEF ReadEof, TypeOK
    <2> QED BY <1>1, <2>1, <2>2 DEF TypeOK, Threading, ReadEof, ReturnFalse, server, reading
  <1>2. CASE ReadTimeout(t)
    <2>1. Threading' /\ outcome' \in [Calls -> {"none", "running", "true", "false"}]
      BY <1>2, TypesReturn DEF ReadTimeout
    <2>2. disturbed' \in [Calls -> BOOLEAN]
      BY <1>2 DEF ReadTimeout, TypeOK
    <2> QED BY <1>2, <2>1, <2>2 DEF TypeOK, Threading, ReadTimeout, ReturnFalse, server, stub, reading
  <1> QED BY <1>1, <1>2

LEMMA TypesHeader ==
    ASSUME Stub, NEW t \in Threads, NEW len \in 0 .. BodyUnits + 1,
           AcceptHeader(t, len) \/ RefuseHeader(t, len)
    PROVE  TypeOK'
  <1> USE DEF Stub
  <1>1. CASE AcceptHeader(t, len)
    <2>1. len \in 0..BodyUnits /\ len \in 0 .. HeaderUnits + BodyUnits
      BY <1>1, ClientAssumption DEF AcceptHeader, ValidLength
    <2>2. got' \in [Threads -> Seq(Unit)] /\ need' \in [Threads -> 0 .. HeaderUnits + BodyUnits]
      BY <1>1, <2>1, EmptySeq DEF AcceptHeader, TypeOK
    <2>3. pc' \in [Threads -> {"idle", "check", "connect", "send", "header", "body"}]
      BY <1>1 DEF AcceptHeader, Goto, TypeOK
    <2>4. ASSUME NEW u \in Threads
          PROVE  Len(got'[u]) <= need'[u] /\ (pc'[u] = "body" => need'[u] <= BodyUnits)
      <3>1. CASE u = t
        <4>1. got'[u] = <<>> /\ need'[u] = len
          BY <1>1, <3>1 DEF AcceptHeader, TypeOK
        <4>2. 0 <= len /\ len <= BodyUnits
          BY <2>1
        <4> QED BY <4>1, <4>2, EmptySeq
      <3>2. CASE u # t
        <4>1. got'[u] = got[u] /\ need'[u] = need[u] /\ pc'[u] = pc[u]
          BY <1>1, <3>2 DEF AcceptHeader, Goto, TypeOK
        <4> QED BY <4>1 DEF TypeOK
      <3> QED BY <3>1, <3>2
    <2> QED BY <1>1, <2>2, <2>3, <2>4 DEF TypeOK, AcceptHeader, server, stub, history
  <1>2. CASE RefuseHeader(t, len)
    <2>1. Threading' /\ outcome' \in [Calls -> {"none", "running", "true", "false"}]
      BY <1>2, TypesReturn DEF RefuseHeader
    <2> QED BY <1>2, <2>1 DEF TypeOK, Threading, RefuseHeader, ReturnFalse, server, stub, reading
  <1> QED BY <1>1, <1>2

LEMMA TypesBody ==
    ASSUME Stub, NEW t \in Threads, ReturnResponse(t) \/ ParseFails(t)
    PROVE  TypeOK'
  <1> USE DEF Stub
  <1>1. CASE ReturnResponse(t)
    <2>1. Threading'
      BY <1>1, TypesGoto DEF ReturnResponse, TypeOK
    <2>2. WholeBody(t) => got[t][1][1] \in Calls
      <3>1. SUFFICES ASSUME WholeBody(t) PROVE got[t][1][1] \in Calls
        OBVIOUS
      <3>2. got[t] \in Seq(Unit) /\ Len(got[t]) = BodyUnits
        BY <1>1, <3>1 DEF ReturnResponse, BodyComplete, WholeBody, TypeOK
      <3>3. got[t][1] \in Unit
        BY <3>2, ClientAssumption, ElementOfSeq
      <3> QED BY <3>3 DEF Unit
    <2>3. answer' \in [Calls -> {0} \cup Calls]
      BY <1>1, <2>2 DEF ReturnResponse, TypeOK
    <2>4. outcome' \in [Calls -> {"none", "running", "true", "false"}]
      BY <1>1 DEF ReturnResponse, TypeOK
    <2> QED BY <1>1, <2>1, <2>3, <2>4 DEF TypeOK, Threading, ReturnResponse, server, stub, reading
  <1>2. CASE ParseFails(t)
    <2>1. Threading' /\ outcome' \in [Calls -> {"none", "running", "true", "false"}]
      BY <1>2, TypesReturn DEF ParseFails
    <2> QED BY <1>2, <2>1 DEF TypeOK, Threading, ParseFails, ReturnFalse, server, stub, reading
  <1> QED BY <1>1, <1>2

-----------------------------------------------------------------------------
(* Threads: the mutex, and whose call is which *)

Ownership == Mutex /\ Numbers /\ Client

LEMMA OwnershipInit == Init => Ownership
  <1> SUFFICES ASSUME Init PROVE Ownership
    OBVIOUS
  <1>1. Mutex
    BY ClientAssumption DEF Init, Mutex, Receiving
  <1>2. Numbers
    BY ClientAssumption DEF Init, Numbers, Calls
  <1>3. Client
    BY DEF Init, Client, NoTcp
  <1> QED BY <1>1, <1>2, <1>3 DEF Ownership

(* A thread goes on with its call. *)
LEMMA NumbersGoto ==
    ASSUME Stub, NEW t \in Threads, NEW label, pc[t] # "idle", Goto(t, label),
           UNCHANGED <<cur, calls, outcome>>
    PROVE  Numbers'
  <1>1. \A u \in Threads : pc'[u] = IF u = t THEN label ELSE pc[u]
    BY DEF Stub, TypeOK, Goto
  <1> QED BY <1>1 DEF Stub, Numbers, Running

(* It returns. *)
LEMMA NumbersReturn ==
    ASSUME Stub, NEW t \in Threads, NEW how \in {"true", "false"}, pc[t] # "idle",
           Goto(t, "idle"), outcome' = [outcome EXCEPT ![cur[t]] = how],
           UNCHANGED <<cur, calls>>
    PROVE  Numbers'
  <1>1. \A u \in Threads : pc'[u] = IF u = t THEN "idle" ELSE pc[u]
    BY DEF Stub, TypeOK, Goto
  <1>2. cur[t] \in Calls /\ cur[t] \in 1..calls /\ calls \in Nat
    BY DEF Stub, TypeOK, Numbers, Calls
  <1>3. \A r \in Calls : outcome'[r] = IF r = cur[t] THEN how ELSE outcome[r]
    BY <1>2 DEF Stub, TypeOK
  <1>4. \A u \in Threads : pc'[u] # "idle" => cur'[u] \in 1..calls' /\ Running(cur[u])'
    <2> SUFFICES ASSUME NEW u \in Threads, pc'[u] # "idle"
                 PROVE  cur'[u] \in 1..calls' /\ Running(cur[u])'
      OBVIOUS
    <2>1. u # t /\ pc[u] # "idle" /\ cur[u] # cur[t] /\ cur[u] \in 1..calls
      BY <1>1 DEF Stub, Numbers
    <2>2. cur[u] \in Calls
      BY <2>1 DEF Stub, TypeOK, Calls
    <2> QED BY <1>3, <2>1, <2>2 DEF Stub, Numbers, Running
  <1>5. \A u, v \in Threads : pc'[u] # "idle" /\ cur'[u] = cur'[v] /\ pc'[v] # "idle" => u = v
    BY <1>1 DEF Stub, Numbers
  <1>6. \A r \in Calls : r > calls' <=> outcome'[r] = "none"
    <2> SUFFICES ASSUME NEW r \in Calls PROVE r > calls <=> outcome'[r] = "none"
      OBVIOUS
    <2>1. CASE r = cur[t]
      BY <1>2, <1>3, <2>1
    <2>2. CASE r # cur[t]
      BY <1>3, <2>2 DEF Stub, Numbers
    <2> QED BY <2>1, <2>2
  <1> QED BY <1>4, <1>5, <1>6 DEF Numbers, Running

LEMMA NumbersCall ==
    ASSUME Stub, NEW t \in Threads, Call(t)
    PROVE  Numbers'
  <1>1. calls \in Nat /\ calls + 1 \in Calls /\ calls' = calls + 1
    BY ClientAssumption DEF Call, Stub, TypeOK, Calls
  <1>2. \A u \in Threads : /\ pc'[u] = IF u = t THEN "check" ELSE pc[u]
                           /\ cur'[u] = IF u = t THEN calls + 1 ELSE cur[u]
    BY DEF Call, Stub, TypeOK, Goto
  <1>3. \A r \in Calls : outcome'[r] = IF r = calls + 1 THEN "running" ELSE outcome[r]
    BY <1>1 DEF Call, Stub, TypeOK
  <1>4. \A u \in Threads : u # t /\ pc'[u] # "idle" =>
            cur[u] \in 1..calls /\ cur[u] \in Calls /\ outcome[cur[u]] = "running" /\ cur[u] # calls + 1
    BY <1>1, <1>2 DEF Stub, TypeOK, Numbers, Calls, Running
  <1>5. \A u \in Threads : pc'[u] # "idle" => cur'[u] \in 1..calls' /\ outcome'[cur'[u]] = "running"
    <2> SUFFICES ASSUME NEW u \in Threads, pc'[u] # "idle"
                 PROVE  cur'[u] \in 1..calls' /\ outcome'[cur'[u]] = "running"
      OBVIOUS
    <2>1. CASE u = t
      BY <1>1, <1>2, <1>3, <2>1
    <2>2. CASE u # t
      BY <1>1, <1>2, <1>3, <1>4, <2>2
    <2> QED BY <2>1, <2>2
  <1>6. \A u, v \in Threads : pc'[u] # "idle" /\ cur'[u] = cur'[v] /\ pc'[v] # "idle" => u = v
    BY <1>2, <1>4 DEF Stub, Numbers
  <1>7. \A r \in Calls : r > calls' <=> outcome'[r] = "none"
    <2> SUFFICES ASSUME NEW r \in Calls PROVE r > calls' <=> outcome'[r] = "none"
      OBVIOUS
    <2>1. r > calls <=> outcome[r] = "none"
      BY DEF Stub, Numbers
    <2>2. r \in Nat
      BY DEF Calls
    <2> QED BY <1>1, <1>3, <2>1, <2>2
  <1> QED BY <1>5, <1>6, <1>7 DEF Numbers, Running

(* A thread that does not hold the mutex does not take it either. *)
LEMMA MutexGoto ==
    ASSUME Stub, NEW t \in Threads, NEW label, pc[t] \notin Receiving, label \notin Receiving,
           Goto(t, label), UNCHANGED holder,
           holder = Nobody \/ tcp' = tcp
    PROVE  Mutex'
  <1>1. \A u \in Threads : pc'[u] = IF u = t THEN label ELSE pc[u]
    BY DEF Stub, TypeOK, Goto
  <1> QED BY <1>1, ClientAssumption DEF Stub, Mutex

(* It gives the mutex back, or has not got it when nobody has. *)
LEMMA MutexReturn ==
    ASSUME Stub, NEW t \in Threads, pc[t] \in Receiving \/ holder = Nobody,
           Goto(t, "idle"), holder' = Nobody
    PROVE  Mutex'
  <1>1. \A u \in Threads : pc'[u] = IF u = t THEN "idle" ELSE pc[u]
    BY DEF Stub, TypeOK, Goto
  <1> QED BY <1>1, ClientAssumption DEF Stub, Mutex, Receiving

LEMMA MutexTaken ==
    ASSUME Stub, NEW t \in Threads, NEW label \in Receiving, Goto(t, label),
           holder \in {Nobody, t}, holder' = t, tcp.state = "CONNECTED", UNCHANGED tcp
    PROVE  Mutex'
  <1>1. \A u \in Threads : pc'[u] = IF u = t THEN label ELSE pc[u]
    BY DEF Stub, TypeOK, Goto
  <1> QED BY <1>1, ClientAssumption DEF Stub, Mutex, Receiving

(* What the server does, and what a thread reads, is nobody's business. *)
LEMMA OwnershipAlone ==
    ASSUME Stub, UNCHANGED <<stub, holder, pc, cur, calls, outcome>>
    PROVE  Ownership'
  BY DEF Stub, Ownership, Mutex, Numbers, Client, Running, stub

LEMMA OwnershipDisconnect ==
    ASSUME Stub, Disconnect
    PROVE  Ownership'
  <1>1. tcp'.state = "NONE" /\ tcp' = NoTcp
    BY DEF Disconnect, NoTcp
  <1>2. Numbers'
    BY DEF Stub, Disconnect, Numbers, Running
  <1>3. Mutex'
    BY <1>1 DEF Stub, Disconnect, Mutex
  <1>4. Client'
    BY <1>1 DEF Stub, Disconnect, Client, Released
  <1> QED BY <1>2, <1>3, <1>4 DEF Ownership

LEMMA OwnershipCall ==
    ASSUME Stub, NEW t \in Threads, Call(t)
    PROVE  Ownership'
  <1>1. Mutex'
    BY MutexGoto DEF Call, stub, Receiving
  <1>2. Client'
    BY DEF Stub, Call, stub, Client, TypeOK, Calls
  <1> QED BY <1>1, <1>2, NumbersCall DEF Ownership

LEMMA OwnershipConnect ==
    ASSUME Stub, NEW t \in Threads,
           Check(t) \/ ConnectAlready(t) \/ ConnectOk(t) \/ ConnectFails(t)
    PROVE  Ownership'
  <1>1. CASE Check(t)
    <2>1. Numbers' /\ Mutex'
      BY <1>1, NumbersGoto, MutexGoto DEF Check, stub, history, Receiving
    <2> QED BY <1>1, <2>1 DEF Stub, Check, stub, history, Ownership, Client
  <1>2. CASE ConnectAlready(t)
    <2>1. Numbers' /\ Mutex'
      BY <1>2, NumbersGoto, MutexGoto DEF ConnectAlready, stub, history, Receiving
    <2> QED BY <1>2, <2>1 DEF Stub, ConnectAlready, stub, history, Ownership, Client
  <1>3. CASE ConnectOk(t)
    <2>1. Numbers' /\ Mutex'
      BY <1>3, NumbersGoto, MutexGoto DEF ConnectOk, history, Receiving
    <2>2. cur[t] <= calls /\ cur[t] \in Calls
      BY <1>3 DEF ConnectOk, Stub, Numbers, TypeOK, Calls
    <2>3. tcp'.conn = cur[t] /\ fds' = Released \cup {cur[t]} /\ calls' = calls
      BY <1>3 DEF ConnectOk, history
    <2>4. Client'
      BY <2>2, <2>3 DEF Stub, Client, Released
    <2> QED BY <2>1, <2>4 DEF Ownership
  <1>4. CASE ConnectFails(t)
    <2>1. Numbers' /\ Mutex'
      BY <1>4, NumbersReturn, MutexReturn DEF ConnectFails, ReturnFalse
    <2>2. Client'
      BY <1>4 DEF ConnectFails, ReturnFalse, Stub, Client, Released
    <2> QED BY <2>1, <2>2 DEF Ownership
  <1> QED BY <1>1, <1>2, <1>3, <1>4

LEMMA OwnershipSend ==
    ASSUME Stub, NEW t \in Threads, SendRefused(t) \/ SendBroken(t) \/ SendRequest(t)
    PROVE  Ownership'
  <1>1. CASE SendRefused(t)
    <2>1. Numbers' /\ Mutex'
      BY <1>1, NumbersReturn, MutexReturn DEF SendRefused, ReturnFalse
    <2> QED BY <1>1, <2>1 DEF Stub, SendRefused, ReturnFalse, stub, Ownership, Client
  <1>2. CASE SendBroken(t)
    <2>1. Numbers' /\ Mutex'
      BY <1>2, NumbersReturn, MutexReturn DEF SendBroken, ReturnFalse
    <2>2. tcp'.state = "DISCONNECTED"
      BY <1>2 DEF Stub, TypeOK, SendBroken
    <2> QED BY <1>2, <2>1, <2>2 DEF Stub, SendBroken, ReturnFalse, Ownership, Client
  <1>3. CASE SendRequest(t)
    <2>1. Numbers' /\ Mutex'
      BY <1>3, NumbersGoto, MutexTaken DEF SendRequest, stub, history, Receiving
    <2> QED BY <1>3, <2>1 DEF Stub, SendRequest, stub, history, Ownership, Client
  <1> QED BY <1>1, <1>2, <1>3

LEMMA OwnershipReceive ==
    ASSUME Stub, NEW t \in Threads, ReadEof(t) \/ ReadTimeout(t)
    PROVE  Ownership'
  <1>1. CASE ReadEof(t)
    <2>1. Numbers' /\ Mutex'
      BY <1>1, NumbersReturn, MutexReturn DEF ReadEof, Reading, Receiving, ReturnFalse
    <2>2. tcp'.state = "DISCONNECTED"
      BY <1>1 DEF Stub, TypeOK, ReadEof
    <2> QED BY <1>1, <2>1, <2>2 DEF Stub, ReadEof, ReturnFalse, Ownership, Client
  <1>2. CASE ReadTimeout(t)
    <2>1. Numbers' /\ Mutex'
      BY <1>2, NumbersReturn, MutexReturn DEF ReadTimeout, Reading, Receiving, ReturnFalse
    <2> QED BY <1>2, <2>1 DEF Stub, ReadTimeout, ReturnFalse, stub, Ownership, Client
  <1> QED BY <1>1, <1>2

LEMMA OwnershipHeader ==
    ASSUME Stub, NEW t \in Threads, NEW len, AcceptHeader(t, len) \/ RefuseHeader(t, len)
    PROVE  Ownership'
  <1>1. CASE AcceptHeader(t, len)
    <2>1. holder = t /\ tcp.state = "CONNECTED"
      BY <1>1, ClientAssumption DEF AcceptHeader, HeaderComplete, Stub, Mutex, Receiving
    <2>2. Numbers' /\ Mutex'
      BY <1>1, <2>1, NumbersGoto, MutexTaken
         DEF AcceptHeader, HeaderComplete, stub, history, Receiving
    <2> QED BY <1>1, <2>2 DEF Stub, AcceptHeader, stub, history, Ownership, Client
  <1>2. CASE RefuseHeader(t, len)
    <2>1. Numbers' /\ Mutex'
      BY <1>2, NumbersReturn, MutexReturn DEF RefuseHeader, HeaderComplete, Receiving, ReturnFalse
    <2> QED BY <1>2, <2>1 DEF Stub, RefuseHeader, ReturnFalse, stub, Ownership, Client
  <1> QED BY <1>1, <1>2

LEMMA OwnershipBody ==
    ASSUME Stub, NEW t \in Threads, ReturnResponse(t) \/ ParseFails(t)
    PROVE  Ownership'
  <1>1. CASE ReturnResponse(t)
    <2>1. Numbers' /\ Mutex'
      BY <1>1, NumbersReturn, MutexReturn DEF ReturnResponse, BodyComplete, Receiving
    <2> QED BY <1>1, <2>1 DEF Stub, ReturnResponse, stub, Ownership, Client
  <1>2. CASE ParseFails(t)
    <2>1. Numbers' /\ Mutex'
      BY <1>2, NumbersReturn, MutexReturn DEF ParseFails, BodyComplete, Receiving, ReturnFalse
    <2> QED BY <1>2, <2>1 DEF Stub, ParseFails, ReturnFalse, stub, Ownership, Client
  <1> QED BY <1>1, <1>2

LEMMA StubStep == Stub /\ [Next]_vars => Stub'
  <1> SUFFICES ASSUME Stub, [Next]_vars PROVE TypeOK' /\ Ownership'
    BY DEF Stub, Ownership
  <1>1. CASE Server
    <2>1. UNCHANGED <<stub, holder, pc, cur, calls, outcome>>
      BY <1>1 DEF Server, ServerTake, ServerCloses, HandleRpcRequest, ServerStop, ServerStart,
                  stub, history
    <2> QED BY <1>1, <2>1, TypesServer, OwnershipAlone DEF Stub
  <1>2. CASE Disconnect
    BY <1>2, TypesDisconnect, OwnershipDisconnect DEF Stub
  <1>3. ASSUME NEW t \in Threads, Call(t) PROVE TypeOK' /\ Ownership'
    BY <1>3, TypesCall, OwnershipCall DEF Stub
  <1>4. ASSUME NEW t \in Threads, Step(t) PROVE TypeOK' /\ Ownership'
    <2>1. CASE Read(t)
      BY <2>1, TypesRead, OwnershipAlone DEF Read, stub, history
    <2> QED BY <1>4, <2>1, TypesConnect, TypesSend, TypesReadFails, TypesHeader, TypesBody,
               OwnershipConnect, OwnershipSend, OwnershipReceive, OwnershipHeader, OwnershipBody
            DEF Step
  <1>5. CASE UNCHANGED vars
    <2>1. TypeOK'
      BY <1>5 DEF Stub, TypeOK, vars, server, stub, reading, history
    <2> QED BY <1>5, <2>1, OwnershipAlone DEF vars, stub, history
  <1> QED BY <1>1, <1>2, <1>3, <1>4, <1>5 DEF Next

(* Every variable has the values that the code gives it, and a thread      *)
(* never reads more than it asked for: also with timeouts, and when what   *)
(* it reads as a length is anything but one (tcp_client.cpp:268-331).      *)
THEOREM RpcClientType == Spec => []TypeOK
  <1>1. Init => Stub
    BY TypesInit, OwnershipInit DEF Stub, Ownership
  <1>2. Stub => TypeOK
    BY DEF Stub
  <1> QED BY <1>1, <1>2, StubStep, PTL DEF Spec

-----------------------------------------------------------------------------
(* Descriptors, as long as the server closes nothing *)

LEMMA UnbrokenServer ==
    ASSUME Stub, Unbroken, Server
    PROVE  Unbroken'
  <1>1. ASSUME stops' = stops + 1 PROVE Unbroken'
    BY <1>1 DEF Stub, TypeOK, Unbroken
  <1>2. ASSUME NEW c \in Calls, ServerTake(c) PROVE Unbroken'
    BY <1>2 DEF ServerTake, stub, Unbroken
  <1>3. ASSUME NEW c \in Calls, NEW r \in Calls, HandleRpcRequest(c, r) PROVE Unbroken'
    BY <1>3 DEF HandleRpcRequest, stub, Unbroken
  <1>4. ServerStart => Unbroken'
    BY DEF ServerStart, stub, Unbroken
  <1> QED BY <1>1, <1>2, <1>3, <1>4 DEF Server, ServerCloses, ServerStop

LEMMA UnbrokenDisconnect ==
    ASSUME Stub, Unbroken, Disconnect
    PROVE  Unbroken'
  <1>1. tcp'.state = "NONE"
    BY DEF Disconnect, NoTcp
  <1>2. stops = 0 => fds' = {}
    BY DEF Disconnect, Released, Unbroken
  <1> QED BY <1>1, <1>2 DEF Disconnect, server, Unbroken

LEMMA UnbrokenConnect ==
    ASSUME Stub, Unbroken, NEW t \in Threads, ConnectOk(t) \/ ConnectFails(t)
    PROVE  Unbroken'
  <1>1. CASE ConnectOk(t)
    <2>1. tcp'.state = "CONNECTED" /\ tcp'.conn = cur[t]
      BY <1>1 DEF ConnectOk
    <2>2. stops = 0 => fds' = {cur[t]}
      BY <1>1 DEF ConnectOk, Released, Unbroken
    <2> QED BY <1>1, <2>1, <2>2 DEF ConnectOk, server, Unbroken
  <1>2. CASE ConnectFails(t)
    <2>1. tcp'.state = "DISCONNECTED"
      BY <1>2 DEF ConnectFails
    <2>2. stops = 0 => fds' = {}
      BY <1>2 DEF ConnectFails, Released, Unbroken
    <2> QED BY <1>2, <2>1, <2>2 DEF ConnectFails, server, Unbroken
  <1> QED BY <1>1, <1>2

(* A send or a receive that fails has met the server's end. *)
LEMMA UnbrokenFailure ==
    ASSUME Stub, Unbroken, NEW t \in Threads, SendBroken(t) \/ ReadEof(t)
    PROVE  Unbroken'
  <1>1. tcp.state = "CONNECTED" /\ fin[tcp.conn]
    BY ClientAssumption DEF SendBroken, ReadEof, Reading, Stub, Mutex, Receiving
  <1>2. tcp.conn \in Calls
    BY <1>1 DEF Stub, TypeOK, Client
  <1>3. stops # 0 /\ stops' = stops
    BY <1>1, <1>2 DEF Unbroken, SendBroken, ReadEof, server
  <1> QED BY <1>3 DEF Unbroken

LEMMA UnbrokenStep == Stub /\ Unbroken /\ [Next]_vars => Unbroken'
  <1> SUFFICES ASSUME Stub, Unbroken, [Next]_vars PROVE Unbroken'
    OBVIOUS
  <1>1. CASE UNCHANGED <<server, stub>>
    BY <1>1 DEF server, stub, Unbroken
  <1>2. ASSUME UNCHANGED stub, UNCHANGED <<serverUp, stops, fin>> PROVE Unbroken'
    BY <1>2 DEF stub, Unbroken
  <1>3. ASSUME NEW t \in Threads, Step(t) PROVE Unbroken'
    <2>1. \A len \in 0 .. BodyUnits + 1 : AcceptHeader(t, len) \/ RefuseHeader(t, len) => Unbroken'
      BY <1>1 DEF AcceptHeader, RefuseHeader
    <2>2. SendRequest(t) => Unbroken'
      BY <1>2 DEF SendRequest
    <2>3. Check(t) \/ ConnectAlready(t) \/ SendRefused(t) \/ Read(t) \/ ReadTimeout(t)
              \/ ReturnResponse(t) \/ ParseFails(t) => Unbroken'
      BY <1>1 DEF Check, ConnectAlready, SendRefused, Read, ReadTimeout, ReturnResponse, ParseFails
    <2> QED BY <1>3, <2>1, <2>2, <2>3, UnbrokenConnect, UnbrokenFailure DEF Step
  <1>4. \A t \in Threads : Call(t) => Unbroken'
    BY <1>1 DEF Call
  <1>5. UNCHANGED vars => Unbroken'
    BY <1>1 DEF vars
  <1> QED BY <1>3, <1>4, <1>5, UnbrokenServer, UnbrokenDisconnect DEF Next

(* As long as the server breaks no connection, every open descriptor is    *)
(* the one that disconnect() can close, whatever the threads do: connect() *)
(* repeats its test under the mutex, and replaces a TcpClientImpl only     *)
(* when that one has no open socket (rpc_client.cpp:120-154).              *)
THEOREM RpcClientNoDescriptorLost == Spec => []NoDescriptorLost
  <1>1. Init => Stub /\ Unbroken
    <2>1. Init => Stub
      BY TypesInit, OwnershipInit DEF Stub, Ownership
    <2>2. Init => Unbroken
      BY DEF Init, Unbroken, NoTcp
    <2> QED BY <2>1, <2>2
  <1>2. (Stub /\ Unbroken) /\ [Next]_vars => (Stub /\ Unbroken)'
    BY StubStep, UnbrokenStep
  <1>3. Stub /\ Unbroken => NoDescriptorLost
    BY DEF Unbroken, NoDescriptorLost, DescriptorsClosed
  <1> QED BY <1>1, <1>2, <1>3, PTL DEF Spec

-----------------------------------------------------------------------------
(* The connections, when the server answers in time *)

LEMMA Numbered ==
    ASSUME Stub, NEW t \in Threads, pc[t] # "idle"
    PROVE  cur[t] \in Calls /\ cur[t] \in 1..calls /\ ~(cur[t] > calls)
  <1>1. cur[t] \in 1..calls /\ cur[t] \in {0} \cup Calls /\ calls \in Nat
    BY DEF Stub, Numbers, TypeOK
  <1> QED BY <1>1 DEF Calls

LEMMA Holding ==
    ASSUME Stub, NEW t \in Threads, holder = t
    PROVE  /\ pc[t] \in Receiving /\ tcp.state = "CONNECTED"
           /\ tcp.conn \in Calls /\ tcp.conn \in fds
           /\ cur[t] \in Calls /\ cur[t] \in 1..calls
  <1>1. pc[t] \in Receiving /\ tcp.state = "CONNECTED"
    BY ClientAssumption DEF Stub, Mutex
  <1>2. tcp.conn \in fds /\ fds \in SUBSET Calls
    BY <1>1 DEF Stub, Client, TypeOK
  <1>3. pc[t] # "idle"
    BY <1>1 DEF Receiving
  <1> QED BY <1>1, <1>2, <1>3, Numbered

(* Nobody is to open the connection that is in use. *)
LEMMA OpenedBefore ==
    ASSUME Unopened, NEW c \in Calls, c \in fds
    PROVE  /\ ~(c > calls)
           /\ \A u \in Threads : pc[u] \in {"check", "connect"} => cur[u] # c
  BY DEF Unopened, Untouched

LEMMA ConversationInit == Init => Conversation
  <1> SUFFICES ASSUME Init PROVE Conversation
    OBVIOUS
  <1>1. Unopened
    BY DEF Init, Unopened, Untouched
  <1>2. Requests
    BY DEF Init, Requests, Unsent, Preparing
  <1>3. Up /\ NothingLeftOver
    BY DEF Init, Up, NothingLeftOver, NoTcp
  <1>4. \A t \in Threads : holder # t
    BY ClientAssumption DEF Init
  <1> QED BY <1>1, <1>2, <1>3, <1>4 DEF Conversation

LEMMA ConversationTake ==
    ASSUME Stub, Conversation, NEW c \in Calls, ServerTake(c)
    PROVE  Conversation'
  <1>1. up[c] # <<>>
    BY DEF ServerTake
  <1>2. ~fin[c] /\ c = tcp.conn /\ holder # Nobody
    BY <1>1 DEF Conversation, Up
  <1>3. PICK t \in Threads : holder = t
    BY <1>2 DEF Stub, TypeOK
  <1>4. /\ c \in fds /\ cur[t] \in Calls /\ cur[t] \in 1..calls /\ pc[t] \in Receiving
    BY <1>2, <1>3, Holding
  <1> DEFINE r == cur[t]
  <1>5. OnItsWay(c, r, ReadSoFar(t))
    BY <1>1, <1>2, <1>3 DEF Conversation, Exchange, Whereabouts, WithPool, Replied, Lost
  <1>6. ReadSoFar(t) = 0 /\ up[c] = <<r>> /\ pending[c] = {} /\ down[c] = <<>> /\ Unsent(r)
    BY <1>5 DEF OnItsWay
  <1>7. Head(up[c]) = r /\ Tail(up[c]) = <<>>
    BY <1>6
  <1>8. \A d \in Calls : /\ up'[d] = IF d = c THEN <<>> ELSE up[d]
                         /\ pending'[d] = IF d = c THEN {r} ELSE pending[d]
    BY <1>6, <1>7 DEF ServerTake, Stub, TypeOK
  <1>9. UNCHANGED <<down, fin, executed, tcp, fds, holder, pc, cur, got, need, calls>>
    BY DEF ServerTake, stub, reading, history
  <1>10. Unopened'
    <2>1. \A d \in Calls : d # c /\ Untouched(d) => Untouched(d)'
      BY <1>8, <1>9 DEF Untouched
    <2>2. ~(c > calls) /\ \A u \in Threads : pc[u] \in {"check", "connect"} => cur[u] # c
      BY <1>4, OpenedBefore DEF Conversation
    <2>3. \A u \in Threads : pc[u] \in {"check", "connect"} => cur[u] \in Calls
      BY DEF Stub, Numbers, TypeOK, Calls
    <2> QED BY <1>9, <2>1, <2>2, <2>3 DEF Conversation, Unopened
  <1>11. Requests'
    <2>1. \A q \in Calls : q # r /\ Unsent(q) => Unsent(q)'
      BY <1>8, <1>9 DEF Unsent
    <2>2. ~(r > calls)
      BY <1>4 DEF Calls, Stub, TypeOK
    <2>3. \A u \in Threads : Preparing(u) => cur[u] # r /\ cur[u] \in Calls
      <3> SUFFICES ASSUME NEW u \in Threads, Preparing(u) PROVE cur[u] # r /\ cur[u] \in Calls
        OBVIOUS
      <3>1. pc[u] # "idle" /\ u # t /\ pc[t] # "idle"
        BY <1>4 DEF Preparing, Receiving
      <3> QED BY <3>1, Numbered DEF Stub, Numbers
    <2>4. \A d \in Calls : \A q \in pending'[d] :
              executed'[q] = "no" /\ \A e \in Calls : q \in pending'[e] => e = d
      BY <1>6, <1>8, <1>9 DEF Conversation, Requests, Unsent
    <2> QED BY <1>9, <2>1, <2>2, <2>3, <2>4 DEF Conversation, Requests, Preparing
  <1>12. Up'
    BY <1>8, <1>9 DEF Conversation, Up
  <1>13. NothingLeftOver'
    BY <1>2, <1>9 DEF NothingLeftOver
  <1>14. ASSUME NEW u \in Threads, holder' = u PROVE Exchange(u)'
    <2>1. u = t
      BY <1>3, <1>9, <1>14
    <2>2. WithPool(c, r, 0)'
      BY <1>6, <1>8, <1>9 DEF WithPool
    <2>3. Whereabouts(tcp.conn, cur[t], ReadSoFar(t))'
      BY <1>2, <1>6, <1>9, <2>2 DEF Whereabouts, WithPool, ReadSoFar, Before
    <2> QED BY <1>3, <1>9, <2>1, <2>3 DEF Conversation, Exchange, Before
  <1> QED BY <1>10, <1>11, <1>12, <1>13, <1>14 DEF Conversation

(* The reply to r, nothing of it read. *)
LEMMA WholeReply == \A r \in Calls : Rest(Reply(r), r, 0)
  <1> SUFFICES ASSUME NEW r \in Calls PROVE Rest(Reply(r), r, 0)
    OBVIOUS
  <1>1. HeaderUnits + BodyUnits \in Nat
    BY ClientAssumption
  <1>2. Len(Reply(r)) = HeaderUnits + BodyUnits
    BY <1>1 DEF Reply
  <1>3. \A k \in 1 .. HeaderUnits + BodyUnits : Reply(r)[k] = <<r, 0 + k>>
    BY <1>1 DEF Reply
  <1>4. HeaderUnits + BodyUnits - 0 = HeaderUnits + BodyUnits
    BY ClientAssumption
  <1> QED BY <1>2, <1>3, <1>4 DEF Rest

LEMMA ConversationHandle ==
    ASSUME Stub, Conversation, NEW c \in Calls, NEW r \in Calls, HandleRpcRequest(c, r)
    PROVE  Conversation'
  <1>1. r \in pending[c] /\ executed[r] = "no" /\ \A d \in Calls : r \in pending[d] => d = c
    BY DEF HandleRpcRequest, Conversation, Requests
  <1>2. UNCHANGED <<up, fin, tcp, fds, holder, pc, cur, got, need, calls>>
    BY DEF HandleRpcRequest, stub, reading, history
  <1>3. /\ \A d \in Calls : pending'[d] = IF d = c THEN pending[c] \ {r} ELSE pending[d]
        /\ \A d \in Calls : d # c => down'[d] = down[d]
        /\ \A q \in Calls : q # r => executed'[q] = executed[q]
        /\ executed'[r] # "no"
    BY DEF HandleRpcRequest, Stub, TypeOK
  <1>4. Unopened'
    <2>1. \A d \in Calls : Untouched(d) => Untouched(d)'
      BY <1>1, <1>2, <1>3 DEF Untouched
    <2>2. \A u \in Threads : pc[u] \in {"check", "connect"} => cur[u] \in Calls
      BY Numbered
    <2> QED BY <1>2, <2>1, <2>2 DEF Conversation, Unopened
  <1>5. Requests'
    <2>1. \A q \in Calls : Unsent(q) => Unsent(q)'
      BY <1>1, <1>2, <1>3 DEF Unsent
    <2>2. \A u \in Threads : Preparing(u) => cur[u] \in Calls
      BY Numbered DEF Preparing
    <2>3. \A d \in Calls : \A q \in pending'[d] : q # r /\ q \in pending[d] /\ q \in Calls
      <3>1. \A d \in Calls : pending[d] \subseteq Calls
        BY DEF Stub, TypeOK
      <3> QED BY <1>1, <1>3, <3>1
    <2>4. \A d \in Calls : \A q \in pending'[d] :
              executed'[q] = "no" /\ \A e \in Calls : q \in pending'[e] => e = d
      BY <1>3, <2>3 DEF Conversation, Requests
    <2> QED BY <1>2, <2>1, <2>2, <2>4 DEF Conversation, Requests, Preparing
  <1>6. Up'
    BY <1>2 DEF Conversation, Up
  <1>7. NothingLeftOver'
    <2> SUFFICES ASSUME holder = Nobody, tcp.state = "CONNECTED"
                 PROVE  up[tcp.conn] = <<>> /\ pending'[tcp.conn] = {} /\ down'[tcp.conn] = <<>>
      BY <1>2 DEF NothingLeftOver
    <2>1. tcp.conn \in Calls /\ tcp.conn # c
      BY <1>1 DEF Stub, Client, TypeOK, Conversation, NothingLeftOver
    <2> QED BY <1>3, <2>1 DEF Conversation, NothingLeftOver
  <1>8. ASSUME NEW t \in Threads, holder' = t PROVE Exchange(t)'
    <2> DEFINE d == tcp.conn
               q == cur[t]
               n == ReadSoFar(t)
    <2>1. holder = t /\ d \in Calls /\ d \in fds /\ q \in Calls
      BY <1>2, <1>8, Holding
    <2>2. Whereabouts(d, q, n)
      BY <2>1 DEF Conversation, Exchange
    <2>3. UNCHANGED <<d, q, n>>
      BY <1>2 DEF ReadSoFar, Before
    <2> HIDE DEF d, q, n
    <2>4. Whereabouts(d, q, n)'
      <3>1. CASE d # c
        <4>1. pending'[d] = pending[d] /\ down'[d] = down[d] /\ up'[d] = up[d] /\ fin'[d] = fin[d]
          BY <1>2, <1>3, <2>1, <3>1
        <4>2. executed[q] # "no" => executed'[q] # "no"
          BY <1>3, <2>1
        <4>3. Unsent(q) => Unsent(q)'
          BY <1>1, <1>3, <2>1, <2>3 DEF Unsent
        <4> QED BY <2>2, <2>3, <4>1, <4>2, <4>3
                DEF Whereabouts, OnItsWay, WithPool, Replied, Lost
      <3>2. CASE d = c
        <4>1. /\ q = r /\ pending[c] = {r} /\ up[c] = <<>> /\ down[c] = <<>>
              /\ WithPool(c, r, n) \/ (fin[c] /\ executed[r] # "no") \/ (fin[c] /\ n = 0) \/ ~(n > 0)
          BY <1>1, <2>2, <3>2 DEF Whereabouts, OnItsWay, WithPool, Replied, Lost
        <4>2. pending'[c] = {} /\ up'[c] = <<>>
          BY <1>2, <1>3, <4>1
        <4>3. CASE fin[c]
          <5>1. down'[c] = <<>>
            BY <4>1, <4>3 DEF HandleRpcRequest
          <5> QED BY <1>2, <1>3, <2>3, <3>2, <4>1, <4>2, <4>3, <5>1 DEF Whereabouts, Lost
        <4>4. CASE ~fin[c]
          <5>1. n = 0
            BY <1>1, <2>2, <3>2, <4>4 DEF Whereabouts, OnItsWay, WithPool, Replied, Lost
          <5>2. down' = [down EXCEPT ![c] = down[c] \o Reply(r)]
            BY <2>1, <3>2, <4>4 DEF HandleRpcRequest
          <5>3. down'[c] = <<>> \o Reply(r)
            BY <4>1, <5>2 DEF Stub, TypeOK
          <5>4. <<>> \o Reply(r) = Reply(r)
            BY ReplyType, EmptySeq, ConcatProperties
          <5>5. Rest(down'[c], r, 0)
            BY <5>3, <5>4, WholeReply
          <5>6. Replied(c, r, 0)'
            BY <1>3, <4>2, <5>5 DEF Replied, Rest
          <5> QED BY <2>3, <3>2, <4>1, <5>1, <5>6 DEF Whereabouts, Replied
        <4> QED BY <4>3, <4>4
      <3> QED BY <3>1, <3>2
    <2>5. Exchange(t)
      BY <2>1 DEF Conversation
    <2> QED BY <1>2, <2>4, <2>5 DEF Exchange, Before, ReadSoFar, d, q, n
  <1> QED BY <1>4, <1>5, <1>6, <1>7, <1>8 DEF Conversation

LEMMA ConversationCloses ==
    ASSUME Stub, Conversation, NEW c \in Calls, ServerCloses(c)
    PROVE  Conversation'
  <1>1. c \in fds /\ ~fin[c]
    BY DEF ServerCloses
  <1>2. UNCHANGED <<pending, down, executed, tcp, fds, holder, pc, cur, got, need, calls>>
    BY DEF ServerCloses, stub, reading
  <1>3. \A d \in Calls : /\ up'[d] = IF d = c THEN <<>> ELSE up[d]
                         /\ fin'[d] = IF d = c THEN TRUE ELSE fin[d]
    BY DEF ServerCloses, Stub, TypeOK
  <1>4. Unopened'
    <2>1. \A d \in Calls : Untouched(d) => Untouched(d)'
      BY <1>1, <1>2, <1>3 DEF Untouched
    <2>2. \A u \in Threads : pc[u] \in {"check", "connect"} => cur[u] \in Calls
      BY Numbered
    <2> QED BY <1>2, <2>1, <2>2 DEF Conversation, Unopened
  <1>5. Requests'
    BY <1>2 DEF Conversation, Requests, Unsent, Preparing
  <1>6. Up'
    BY <1>2, <1>3 DEF Conversation, Up
  <1>7. NothingLeftOver'
    <2>1. tcp.state = "CONNECTED" => tcp.conn \in Calls
      BY DEF Stub, Client, TypeOK
    <2> QED BY <1>2, <1>3, <2>1 DEF Conversation, NothingLeftOver
  <1>8. ASSUME NEW t \in Threads, holder' = t PROVE Exchange(t)'
    <2>1. holder = t /\ tcp.conn \in Calls
      BY <1>2, <1>8, Holding
    <2>2. Exchange(t)
      BY <2>1 DEF Conversation
    <2> DEFINE d == tcp.conn
               q == cur[t]
               n == ReadSoFar(t)
    <2>3. UNCHANGED <<d, q, n>> /\ Whereabouts(d, q, n)
      BY <1>2, <2>2 DEF Exchange, ReadSoFar, Before
    <2>4. /\ up'[d] = up[d] \/ (up'[d] = <<>> /\ fin'[d])
          /\ up[d] = <<>> => up'[d] = <<>>
          /\ fin[d] => fin'[d]
      BY <1>3, <2>1
    <2> HIDE DEF d, q, n
    <2>5. Whereabouts(d, q, n)'
      BY <1>2, <2>3, <2>4 DEF Whereabouts, OnItsWay, WithPool, Replied, Lost, Rest, Unsent
    <2> QED BY <1>2, <2>2, <2>5 DEF Exchange, Before, ReadSoFar, d, q, n
  <1> QED BY <1>4, <1>5, <1>6, <1>7, <1>8 DEF Conversation

LEMMA ConversationStop ==
    ASSUME Stub, Conversation, ServerStop
    PROVE  Conversation'
  <1>1. UNCHANGED <<executed, tcp, fds, holder, pc, cur, got, need, calls>>
    BY DEF ServerStop, stub, reading
  <1>2. \A d \in Calls : /\ up'[d] = <<>> /\ pending'[d] = {}
                         /\ fin'[d] <=> fin[d] \/ d \in fds
    BY DEF ServerStop
  <1>3. down' = down \/ \A d \in Calls : down'[d] = <<>>
    BY DEF ServerStop
  <1>4. Unopened'
    <2>1. \A d \in Calls : Untouched(d) => Untouched(d)'
      BY <1>1, <1>2, <1>3 DEF Untouched
    <2>2. \A u \in Threads : pc[u] \in {"check", "connect"} => cur[u] \in Calls
      BY Numbered
    <2> QED BY <1>1, <2>1, <2>2 DEF Conversation, Unopened
  <1>5. Requests'
    <2>1. \A r \in Calls : Unsent(r) => Unsent(r)'
      BY <1>1, <1>2 DEF Unsent
    <2>2. \A u \in Threads : Preparing(u) => cur[u] \in Calls
      BY Numbered DEF Preparing
    <2> QED BY <1>1, <1>2, <2>1, <2>2 DEF Conversation, Requests, Preparing
  <1>6. Up'
    BY <1>2 DEF Up
  <1>7. NothingLeftOver'
    <2>1. tcp.state = "CONNECTED" => tcp.conn \in Calls
      BY DEF Stub, Client, TypeOK
    <2> QED BY <1>1, <1>2, <1>3, <2>1 DEF Conversation, NothingLeftOver
  <1>8. ASSUME NEW t \in Threads, holder' = t PROVE Exchange(t)'
    <2>1. holder = t /\ tcp.conn \in Calls /\ tcp.conn \in fds
      BY <1>1, <1>8, Holding
    <2>2. Exchange(t)
      BY <2>1 DEF Conversation
    <2> DEFINE d == tcp.conn
               q == cur[t]
               n == ReadSoFar(t)
    <2>3. UNCHANGED <<d, q, n>> /\ Whereabouts(d, q, n)
      BY <1>1, <2>2 DEF Exchange, ReadSoFar, Before
    <2>4. fin'[d] /\ up'[d] = <<>> /\ pending'[d] = {}
      BY <1>2, <2>1
    <2> HIDE DEF d, q, n
    <2>5. Whereabouts(d, q, n)'
      <3>1. CASE down[d] = <<>>
        <4>1. down'[d] = <<>>
          BY <1>3, <2>1, <3>1 DEF d
        <4>2. n > 0 => executed[q] # "no"
          BY <2>3 DEF Whereabouts, OnItsWay, WithPool, Replied, Lost
        <4> QED BY <1>1, <2>3, <2>4, <4>1, <4>2 DEF Whereabouts, Lost
      <3>2. CASE down[d] # <<>>
        <4>1. executed[q] # "no" /\ Rest(down[d], q, n)
          BY <2>3, <3>2 DEF Whereabouts, OnItsWay, WithPool, Replied, Lost
        <4>2. CASE down' = down
          BY <1>1, <2>3, <2>4, <4>1, <4>2 DEF Whereabouts, Replied, Rest
        <4>3. CASE \A e \in Calls : down'[e] = <<>>
          BY <1>1, <2>1, <2>3, <2>4, <4>1, <4>3 DEF Whereabouts, Lost, d
        <4> QED BY <1>3, <4>2, <4>3
      <3> QED BY <3>1, <3>2
    <2> QED BY <1>1, <2>2, <2>5 DEF Exchange, Before, ReadSoFar, d, q, n
  <1> QED BY <1>4, <1>5, <1>6, <1>7, <1>8 DEF Conversation

(* Nothing that the conversation is about has changed. *)
LEMMA ConversationAlone ==
    ASSUME Conversation,
           UNCHANGED <<up, pending, down, fin, executed, tcp, fds, holder, pc, cur, got, need, calls>>
    PROVE  Conversation'
  BY DEF Conversation, Unopened, Untouched, Requests, Unsent, Preparing, Up, NothingLeftOver,
         Exchange, Whereabouts, OnItsWay, WithPool, Replied, Lost, Rest, ReadSoFar, Before

(* While nobody holds the mutex, it is enough that nobody takes it.        *)
LEMMA ConversationIdle ==
    ASSUME Stub, Conversation, holder = Nobody, holder' = Nobody,
           UNCHANGED <<up, pending, down, fin, executed>>,
           Unopened', Requests', NothingLeftOver'
    PROVE  Conversation'
  <1>1. \A c \in Calls : up[c] = <<>>
    BY DEF Conversation, Up
  <1>2. Up'
    BY <1>1 DEF Up
  <1>3. \A t \in Threads : holder' # t
    BY ClientAssumption
  <1> QED BY <1>2, <1>3 DEF Conversation

(* A thread leaves the preparation of its call, or returns. *)
LEMMA UnopenedLess ==
    ASSUME Unopened, UNCHANGED <<up, pending, down, fin, cur, calls>>, fds' \subseteq fds,
           \A u \in Threads : pc'[u] \in {"check", "connect"} => pc[u] \in {"check", "connect"}
    PROVE  Unopened'
  BY DEF Unopened, Untouched

LEMMA RequestsLess ==
    ASSUME Requests, UNCHANGED <<pending, executed, cur, calls>>,
           \A u \in Threads : Preparing(u)' => Preparing(u)
    PROVE  Requests'
  BY DEF Requests, Unsent

LEMMA Goes ==
    ASSUME Stub, NEW t \in Threads, NEW label, Goto(t, label)
    PROVE  \A u \in Threads : pc'[u] = IF u = t THEN label ELSE pc[u]
  BY DEF Stub, TypeOK, Goto

LEMMA ConversationDisconnect ==
    ASSUME Stub, Conversation, Disconnect
    PROVE  Conversation'
  <1>1. UNCHANGED <<up, pending, down, fin, executed, cur, calls, pc>>
    BY DEF Disconnect, server, reading
  <1>2. fds' \subseteq fds /\ tcp'.state = "NONE" /\ holder = Nobody /\ holder' = Nobody
    BY DEF Disconnect, Released, NoTcp
  <1>3. Unopened'
    BY <1>1, <1>2, UnopenedLess DEF Conversation
  <1>4. Requests'
    BY <1>1, RequestsLess DEF Conversation, Preparing
  <1>5. NothingLeftOver'
    BY <1>2 DEF NothingLeftOver
  <1> QED BY <1>1, <1>2, <1>3, <1>4, <1>5, ConversationIdle

LEMMA ConversationCall ==
    ASSUME Stub, Conversation, NEW t \in Threads, Call(t)
    PROVE  Conversation'
  <1>1. calls \in Nat /\ calls + 1 \in Calls /\ calls' = calls + 1 /\ calls + 1 > calls
    BY ClientAssumption DEF Call, Stub, TypeOK, Calls
  <1>2. \A u \in Threads : /\ pc'[u] = IF u = t THEN "check" ELSE pc[u]
                           /\ cur'[u] = IF u = t THEN calls + 1 ELSE cur[u]
    BY DEF Call, Stub, TypeOK, Goto
  <1>3. UNCHANGED <<up, pending, down, fin, executed, tcp, fds, holder, got, need>>
    BY DEF Call, server, stub, reading
  <1>4. \A c \in Calls : c > calls' => c > calls
    BY <1>1 DEF Calls
  <1>5. Unopened'
    <2>1. \A c : Untouched(c) => Untouched(c)'
      BY <1>3 DEF Untouched
    <2>2. \A c \in Calls : c > calls' => Untouched(c)
      BY <1>4 DEF Conversation, Unopened
    <2>3. \A u \in Threads : pc'[u] \in {"check", "connect"} => Untouched(cur'[u])
      BY <1>1, <1>2 DEF Conversation, Unopened
    <2> QED BY <1>3, <2>1, <2>2, <2>3 DEF Unopened, Untouched
  <1>6. Requests'
    BY <1>1, <1>2, <1>3, <1>4 DEF Conversation, Requests, Unsent, Preparing
  <1>7. Up' /\ NothingLeftOver'
    BY <1>3 DEF Conversation, Up, NothingLeftOver
  <1>8. ASSUME NEW u \in Threads, holder' = u PROVE Exchange(u)'
    <2>1. holder = u /\ pc[u] \in Receiving /\ u # t
      BY <1>3, <1>8, Holding DEF Call, Receiving
    <2>2. pc'[u] = pc[u] /\ cur'[u] = cur[u] /\ Exchange(u)
      BY <1>2, <2>1 DEF Conversation
    <2> QED BY <1>3, <2>2 DEF Exchange, Whereabouts, OnItsWay, WithPool, Replied, Lost, Rest,
                             Unsent, ReadSoFar, Before
  <1> QED BY <1>5, <1>6, <1>7, <1>8 DEF Conversation

(* callMethod, before it takes the mutex *)
LEMMA ConversationPrepare ==
    ASSUME Stub, Conversation, NEW t \in Threads, Check(t) \/ ConnectAlready(t)
    PROVE  Conversation'
  <1>1. /\ pc[t] \in {"check", "connect"}
        /\ UNCHANGED <<up, pending, down, fin, executed, tcp, fds, holder, cur, got, need, calls>>
    BY DEF Check, ConnectAlready, server, stub, reading, history
  <1>2. PICK label \in {"send", "connect"} : Goto(t, label)
    BY DEF Check, ConnectAlready
  <1>3. \A u \in Threads : pc'[u] = IF u = t THEN label ELSE pc[u]
    BY <1>2, Goes
  <1>4. Unopened' /\ Requests'
    BY <1>1, <1>3, UnopenedLess, RequestsLess DEF Conversation, Preparing
  <1>5. Up' /\ NothingLeftOver'
    BY <1>1 DEF Conversation, Up, NothingLeftOver
  <1>6. ASSUME NEW u \in Threads, holder' = u PROVE Exchange(u)'
    <2>1. holder = u /\ pc[u] \in Receiving /\ u # t
      BY <1>1, <1>6, Holding DEF Receiving
    <2>2. pc'[u] = pc[u] /\ Exchange(u)
      BY <1>3, <2>1 DEF Conversation
    <2> QED BY <1>1, <2>2 DEF Exchange, Whereabouts, OnItsWay, WithPool, Replied, Lost, Rest,
                             Unsent, ReadSoFar, Before
  <1> QED BY <1>4, <1>5, <1>6 DEF Conversation

LEMMA ConversationConnect ==
    ASSUME Stub, Conversation, NEW t \in Threads, ConnectOk(t)
    PROVE  Conversation'
  <1>1. /\ pc[t] = "connect" /\ holder = Nobody /\ holder' = Nobody
        /\ tcp' = [conn |-> cur[t], state |-> "CONNECTED"]
        /\ fds' \subseteq fds \cup {cur[t]}
        /\ UNCHANGED <<up, pending, down, fin, executed, cur, calls>>
    BY DEF ConnectOk, server, reading, history, Released
  <1>2. \A u \in Threads : pc'[u] = IF u = t THEN "send" ELSE pc[u]
    BY Goes DEF ConnectOk
  <1>3. cur[t] \in Calls /\ ~(cur[t] > calls)
    BY <1>1, Numbered
  <1>4. Unopened'
    <2>1. \A c \in Calls : c # cur[t] /\ Untouched(c) => Untouched(c)'
      BY <1>1 DEF Untouched
    <2>2. ASSUME NEW u \in Threads, pc'[u] \in {"check", "connect"} PROVE Untouched(cur[u])'
      <3>1. u # t /\ pc[u] \in {"check", "connect"}
        BY <1>2, <2>2
      <3>2. cur[u] \in Calls /\ cur[u] # cur[t]
        BY <1>1, <3>1, Numbered DEF Stub, Numbers
      <3> QED BY <1>1, <2>1, <3>1, <3>2 DEF Conversation, Unopened, Untouched
    <2> QED BY <1>1, <1>3, <2>1, <2>2 DEF Conversation, Unopened
  <1>5. Requests'
    BY <1>1, <1>2, RequestsLess DEF Conversation, Preparing
  <1>6. NothingLeftOver'
    <2>1. Untouched(cur[t])
      BY <1>1 DEF Conversation, Unopened
    <2>2. tcp'.conn = cur[t]
      BY <1>1
    <2> QED BY <1>1, <2>1, <2>2 DEF NothingLeftOver, Untouched
  <1> QED BY <1>1, <1>4, <1>5, <1>6, ConversationIdle

(* A call that fails before it has the mutex *)
LEMMA ConversationRefused ==
    ASSUME Stub, Conversation, NEW t \in Threads,
           ConnectFails(t) \/ SendRefused(t) \/ SendBroken(t)
    PROVE  Conversation'
  <1>1. /\ holder = Nobody /\ holder' = Nobody /\ fds' \subseteq fds /\ tcp'.state # "CONNECTED"
        /\ UNCHANGED <<up, pending, down, fin, executed, cur, calls>>
    BY DEF ConnectFails, SendRefused, SendBroken, ReturnFalse, server, stub, reading, Released,
           Stub, TypeOK
  <1>2. \A u \in Threads : pc'[u] = IF u = t THEN "idle" ELSE pc[u]
    BY Goes DEF ConnectFails, SendRefused, SendBroken, ReturnFalse
  <1>3. Unopened' /\ Requests'
    BY <1>1, <1>2, UnopenedLess, RequestsLess DEF Conversation, Preparing
  <1>4. NothingLeftOver'
    BY <1>1 DEF NothingLeftOver
  <1> QED BY <1>1, <1>3, <1>4, ConversationIdle

LEMMA ConversationSend ==
    ASSUME Stub, Conversation, NEW t \in Threads, SendRequest(t)
    PROVE  Conversation'
  <1> DEFINE c == tcp.conn
             r == cur[t]
  <1>1. /\ pc[t] = "send" /\ holder = Nobody /\ holder' = t /\ c \in Calls /\ c \in fds
        /\ UNCHANGED <<pending, down, fin, executed, tcp, fds, cur, calls>>
    BY DEF SendRequest, stub, history, Stub, Client, TypeOK
  <1>2. \A u \in Threads : pc'[u] = IF u = t THEN "header" ELSE pc[u]
    BY Goes DEF SendRequest
  <1>3. up[c] = <<>> /\ pending[c] = {} /\ down[c] = <<>>
    BY <1>1 DEF Conversation, NothingLeftOver, SendRequest
  <1>4. \A d \in Calls : up[d] = <<>>
    BY <1>1 DEF Conversation, Up
  <1>5. got'[t] = <<>> /\ need'[t] = HeaderUnits
    BY DEF SendRequest, Stub, TypeOK
  <1>6. (fin[c] /\ up' = up) \/ (~fin[c] /\ up' = [up EXCEPT ![c] = <<r>>])
    <2>1. Append(up[c], r) = <<r>>
      BY <1>3
    <2>2. up' = IF fin[c] THEN up ELSE [up EXCEPT ![c] = Append(up[c], r)]
      BY DEF SendRequest
    <2> QED BY <2>1, <2>2
  <1>7. \A d \in Calls : up'[d] = IF d = c /\ ~fin[c] THEN <<r>> ELSE <<>>
    BY <1>1, <1>4, <1>6 DEF Stub, TypeOK
  <1>8. Unsent(r)
    BY <1>1 DEF Conversation, Requests, Preparing
  <1>9. Unopened'
    <2>1. \A d \in Calls : d # c /\ Untouched(d) => Untouched(d)'
      BY <1>1, <1>7 DEF Untouched
    <2>2. ~(c > calls) /\ \A u \in Threads : pc[u] \in {"check", "connect"} => cur[u] # c
      BY <1>1, OpenedBefore DEF Conversation
    <2>3. \A u \in Threads : pc[u] \in {"check", "connect"} => cur[u] \in Calls
      BY Numbered
    <2> QED BY <1>1, <1>2, <2>1, <2>2, <2>3 DEF Conversation, Unopened
  <1>10. Requests'
    BY <1>1, <1>2, RequestsLess DEF Conversation, Preparing
  <1>11. Up'
    BY <1>1, <1>7, ClientAssumption DEF Up
  <1>12. NothingLeftOver'
    BY <1>1, ClientAssumption DEF NothingLeftOver
  <1>13. ASSUME NEW u \in Threads, holder' = u PROVE Exchange(u)'
    <2>1. u = t
      BY <1>1, <1>13
    <2>2. ReadSoFar(t)' = 0 /\ pc'[t] = "header"
      BY <1>2, <1>5 DEF ReadSoFar, Before
    <2>3. Whereabouts(c, r, 0)'
      <3>1. CASE fin[c]
        BY <1>1, <1>3, <1>7, <3>1 DEF Whereabouts, Lost
      <3>2. CASE ~fin[c]
        BY <1>1, <1>3, <1>7, <1>8, <3>2 DEF Whereabouts, OnItsWay, Unsent
      <3> QED BY <3>1, <3>2
    <2>4. Whereabouts(c, r, ReadSoFar(t))'
      BY <2>2, <2>3 DEF Whereabouts, OnItsWay, WithPool, Replied, Lost
    <2> QED BY <1>5, <2>1, <2>2, <2>4 DEF Exchange
  <1> QED BY <1>9, <1>10, <1>11, <1>12, <1>13 DEF Conversation

LEMMA ConversationRead ==
    ASSUME Stub, Conversation, NEW t \in Threads, Read(t)
    PROVE  Conversation'
  <1> DEFINE c == tcp.conn
             r == cur[t]
             n == ReadSoFar(t)
             units == down[c]
  <1>1. holder = t
    BY DEF Read, Reading, Stub, Mutex, Receiving
  <1>2. c \in Calls /\ c \in fds /\ r \in Calls
    BY <1>1, Holding
  <1>3. UNCHANGED <<up, pending, fin, executed, tcp, fds, holder, pc, cur, need, calls>>
    BY DEF Read, server, stub, history
  <1>4. units \in Seq(Unit) /\ units # <<>> /\ got[t] \in Seq(Unit)
    BY <1>2 DEF Read, Stub, TypeOK
  <1>5. /\ \A d \in Calls : down'[d] = IF d = c THEN Tail(units) ELSE down[d]
        /\ got'[t] = Append(got[t], Head(units))
    BY <1>2 DEF Read, Stub, TypeOK
  <1>6. Exchange(t)
    BY <1>1 DEF Conversation
  <1>7. Replied(c, r, n)
    BY <1>4, <1>6 DEF Exchange, Whereabouts, OnItsWay, WithPool, Lost
  <1>8. /\ Len(units) = HeaderUnits + BodyUnits - n
        /\ \A k \in 1..Len(units) : units[k] = <<r, n + k>>
    BY <1>7 DEF Replied, Rest
  <1>9. n \in Nat /\ n = Before(t) + Len(got[t]) /\ Before(t) \in Nat /\ Len(got[t]) \in Nat
    <2>1. Len(got[t]) \in Nat
      BY <1>4, LenProperties
    <2>2. Before(t) \in Nat
      BY ClientAssumption DEF Before
    <2>3. n = Before(t) + Len(got[t])
      BY DEF ReadSoFar
    <2> QED BY <2>1, <2>2, <2>3
  <1>10. Head(units) = <<r, n + 1>>
    <2>1. Head(units) = units[1] /\ 1 \in 1..Len(units)
      BY <1>4, HeadTailProperties, EmptySeq
    <2> QED BY <1>8, <2>1
  <1>11. ReadSoFar(t)' = n + 1
    <2>1. Len(got'[t]) = Len(got[t]) + 1
      <3>1. Head(units) \in Unit
        BY <1>4, HeadTailProperties
      <3> QED BY <1>4, <1>5, <3>1, AppendProperties
    <2>2. Before(t)' = Before(t)
      BY <1>3 DEF Before
    <2> QED BY <1>9, <2>1, <2>2 DEF ReadSoFar
  <1>12. Rest(Tail(units), r, n + 1)
    <2>1. Len(Tail(units)) = Len(units) - 1 /\ Len(units) \in Nat
      BY <1>4, HeadTailProperties, LenProperties
    <2>2. Len(Tail(units)) = HeaderUnits + BodyUnits - (n + 1)
      BY SMTT(30), <1>8, <1>9, <2>1, ClientAssumption
    <2>3. ASSUME NEW k \in 1..Len(Tail(units)) PROVE Tail(units)[k] = <<r, n + 1 + k>>
      <3>1. Tail(units)[k] = units[k + 1]
        BY <1>4, <2>1, HeadTailProperties
      <3>2. k + 1 \in 1..Len(units) /\ n + (k + 1) = n + 1 + k
        <4> HIDE DEF n, units
        <4>1. n \in Nat /\ k \in Nat
          BY <1>9, <2>1
        <4> QED BY <2>1, <4>1
      <3> QED BY <1>8, <3>1, <3>2
    <2> QED BY <2>2, <2>3 DEF Rest
  <1> HIDE DEF c, r, n, units
  <1>13. Unopened'
    <2>1. \A d \in Calls : d # c /\ Untouched(d) => Untouched(d)'
      BY <1>3, <1>5 DEF Untouched
    <2>2. ~(c > calls) /\ \A u \in Threads : pc[u] \in {"check", "connect"} => cur[u] # c
      BY <1>2, OpenedBefore DEF Conversation
    <2>3. \A u \in Threads : pc[u] \in {"check", "connect"} => cur[u] \in Calls
      BY Numbered
    <2> QED BY <1>3, <2>1, <2>2, <2>3 DEF Conversation, Unopened
  <1>14. Requests'
    BY <1>3 DEF Conversation, Requests, Unsent, Preparing
  <1>15. Up'
    BY <1>3 DEF Conversation, Up
  <1>16. NothingLeftOver'
    BY <1>1, <1>3, ClientAssumption DEF NothingLeftOver
  <1>17. ASSUME NEW u \in Threads, holder' = u PROVE Exchange(u)'
    <2>1. u = t
      BY <1>1, <1>3, <1>17
    <2>2. Whereabouts(tcp.conn, cur[t], ReadSoFar(t))'
      BY <1>2, <1>3, <1>5, <1>7, <1>11, <1>12 DEF Whereabouts, Replied, Rest, c, r
    <2>3. \A k \in 1..Len(got'[t]) : got'[t][k] = <<cur[t], Before(t) + k>>
      <3> SUFFICES ASSUME NEW k \in 1..Len(got'[t]) PROVE got'[t][k] = <<cur[t], Before(t) + k>>
        OBVIOUS
      <3>1. Head(units) \in Unit
        BY <1>4, HeadTailProperties
      <3>2. /\ Len(got'[t]) = Len(got[t]) + 1
            /\ got'[t][Len(got[t]) + 1] = Head(units)
            /\ \A i \in 1..Len(got[t]) : got'[t][i] = got[t][i]
        BY <1>4, <1>5, <3>1, AppendProperties
      <3>3. k \in 1..Len(got[t]) \/ k = Len(got[t]) + 1
        BY <1>9, <3>2
      <3>4. CASE k \in 1..Len(got[t])
        BY <1>6, <3>2, <3>4 DEF Exchange
      <3>5. CASE k = Len(got[t]) + 1
        <4>1. n + 1 = Before(t) + k
          BY <1>9, <3>5
        <4> QED BY <1>10, <3>2, <3>5, <4>1 DEF r
      <3> QED BY <3>3, <3>4, <3>5
    <2> QED BY <1>3, <1>6, <2>1, <2>2, <2>3 DEF Exchange, Before
  <1> QED BY <1>13, <1>14, <1>15, <1>16, <1>17 DEF Conversation

(* The holder returns, and nothing is on its way to the server. *)
LEMMA ConversationReleased ==
    ASSUME Stub, Conversation, NEW t \in Threads, holder = t, up[tcp.conn] = <<>>,
           Goto(t, "idle"), holder' = Nobody,
           UNCHANGED <<up, pending, down, fin, executed, fds, cur, calls>>,
           NothingLeftOver'
    PROVE  Conversation'
  <1>1. \A u \in Threads : pc'[u] = IF u = t THEN "idle" ELSE pc[u]
    BY Goes
  <1>2. Unopened' /\ Requests'
    BY <1>1, UnopenedLess, RequestsLess DEF Conversation, Preparing
  <1>3. \A c \in Calls : up[c] = <<>>
    BY DEF Conversation, Up
  <1>4. Up'
    BY <1>3 DEF Up
  <1>5. \A u \in Threads : holder' # u
    BY ClientAssumption
  <1> QED BY <1>2, <1>4, <1>5 DEF Conversation

LEMMA ConversationEof ==
    ASSUME Stub, Conversation, NEW t \in Threads, ReadEof(t)
    PROVE  Conversation'
  <1>1. holder = t
    BY DEF ReadEof, Reading, Stub, Mutex, Receiving
  <1>2. tcp.conn \in Calls /\ fin[tcp.conn]
    BY <1>1, Holding DEF ReadEof
  <1>3. up[tcp.conn] = <<>>
    BY <1>2 DEF Conversation, Up
  <1>4. NothingLeftOver'
    BY DEF ReadEof, NothingLeftOver, Stub, TypeOK
  <1> QED BY <1>1, <1>3, <1>4, ConversationReleased DEF ReadEof, ReturnFalse, server

(* What is read where a prefix is expected is one, and says the length of  *)
(* the message that follows.                                               *)
LEMMA HeaderIsPrefix ==
    ASSUME Stub, Conversation, NEW t \in Threads, HeaderComplete(t), NEW len, Announces(t, len)
    PROVE  holder = t /\ len = BodyUnits /\ ValidLength(len)
  <1>1. holder = t /\ pc[t] = "header"
    BY DEF HeaderComplete, Stub, Mutex, Receiving
  <1>2. \A k \in 1..Len(got[t]) : got[t][k] = <<cur[t], 0 + k>>
    BY <1>1 DEF Conversation, Exchange, Before
  <1>3. Len(got[t]) = HeaderUnits /\ HeaderUnits \in Nat \ {0}
    BY ClientAssumption DEF HeaderComplete
  <1>4. got[t][1][1] = cur[t]
    BY <1>2, <1>3
  <1>5. IsPiece(got[t], 1)
    <2> SUFFICES ASSUME NEW k \in 1..Len(got[t]) PROVE got[t][k] = <<got[t][1][1], 1 + k - 1>>
      BY DEF IsPiece
    <2>1. 0 + k = 1 + k - 1
      OBVIOUS
    <2> QED BY <1>2, <1>4, <2>1
  <1>6. len = BodyUnits
    BY <1>5 DEF Announces
  <1> QED BY <1>1, <1>6, ClientAssumption DEF ValidLength

LEMMA ConversationHeader ==
    ASSUME Stub, Conversation, NEW t \in Threads, NEW len, AcceptHeader(t, len)
    PROVE  Conversation'
  <1>1. holder = t /\ len = BodyUnits /\ pc[t] = "header" /\ Len(got[t]) = HeaderUnits
    BY HeaderIsPrefix DEF AcceptHeader, HeaderComplete
  <1>2. UNCHANGED <<up, pending, down, fin, executed, tcp, fds, holder, cur, calls>>
    BY DEF AcceptHeader, server, stub, history
  <1>3. \A u \in Threads : pc'[u] = IF u = t THEN "body" ELSE pc[u]
    BY Goes DEF AcceptHeader
  <1>4. got'[t] = <<>> /\ need'[t] = BodyUnits
    BY <1>1 DEF AcceptHeader, Stub, TypeOK
  <1>5. Unopened' /\ Requests'
    BY <1>2, <1>3, UnopenedLess, RequestsLess DEF Conversation, Preparing
  <1>6. Up' /\ NothingLeftOver'
    BY <1>2 DEF Conversation, Up, NothingLeftOver
  <1>7. ASSUME NEW u \in Threads, holder' = u PROVE Exchange(u)'
    <2>1. u = t
      BY <1>1, <1>2, <1>7
    <2>2. ReadSoFar(t)' = ReadSoFar(t)
      <3>1. ReadSoFar(t) = 0 + HeaderUnits
        BY <1>1 DEF ReadSoFar, Before
      <3>2. ReadSoFar(t)' = HeaderUnits + 0
        BY <1>3, <1>4 DEF ReadSoFar, Before
      <3> QED BY <3>1, <3>2, ClientAssumption
    <2>3. Whereabouts(tcp.conn, cur[t], ReadSoFar(t))'
      BY <1>1, <1>2, <2>2 DEF Conversation, Exchange, Whereabouts, OnItsWay, WithPool, Replied,
                              Lost, Rest, Unsent
    <2> QED BY <1>3, <1>4, <2>1, <2>3 DEF Exchange
  <1> QED BY <1>5, <1>6, <1>7 DEF Conversation

(* When the message is complete, it is the response to the thread's own    *)
(* request, and nothing is left behind it.                                 *)
LEMMA BodyIsResponse ==
    ASSUME Stub, Conversation, NEW t \in Threads, BodyComplete(t)
    PROVE  /\ holder = t /\ WholeBody(t) /\ got[t][1][1] = cur[t] /\ executed[cur[t]] # "no"
           /\ up[tcp.conn] = <<>> /\ pending[tcp.conn] = {} /\ down[tcp.conn] = <<>>
  <1> DEFINE c == tcp.conn
             r == cur[t]
             n == ReadSoFar(t)
  <1>1. holder = t /\ pc[t] = "body"
    BY DEF BodyComplete, Stub, Mutex, Receiving
  <1>2. c \in Calls /\ r \in Calls
    BY <1>1, Holding
  <1>3. /\ need[t] = BodyUnits
        /\ \A k \in 1..Len(got[t]) : got[t][k] = <<r, HeaderUnits + k>>
        /\ Whereabouts(c, r, n)
    BY <1>1 DEF Conversation, Exchange, Before
  <1>4. Len(got[t]) = BodyUnits
    BY <1>3 DEF BodyComplete
  <1>5. n = HeaderUnits + BodyUnits /\ n > 0 /\ n # 0
    <2>1. n = HeaderUnits + BodyUnits
      BY <1>1, <1>4 DEF ReadSoFar, Before
    <2> QED BY <2>1, ClientAssumption
  <1>6. got[t][1] = <<r, HeaderUnits + 1>>
    BY <1>3, <1>4, ClientAssumption
  <1>7. WholeBody(t)
    <2> SUFFICES ASSUME NEW k \in 1..Len(got[t])
                 PROVE  got[t][k] = <<got[t][1][1], HeaderUnits + 1 + k - 1>>
      BY <1>3 DEF WholeBody, IsPiece
    <2>1. HeaderUnits + k = HeaderUnits + 1 + k - 1
      BY ClientAssumption
    <2> QED BY <1>3, <1>6, <2>1
  <1> HIDE DEF c, r, n
  <1>8. CASE Replied(c, r, n)
    <2>1. Len(down[c]) = 0
      <3>1. Len(down[c]) = HeaderUnits + BodyUnits - n
        BY <1>8 DEF Replied, Rest
      <3> QED BY <1>5, <3>1, ClientAssumption
    <2>2. down[c] = <<>>
      BY <1>2, <2>1, EmptySeq DEF Stub, TypeOK
    <2> QED BY <1>1, <1>6, <1>7, <1>8, <2>2 DEF Replied, c, r
  <1>9. CASE Lost(c, r, n)
    <2>1. executed[r] # "no" /\ pending[c] \subseteq {r}
      BY <1>5, <1>9 DEF Lost
    <2>2. pending[c] = {}
      BY <1>2, <2>1 DEF Conversation, Requests
    <2> QED BY <1>1, <1>6, <1>7, <1>9, <2>1, <2>2 DEF Lost, c, r
  <1> QED BY <1>3, <1>5, <1>8, <1>9 DEF Whereabouts, OnItsWay, WithPool

LEMMA ConversationReturn ==
    ASSUME Stub, Conversation, NEW t \in Threads, ReturnResponse(t)
    PROVE  Conversation'
  <1>1. /\ holder = t
        /\ up[tcp.conn] = <<>> /\ pending[tcp.conn] = {} /\ down[tcp.conn] = <<>>
    BY BodyIsResponse DEF ReturnResponse
  <1>2. NothingLeftOver'
    BY <1>1 DEF ReturnResponse, server, stub, NothingLeftOver
  <1> QED BY <1>1, <1>2, ConversationReleased DEF ReturnResponse, server, stub

LEMMA ConversationStep == ~MayTimeout /\ Stub /\ Conversation /\ [Next]_vars => Conversation'
  <1> SUFFICES ASSUME ~MayTimeout, Stub, Conversation, [Next]_vars PROVE Conversation'
    OBVIOUS
  <1>1. CASE Server
    <2>1. ServerStart => Conversation'
      BY ConversationAlone DEF ServerStart, stub, reading, history
    <2> QED BY <1>1, <2>1, ConversationTake, ConversationHandle, ConversationCloses,
               ConversationStop DEF Server
  <1>2. ASSUME NEW t \in Threads, Step(t) PROVE Conversation'
    <2>1. ~ReadTimeout(t)
      BY DEF ReadTimeout
    <2>2. \A len : ~RefuseHeader(t, len)
      BY HeaderIsPrefix DEF RefuseHeader
    <2>3. ~ParseFails(t)
      BY BodyIsResponse DEF ParseFails
    <2> QED BY <1>2, <2>1, <2>2, <2>3, ConversationPrepare, ConversationConnect,
               ConversationRefused, ConversationSend, ConversationRead, ConversationEof,
               ConversationHeader, ConversationReturn DEF Step
  <1>3. UNCHANGED vars => Conversation'
    BY ConversationAlone DEF vars, server, stub, reading, history
  <1> QED BY <1>1, <1>2, <1>3, ConversationDisconnect, ConversationCall DEF Next

LEMMA IInvInit == Init => IInv
  <1>1. Init => Stub
    BY TypesInit, OwnershipInit DEF Stub, Ownership
  <1>2. Init => Unbroken
    BY DEF Init, Unbroken, NoTcp
  <1> QED BY <1>1, <1>2, ConversationInit DEF IInv

LEMMA IInvStep == ~MayTimeout /\ IInv /\ [Next]_vars => IInv'
  BY StubStep, UnbrokenStep, ConversationStep DEF IInv

(* When a thread is about to send its request, nothing of an earlier call  *)
(* is left on the connection: neither a request, nor a reply, nor a part   *)
(* of one (rpc_client.cpp:163-187).  For a server that answers within the  *)
(* time the client waits; a timeout is what breaks it.                     *)
THEOREM RpcClientNothingLeftOver == ~MayTimeout => (Spec => []NothingLeftOver)
  <1> SUFFICES ASSUME ~MayTimeout PROVE Spec => []NothingLeftOver
    OBVIOUS
  <1>1. IInv /\ [Next]_vars => IInv'
    BY IInvStep
  <1>2. IInv => NothingLeftOver
    BY DEF IInv, Conversation
  <1> QED BY <1>1, <1>2, IInvInit, PTL DEF Spec

-----------------------------------------------------------------------------
(* A remote call *)

(* Only this makes a call return true, or gives it an answer.              *)
LEMMA Answers ==
    ASSUME IInv, NEW t \in Threads, ReturnResponse(t)
    PROVE  /\ cur[t] \in Calls /\ outcome[cur[t]] = "running" /\ executed[cur[t]] # "no"
           /\ outcome' = [outcome EXCEPT ![cur[t]] = "true"]
           /\ answer' = [answer EXCEPT ![cur[t]] = cur[t]]
           /\ UNCHANGED executed
  <1>1. BodyComplete(t) /\ pc[t] # "idle"
    BY DEF ReturnResponse, BodyComplete
  <1>2. WholeBody(t) /\ got[t][1][1] = cur[t] /\ executed[cur[t]] # "no"
    BY <1>1, BodyIsResponse DEF IInv
  <1>3. cur[t] \in Calls /\ outcome[cur[t]] = "running"
    BY <1>1, Numbered DEF IInv, Stub, Numbers, Running
  <1> QED BY <1>2, <1>3 DEF ReturnResponse, server

LEMMA Fails ==
    ASSUME IInv, NEW t \in Threads,
           ConnectFails(t) \/ SendRefused(t) \/ SendBroken(t) \/ ReadEof(t) \/ ReadTimeout(t)
    PROVE  /\ cur[t] \in Calls /\ outcome[cur[t]] = "running"
           /\ outcome' = [outcome EXCEPT ![cur[t]] = "false"]
           /\ UNCHANGED <<answer, executed>>
  <1>1. pc[t] # "idle"
    BY DEF ConnectFails, SendRefused, SendBroken, ReadEof, ReadTimeout, Reading
  <1>2. cur[t] \in Calls /\ outcome[cur[t]] = "running"
    BY <1>1, Numbered DEF IInv, Stub, Numbers, Running
  <1> QED BY <1>2 DEF ConnectFails, SendRefused, SendBroken, ReadEof, ReadTimeout, ReturnFalse,
                      server

LEMMA Executes ==
    ASSUME IInv, NEW c \in Calls, NEW r \in Calls, HandleRpcRequest(c, r)
    PROVE  Remote!Execute(r)
  <1>1. r \in pending[c] /\ executed[r] = "no"
    BY DEF HandleRpcRequest, IInv, Conversation, Requests
  <1>2. ~(r > calls)
    BY <1>1 DEF IInv, Conversation, Requests, Unsent
  <1>3. outcome[r] # "none"
    BY <1>2 DEF IInv, Stub, Numbers
  <1> QED BY <1>1, <1>3 DEF HandleRpcRequest, history, Remote!Execute

LEMMA CallsAnew ==
    ASSUME IInv, NEW t \in Threads, Call(t)
    PROVE  calls + 1 \in Calls /\ Remote!Call(calls + 1)
  <1>1. calls \in Nat /\ calls + 1 \in Calls /\ calls + 1 > calls
    BY ClientAssumption DEF Call, IInv, Stub, TypeOK, Calls
  <1>2. outcome[calls + 1] = "none"
    BY <1>1 DEF IInv, Stub, Numbers
  <1> QED BY <1>1, <1>2 DEF Call, server, Remote!Call

(* Every step of the stub and the server is a step of a remote call, or    *)
(* none.                                                                   *)
LEMMA RemoteStep == ~MayTimeout /\ IInv /\ [Next]_vars => [Remote!Next]_(Remote!vars)
  <1> SUFFICES ASSUME ~MayTimeout, IInv, [Next]_vars PROVE [Remote!Next]_(Remote!vars)
    OBVIOUS
  <1>1. ASSUME UNCHANGED <<outcome, answer, executed>> PROVE [Remote!Next]_(Remote!vars)
    BY <1>1 DEF Remote!vars
  <1>2. CASE Server
    <2>1. ASSUME NEW c \in Calls, NEW r \in Calls, HandleRpcRequest(c, r)
          PROVE  [Remote!Next]_(Remote!vars)
      BY <2>1, Executes DEF Remote!Next
    <2>2. ASSUME NEW c \in Calls, ServerTake(c) \/ ServerCloses(c) PROVE [Remote!Next]_(Remote!vars)
      BY <1>1, <2>2 DEF ServerTake, ServerCloses, history
    <2>3. ServerStop \/ ServerStart => [Remote!Next]_(Remote!vars)
      BY <1>1 DEF ServerStop, ServerStart, history
    <2> QED BY <1>2, <2>1, <2>2, <2>3 DEF Server
  <1>3. Disconnect => [Remote!Next]_(Remote!vars)
    BY <1>1 DEF Disconnect, server
  <1>4. ASSUME NEW t \in Threads, Call(t) PROVE [Remote!Next]_(Remote!vars)
    BY <1>4, CallsAnew DEF Remote!Next
  <1>5. ASSUME NEW t \in Threads, Step(t) PROVE [Remote!Next]_(Remote!vars)
    <2>1. CASE ReturnResponse(t)
      <3>1. cur[t] \in Calls /\ Remote!Answer(cur[t])
        BY <2>1, Answers DEF Remote!Answer
      <3> QED BY <3>1 DEF Remote!Next
    <2>2. CASE ConnectFails(t) \/ SendRefused(t) \/ SendBroken(t) \/ ReadEof(t) \/ ReadTimeout(t)
      <3>1. cur[t] \in Calls /\ Remote!Fail(cur[t])
        BY <2>2, Fails DEF Remote!Fail
      <3> QED BY <3>1 DEF Remote!Next
    <2>3. CASE Check(t) \/ ConnectAlready(t) \/ ConnectOk(t) \/ SendRequest(t) \/ Read(t)
      BY <1>1, <2>3 DEF Check, ConnectAlready, ConnectOk, SendRequest, Read, server, history
    <2>4. ASSUME NEW len \in 0 .. BodyUnits + 1, AcceptHeader(t, len) \/ RefuseHeader(t, len)
          PROVE  [Remote!Next]_(Remote!vars)
      <3>1. ~RefuseHeader(t, len)
        BY HeaderIsPrefix DEF RefuseHeader, IInv
      <3> QED BY <1>1, <2>4, <3>1 DEF AcceptHeader, server, history
    <2>5. ~ParseFails(t)
      BY BodyIsResponse DEF ParseFails, IInv
    <2> QED BY <1>5, <2>1, <2>2, <2>3, <2>4, <2>5 DEF Step
  <1>6. UNCHANGED vars => [Remote!Next]_(Remote!vars)
    BY <1>1 DEF vars, server, history
  <1> QED BY <1>2, <1>3, <1>4, <1>5, <1>6 DEF Next

(* Threads that share a stub, its one connection and its buffers see what  *)
(* each of them would see alone: a method executed at most once per call,  *)
(* and the result of that execution as its answer.  The connection may     *)
(* break and the server restart at any point; it has to answer in time.    *)
THEOREM RpcClientImplementsRemoteCall == ~MayTimeout => (Spec => ImplementsRemoteCall)
  <1> SUFFICES ASSUME ~MayTimeout PROVE Spec => ImplementsRemoteCall
    OBVIOUS
  <1>1. Init => Remote!Init
    BY DEF Init, Remote!Init
  <1>2. IInv /\ [Next]_vars => IInv'
    BY IInvStep
  <1>3. IInv /\ [Next]_vars => [Remote!Next]_(Remote!vars)
    BY RemoteStep
  <1> QED BY <1>1, <1>2, <1>3, IInvInit, PTL DEF Spec, ImplementsRemoteCall, Remote!Spec

(* The response that a call returns is the response to its own request.    *)
(* Nothing in the client compares the ids (rpc_protocol.proto:25): the     *)
(* mutex is all there is, and with a server that answers in time it is     *)
(* enough.                                                                 *)
THEOREM RpcClientResponseMatches == ~MayTimeout => (Spec => []ResponseMatches)
  <1> SUFFICES ASSUME ~MayTimeout PROVE Spec => []ResponseMatches
    OBVIOUS
  <1>1. Init => ResponseMatches
    BY DEF Init, ResponseMatches
  <1>2. IInv /\ [Next]_vars => IInv'
    BY IInvStep
  <1>3. IInv /\ ResponseMatches /\ [Next]_vars => ResponseMatches'
    <2> SUFFICES ASSUME IInv, ResponseMatches, [Next]_vars PROVE ResponseMatches'
      OBVIOUS
    <2>1. /\ outcome \in [Calls -> {"none", "running", "true", "false"}]
          /\ answer \in [Calls -> {0} \cup Calls]
      BY DEF IInv, Stub, TypeOK
    <2>2. CASE UNCHANGED Remote!vars
      BY <2>2 DEF Remote!vars, ResponseMatches
    <2>3. ASSUME NEW r \in Calls,
                 Remote!Call(r) \/ Remote!Execute(r) \/ Remote!Answer(r) \/ Remote!Fail(r)
          PROVE  ResponseMatches'
      BY <2>1, <2>3 DEF Remote!Call, Remote!Execute, Remote!Answer, Remote!Fail, ResponseMatches
    <2> QED BY <2>2, <2>3, RemoteStep DEF Remote!Next
  <1> QED BY <1>1, <1>2, <1>3, IInvInit, PTL DEF Spec

-----------------------------------------------------------------------------
(* Failures *)

(* A disturbance is not forgotten; a call that begins is a new one.        *)
LEMMA ExcusedMore ==
    ASSUME IInv, Excused, UNCHANGED <<stops, connected, cur, outcome>>,
           \A r \in Calls : disturbed[r] => disturbed'[r],
           \A u \in Threads : pc'[u] = "send" /\ ~connected => pc[u] = "send"
    PROVE  Excused'
  <1>1. \A u \in Threads : pc[u] = "send" => cur[u] \in Calls
    BY Numbered DEF IInv
  <1> QED BY <1>1 DEF Excused

LEMMA ExcusedServer ==
    ASSUME IInv, Excused, Server
    PROVE  Excused'
  <1>1. ASSUME stops' = stops + 1 PROVE Excused'
    BY <1>1 DEF Excused, IInv, Stub, TypeOK
  <1>2. ASSUME UNCHANGED <<stops, connected, cur, outcome, disturbed, pc>> PROVE Excused'
    BY <1>2, ExcusedMore
  <1>3. ASSUME NEW c \in Calls, ServerTake(c) PROVE Excused'
    BY <1>2, <1>3 DEF ServerTake, stub, history
  <1>4. ASSUME NEW c \in Calls, NEW r \in Calls, HandleRpcRequest(c, r) PROVE Excused'
    BY <1>2, <1>4 DEF HandleRpcRequest, stub, history
  <1>5. ServerStart => Excused'
    BY <1>2 DEF ServerStart, stub, history
  <1> QED BY <1>1, <1>3, <1>4, <1>5 DEF Server, ServerCloses, ServerStop

LEMMA ExcusedDisconnect ==
    ASSUME IInv, Excused, Disconnect
    PROVE  Excused'
  <1>1. UNCHANGED <<stops, cur, outcome, pc>>
    BY DEF Disconnect, server
  <1>2. \A r \in Calls : disturbed'[r] <=> disturbed[r] \/ Running(r)
    BY DEF Disconnect
  <1>3. \A u \in Threads : pc[u] = "send" => cur[u] \in Calls /\ Running(cur[u])
    BY Numbered DEF IInv, Stub, Numbers
  <1> QED BY <1>1, <1>2, <1>3 DEF Excused

LEMMA ExcusedCall ==
    ASSUME IInv, Excused, NEW t \in Threads, Call(t)
    PROVE  Excused'
  <1>1. calls \in Nat /\ calls + 1 \in Calls
    BY ClientAssumption DEF Call, IInv, Stub, TypeOK, Calls
  <1>2. \A u \in Threads : /\ pc'[u] = IF u = t THEN "check" ELSE pc[u]
                           /\ cur'[u] = IF u = t THEN calls + 1 ELSE cur[u]
    BY DEF Call, IInv, Stub, TypeOK, Goto
  <1>3. \A r \in Calls : /\ outcome'[r] = IF r = calls + 1 THEN "running" ELSE outcome[r]
                         /\ r # calls + 1 => disturbed'[r] = disturbed[r]
    BY <1>1 DEF Call, IInv, Stub, TypeOK
  <1>4. \A u \in Threads : pc[u] = "send" => cur[u] \in Calls /\ cur[u] # calls + 1
    <2> SUFFICES ASSUME NEW u \in Threads, pc[u] = "send"
                 PROVE  cur[u] \in Calls /\ cur[u] # calls + 1
      OBVIOUS
    <2>1. cur[u] \in Calls /\ cur[u] \in 1..calls
      BY Numbered DEF IInv
    <2> QED BY <1>1, <2>1
  <1>5. stops' = stops /\ connected' = connected
    BY DEF Call, server, stub
  <1> QED BY <1>2, <1>3, <1>4, <1>5 DEF Excused

(* What makes a call fail, and was there since it began. *)
LEMMA ExcusedFailure ==
    ASSUME IInv, Excused, NEW t \in Threads,
           ConnectFails(t) \/ SendRefused(t) \/ SendBroken(t) \/ ReadEof(t) \/ ReadTimeout(t)
    PROVE  Excused'
  <1> SUFFICES ASSUME stops' = 0 PROVE Excused'
    BY DEF Excused
  <1>1. /\ stops = 0 /\ cur' = cur /\ connected' = connected
    BY DEF ConnectFails, SendRefused, SendBroken, ReadEof, ReadTimeout, ReturnFalse, server, stub
  <1>2. \A u \in Threads : pc'[u] = IF u = t THEN "idle" ELSE pc[u]
    BY Goes DEF IInv, ConnectFails, SendRefused, SendBroken, ReadEof, ReadTimeout, ReturnFalse
  <1>3. cur[t] \in Calls /\ outcome' = [outcome EXCEPT ![cur[t]] = "false"]
    BY Fails
  <1>4. \A r \in Calls : outcome'[r] = "false" => r = cur[t] \/ outcome[r] = "false"
    BY <1>3 DEF IInv, Stub, TypeOK
  <1>5. \A r \in Calls : disturbed[r] => disturbed'[r]
    BY DEF ConnectFails, SendRefused, SendBroken, ReadEof, ReadTimeout, IInv, Stub, TypeOK
  <1>6. disturbed'[cur[t]]
    <2>1. ConnectFails(t) \/ ReadTimeout(t) => disturbed'[cur[t]]
      BY <1>3 DEF ConnectFails, ReadTimeout, IInv, Stub, TypeOK
    <2>2. SendRefused(t) => disturbed'[cur[t]]
      <3>1. SendRefused(t) => ~connected /\ pc[t] = "send" /\ disturbed' = disturbed
        BY <1>1 DEF SendRefused, IInv, Unbroken
      <3> QED BY <1>1, <3>1 DEF Excused
    <2>3. ~SendBroken(t) /\ ~ReadEof(t)
      <3> SUFFICES ASSUME SendBroken(t) \/ ReadEof(t) PROVE FALSE
        OBVIOUS
      <3>1. tcp.state = "CONNECTED" /\ fin[tcp.conn]
        BY ClientAssumption DEF SendBroken, ReadEof, Reading, IInv, Stub, Mutex, Receiving
      <3>2. tcp.conn \in Calls
        BY <3>1 DEF IInv, Stub, TypeOK, Client
      <3> QED BY <1>1, <3>1, <3>2 DEF IInv, Unbroken
    <2> QED BY <2>1, <2>2, <2>3
  <1>7. \A u \in Threads : pc[u] = "send" => cur[u] \in Calls
    BY Numbered DEF IInv
  <1> QED BY <1>1, <1>2, <1>4, <1>5, <1>6, <1>7 DEF Excused

LEMMA ExcusedStep == ~MayTimeout /\ IInv /\ Excused /\ [Next]_vars => Excused'
  <1> SUFFICES ASSUME ~MayTimeout, IInv, Excused, [Next]_vars PROVE Excused'
    OBVIOUS
  <1>1. ASSUME NEW t \in Threads, Step(t) PROVE Excused'
    <2>1. CASE Check(t) \/ ConnectAlready(t)
      <3>1. UNCHANGED <<stops, connected, cur, outcome, disturbed>>
        BY <2>1 DEF Check, ConnectAlready, server, stub, history
      <3>2. PICK label : Goto(t, label) /\ (label = "send" => connected)
        BY <2>1 DEF Check, ConnectAlready
      <3>3. \A u \in Threads : pc'[u] = IF u = t THEN label ELSE pc[u]
        BY <3>2, Goes DEF IInv
      <3> QED BY <3>1, <3>2, <3>3, ExcusedMore
    <2>2. CASE ConnectOk(t)
      <3>1. UNCHANGED <<stops, outcome, disturbed>> /\ connected'
        BY <2>2 DEF ConnectOk, server, history
      <3> QED BY <3>1 DEF Excused
    <2>3. ASSUME NEW len \in 0 .. BodyUnits + 1, AcceptHeader(t, len) PROVE Excused'
      <3>1. \A u \in Threads : pc'[u] = IF u = t THEN "body" ELSE pc[u]
        BY <2>3, Goes DEF AcceptHeader, IInv
      <3> QED BY <2>3, <3>1, ExcusedMore DEF AcceptHeader, server, stub, history
    <2>4. CASE SendRequest(t)
      <3>1. \A u \in Threads : pc'[u] = IF u = t THEN "header" ELSE pc[u]
        BY <2>4, Goes DEF SendRequest, IInv
      <3> QED BY <2>4, <3>1, ExcusedMore DEF SendRequest, stub, history
    <2>5. CASE Read(t)
      BY <2>5, ExcusedMore DEF Read, server, stub, history
    <2>6. CASE ReturnResponse(t)
      <3>1. \A u \in Threads : pc'[u] = IF u = t THEN "idle" ELSE pc[u]
        BY <2>6, Goes DEF ReturnResponse, IInv
      <3>2. \A r \in Calls : outcome'[r] = "false" => outcome[r] = "false"
        BY <2>6, Answers DEF IInv, Stub, TypeOK
      <3>3. UNCHANGED <<stops, connected, cur, disturbed>>
        BY <2>6 DEF ReturnResponse, server, stub
      <3> QED BY <3>1, <3>2, <3>3 DEF Excused
    <2>7. \A len : ~RefuseHeader(t, len)
      BY HeaderIsPrefix DEF RefuseHeader, IInv
    <2>8. ~ParseFails(t)
      BY BodyIsResponse DEF ParseFails, IInv
    <2> QED BY <1>1, <2>1, <2>2, <2>3, <2>4, <2>5, <2>6, <2>7, <2>8, ExcusedFailure DEF Step
  <1>2. UNCHANGED vars => Excused'
    BY ExcusedMore DEF vars, server, stub, history
  <1> QED BY <1>1, <1>2, ExcusedServer, ExcusedDisconnect, ExcusedCall DEF Next

(* As long as the server closes nothing and answers in time, a call fails  *)
(* only for a reason that arose during it: the server could not be         *)
(* reached, or the application disconnected the stub.  What other threads  *)
(* do with the connection does not make it fail (rpc_client.cpp:53-187).   *)
THEOREM RpcClientUndisturbedSucceeds == ~MayTimeout => (Spec => []UndisturbedSucceeds)
  <1> SUFFICES ASSUME ~MayTimeout PROVE Spec => []UndisturbedSucceeds
    OBVIOUS
  <1>1. Init => Excused
    BY DEF Init, Excused
  <1>2. IInv /\ [Next]_vars => IInv'
    BY IInvStep
  <1>3. IInv /\ Excused /\ [Next]_vars => Excused'
    BY ExcusedStep
  <1>4. Excused => UndisturbedSucceeds
    BY DEF Excused, UndisturbedSucceeds
  <1> QED BY <1>1, <1>2, <1>3, <1>4, IInvInit, PTL DEF Spec
-----------------------------------------------------------------------------
(* With timeouts: a request is in one place only, and a reply too *)

(* A call that has not sent its request. *)
Fresh(r) == r > calls \/ \E t \in Threads : Preparing(t) /\ cur[t] = r

OnWire(r, c, k) == k \in 1..Len(up[c]) /\ up[c][k] = r

Waits(r) == \E c \in Calls : r \in pending[c] \/ \E k \in Nat : OnWire(r, c, k)

Sole(r) ==
    /\ \A c, d \in Calls, k, l \in Nat : OnWire(r, c, k) /\ OnWire(r, d, l) => c = d /\ k = l
    /\ \A c, d \in Calls, k \in Nat : OnWire(r, c, k) => r \notin pending[d]
    /\ \A c, d \in Calls : r \in pending[c] /\ r \in pending[d] => c = d

(* A request is on one connection or with one worker, and then it has been *)
(* sent and not executed.                                                  *)
Once ==
    \A r \in Calls :
        /\ Sole(r)
        /\ Waits(r) => executed[r] = "no" /\ ~Fresh(r)
        /\ Fresh(r) => executed[r] = "no"

(* The first unit of a reply's body stands for the reply. *)
Mark(r) == <<r, HeaderUnits + 1>>

Arriving(r, c, k) == k \in 1..Len(down[c]) /\ down[c][k] = Mark(r)
Arrives(r) == \E c \in Calls, k \in Nat : Arriving(r, c, k)
Taken(r) == \E t \in Threads : holder = t /\ \E k \in 1..Len(got[t]) : got[t][k] = Mark(r)
Returned(r) == \E q \in Calls : answer[q] = r

(* Before it is returned a reply arrives, then it is taken. *)
ReadOnce(r) ==
    /\ \A c, d \in Calls, k, l \in Nat : Arriving(r, c, k) /\ Arriving(r, d, l) => c = d /\ k = l
    /\ Arrives(r) => ~Taken(r) /\ ~Returned(r)
    /\ Taken(r) => ~Returned(r)
    /\ Arrives(r) \/ Taken(r) \/ Returned(r) => executed[r] # "no"

Marks == ReturnedOnce /\ \A r \in Calls : ReadOnce(r)

LEMMA OnceInit == Init => Once /\ Marks
  <1> SUFFICES ASSUME Init PROVE Once /\ Marks
    OBVIOUS
  <1>1. \A c \in Calls : up[c] = <<>> /\ pending[c] = {} /\ down[c] = <<>>
    BY DEF Init
  <1>2. \A r \in Calls : executed[r] = "no" /\ answer[r] = 0 /\ r # 0
    BY DEF Init, Calls
  <1>3. \A t \in Threads : holder # t
    BY ClientAssumption DEF Init
  <1>4. \A r, c \in Calls, k \in Nat : ~OnWire(r, c, k) /\ ~Arriving(r, c, k)
    BY <1>1 DEF OnWire, Arriving
  <1>5. Once
    <2>1. \A r \in Calls : Sole(r) /\ ~Waits(r)
      BY <1>1, <1>4 DEF Sole, Waits
    <2> QED BY <1>2, <2>1 DEF Once
  <1>6. \A r \in Calls : ~Arrives(r) /\ ~Taken(r) /\ ~Returned(r)
    BY <1>2, <1>3, <1>4 DEF Arrives, Taken, Returned
  <1>7. ReturnedOnce
    BY <1>2 DEF ReturnedOnce
  <1>8. \A r \in Calls : ReadOnce(r)
    BY <1>4, <1>6 DEF ReadOnce
  <1> QED BY <1>5, <1>7, <1>8 DEF Marks

(* No call becomes unsent. *)
LEMMA FreshKept ==
    ASSUME UNCHANGED <<pc, cur, calls>>
    PROVE  \A r \in Calls : Fresh(r)' => Fresh(r)
  BY DEF Fresh, Preparing

LEMMA FreshGoto ==
    ASSUME Stub, NEW t \in Threads, NEW label, Goto(t, label), UNCHANGED <<cur, calls>>,
           Preparing(t) \/ label \notin {"check", "connect", "send"}
    PROVE  \A r \in Calls : Fresh(r)' => Fresh(r)
  <1>1. \A u \in Threads : pc'[u] = IF u = t THEN label ELSE pc[u]
    BY Goes
  <1>2. \A u \in Threads : Preparing(u)' => Preparing(u)
    BY <1>1 DEF Preparing
  <1> QED BY <1>2 DEF Fresh

LEMMA FreshCall ==
    ASSUME Stub, NEW t \in Threads, Call(t)
    PROVE  \A r \in Calls : Fresh(r)' => Fresh(r)
  <1>1. \A u \in Threads : /\ pc'[u] = IF u = t THEN "check" ELSE pc[u]
                           /\ cur'[u] = IF u = t THEN calls + 1 ELSE cur[u]
    BY DEF Call, Goto, Stub, TypeOK
  <1>2. calls' = calls + 1 /\ calls \in Nat /\ calls + 1 > calls
    BY ClientAssumption DEF Call, Stub, TypeOK
  <1>3. \A r \in Calls : r > calls + 1 => r > calls
    BY <1>2 DEF Calls
  <1> SUFFICES ASSUME NEW r \in Calls, Fresh(r)' PROVE Fresh(r)
    OBVIOUS
  <1>4. CASE r > calls'
    BY <1>2, <1>3, <1>4 DEF Fresh
  <1>5. ASSUME NEW u \in Threads, Preparing(u)', cur'[u] = r PROVE Fresh(r)
    <2>1. CASE u = t
      BY <1>1, <1>2, <1>5, <2>1 DEF Fresh
    <2>2. CASE u # t
      BY <1>1, <1>5, <2>2 DEF Fresh, Preparing
    <2> QED BY <2>1, <2>2
  <1> QED BY <1>4, <1>5 DEF Fresh

LEMMA FreshLess == Stub /\ [Next]_vars => \A r \in Calls : Fresh(r)' => Fresh(r)
  <1> SUFFICES ASSUME Stub, [Next]_vars PROVE \A r \in Calls : Fresh(r)' => Fresh(r)
    OBVIOUS
  <1>1. CASE Server \/ Disconnect
    <2>1. UNCHANGED <<pc, cur, calls>>
      BY <1>1 DEF Server, ServerTake, ServerCloses, HandleRpcRequest, ServerStop, ServerStart,
                  Disconnect, history
    <2> QED BY <2>1, FreshKept
  <1>2. CASE UNCHANGED vars
    BY <1>2, FreshKept DEF vars, history
  <1>3. ASSUME NEW t \in Threads, Step(t) PROVE \A r \in Calls : Fresh(r)' => Fresh(r)
    <2>1. CASE Read(t)
      BY <2>1, FreshKept DEF Read, history
    <2>2. CASE ~Read(t)
      <3>1. UNCHANGED <<cur, calls>>
        BY <1>3, <2>2 DEF Step, Check, ConnectAlready, ConnectOk, ConnectFails, SendRefused,
           SendBroken, SendRequest, ReadEof, ReadTimeout, AcceptHeader, RefuseHeader,
           ReturnResponse, ParseFails, ReturnFalse, history
      <3>2. PICK label : Goto(t, label) /\ (Preparing(t) \/ label \in {"idle", "body"})
        BY <1>3, <2>2 DEF Step, Check, ConnectAlready, ConnectOk, ConnectFails, SendRefused,
           SendBroken, SendRequest, ReadEof, ReadTimeout, AcceptHeader, RefuseHeader,
           ReturnResponse, ParseFails, ReturnFalse, Preparing
      <3> QED BY <3>1, <3>2, FreshGoto
    <2> QED BY <2>1, <2>2
  <1> QED BY <1>1, <1>2, <1>3, FreshCall DEF Next

(* What is neither sent nor executed nor passed on stays where it is, or   *)
(* is lost.                                                                *)
LEMMA OnceLess ==
    ASSUME Once, executed' = executed,
           \A c \in Calls : pending'[c] \subseteq pending[c] /\ up'[c] \in {up[c], <<>>},
           \A r \in Calls : Fresh(r)' => Fresh(r)
    PROVE  Once'
  <1>1. \A r, c \in Calls, k \in Nat : OnWire(r, c, k)' => OnWire(r, c, k)
    BY DEF OnWire
  <1>2. \A r \in Calls : Waits(r)' => Waits(r)
    BY <1>1 DEF Waits
  <1>3. \A r \in Calls : Sole(r) => Sole(r)'
    BY <1>1 DEF Sole
  <1> QED BY <1>2, <1>3 DEF Once

LEMMA OnceTake ==
    ASSUME Stub, Once, NEW c \in Calls, ServerTake(c), \A r \in Calls : Fresh(r)' => Fresh(r)
    PROVE  Once'
  <1>1. PICK s : s = up[c]
    OBVIOUS
  <1>2. s \in Seq(Calls) /\ s # <<>>
    BY <1>1 DEF ServerTake, Stub, TypeOK
  <1>3. /\ Head(s) \in Calls /\ Head(s) = s[1] /\ 1 \in 1..Len(s)
        /\ \A k \in 1..Len(Tail(s)) : k + 1 \in 1..Len(s) /\ Tail(s)[k] = s[k + 1]
    BY <1>2, HeadTailProperties
  <1>4. PICK q \in Calls : q = Head(s)
    BY <1>3
  <1>5. \A d \in Calls : /\ pending'[d] = IF d = c THEN pending[d] \cup {q} ELSE pending[d]
                         /\ up'[d] = IF d = c THEN Tail(s) ELSE up[d]
    BY <1>1, <1>4 DEF ServerTake, Stub, TypeOK
  <1>6. executed' = executed
    BY DEF ServerTake
  <1>7. OnWire(q, c, 1) /\ Waits(q)
    BY <1>1, <1>3, <1>4 DEF OnWire, Waits
  <1>8. Sole(q)
    BY DEF Once
  <1>9. ASSUME NEW r \in Calls, NEW d \in Calls, NEW k \in Nat, OnWire(r, d, k)'
        PROVE  r # q /\ OnWire(r, d, IF d = c THEN k + 1 ELSE k)
    <2>1. CASE d = c
      <3>1. k \in 1..Len(Tail(s)) /\ Tail(s)[k] = r
        BY <1>5, <1>9, <2>1 DEF OnWire
      <3>2. OnWire(r, c, k + 1)
        BY <1>1, <1>3, <3>1 DEF OnWire
      <3>3. k + 1 \in Nat /\ k + 1 # 1
        BY <3>1
      <3> QED BY <1>7, <1>8, <2>1, <3>2, <3>3 DEF Sole
    <2>2. CASE d # c
      <3>1. OnWire(r, d, k)
        BY <1>5, <1>9, <2>2 DEF OnWire
      <3> QED BY <1>7, <1>8, <2>2, <3>1 DEF Sole
    <2> QED BY <2>1, <2>2
  <1>10. \A r \in Calls : Waits(r)' => Waits(r)
    <2>1. \A k \in Nat : k + 1 \in Nat
      OBVIOUS
    <2>2. \A r, d \in Calls : r \in pending'[d] => Waits(r)
      BY <1>5, <1>7 DEF Waits
    <2>3. \A r, d \in Calls, k \in Nat : OnWire(r, d, k)' => Waits(r)
      BY <1>9, <2>1 DEF Waits
    <2> QED BY <2>2, <2>3 DEF Waits
  <1>11. ASSUME NEW r \in Calls PROVE Sole(r)'
    <2>1. Sole(r)
      BY DEF Once
    <2>2. ASSUME NEW d \in Calls, NEW e \in Calls, NEW k \in Nat, NEW l \in Nat,
                 OnWire(r, d, k)', OnWire(r, e, l)'
          PROVE  d = e /\ k = l
      <3>1. PICK m \in Nat : m = IF d = c THEN k + 1 ELSE k
        OBVIOUS
      <3>2. PICK n \in Nat : n = IF e = c THEN l + 1 ELSE l
        OBVIOUS
      <3>3. OnWire(r, d, m) /\ OnWire(r, e, n)
        BY <1>9, <2>2, <3>1, <3>2
      <3>4. d = e /\ m = n
        BY <2>1, <3>3 DEF Sole
      <3> QED BY <3>1, <3>2, <3>4
    <2>3. ASSUME NEW d \in Calls, NEW e \in Calls, NEW k \in Nat, OnWire(r, d, k)'
          PROVE  r \notin pending'[e]
      <3>1. PICK m \in Nat : m = IF d = c THEN k + 1 ELSE k
        OBVIOUS
      <3>2. r # q /\ OnWire(r, d, m)
        BY <1>9, <2>3, <3>1
      <3>3. r \notin pending[e]
        BY <2>1, <3>2 DEF Sole
      <3> QED BY <1>5, <3>2, <3>3
    <2>4. ASSUME NEW d \in Calls, NEW e \in Calls, r \in pending'[d], r \in pending'[e]
          PROVE  d = e
      <3>1. CASE r = q
        <4>1. \A f \in Calls : r \notin pending[f]
          BY <1>7, <1>8, <3>1 DEF Sole
        <4> QED BY <1>5, <2>4, <4>1
      <3>2. CASE r # q
        <4>1. r \in pending[d] /\ r \in pending[e]
          BY <1>5, <2>4, <3>2
        <4> QED BY <2>1, <4>1 DEF Sole
      <3> QED BY <3>1, <3>2
    <2> QED BY <2>2, <2>3, <2>4 DEF Sole
  <1> QED BY <1>6, <1>10, <1>11 DEF Once

LEMMA OnceHandle ==
    ASSUME Stub, Once, NEW c \in Calls, NEW q \in Calls, HandleRpcRequest(c, q)
    PROVE  /\ executed[q] = "no" /\ ~Fresh(q)
           /\ executed'[q] # "no"
           /\ \A r \in Calls : r # q => executed'[r] = executed[r]
           /\ Once'
  <1>1. q \in pending[c] /\ UNCHANGED <<up, pc, cur, calls>>
    BY DEF HandleRpcRequest, history
  <1>2. /\ \A d \in Calls : pending'[d] = IF d = c THEN pending[d] \ {q} ELSE pending[d]
        /\ \A r \in Calls : r # q => executed'[r] = executed[r]
        /\ executed'[q] # "no"
    BY DEF HandleRpcRequest, Stub, TypeOK
  <1>3. Waits(q)
    BY <1>1 DEF Waits
  <1>4. executed[q] = "no" /\ ~Fresh(q) /\ Sole(q)
    BY <1>3 DEF Once
  <1>5. \A r, d \in Calls, k \in Nat : OnWire(r, d, k)' => OnWire(r, d, k)
    BY <1>1 DEF OnWire
  <1>6. \A r \in Calls : Fresh(r)' => Fresh(r)
    BY <1>1, FreshKept
  <1>7. \A r \in Calls : Sole(r) => Sole(r)'
    BY ZenonT(60), <1>2, <1>5 DEF Sole
  <1>8. ~Waits(q)'
    <2>1. \A d \in Calls, k \in Nat : ~OnWire(q, d, k)'
      BY <1>1, <1>4, <1>5 DEF Sole
    <2>2. \A d \in Calls : q \notin pending'[d]
      BY <1>1, <1>2, <1>4 DEF Sole
    <2> QED BY <2>1, <2>2 DEF Waits
  <1>9. \A r \in Calls : Waits(r)' => Waits(r)
    BY <1>2, <1>5 DEF Waits
  <1>10. Once'
    BY <1>2, <1>4, <1>6, <1>7, <1>8, <1>9 DEF Once
  <1> QED BY <1>2, <1>4, <1>10

LEMMA OnceSend ==
    ASSUME Stub, Once, NEW t \in Threads, SendRequest(t), \A r \in Calls : Fresh(r)' => Fresh(r)
    PROVE  Once'
  <1>1. PICK q \in Calls : q = cur[t] /\ ~(q > calls)
    BY Numbered DEF SendRequest
  <1>2. PICK c \in Calls : c = tcp.conn
    BY DEF SendRequest, Stub, Client, TypeOK
  <1>3. PICK s \in Seq(Calls) : s = up[c]
    BY DEF Stub, TypeOK
  <1>4. UNCHANGED <<pending, executed, cur, calls>>
    BY DEF SendRequest, history
  <1>5. CASE fin[c]
    <2>1. up' = up
      BY <1>2, <1>5 DEF SendRequest
    <2> QED BY <1>4, <2>1, OnceLess
  <1>6. CASE ~fin[c]
    <2>1. \A d \in Calls : up'[d] = IF d = c THEN Append(s, q) ELSE up[d]
      BY <1>1, <1>2, <1>3, <1>6 DEF SendRequest, Stub, TypeOK
    <2>2. Fresh(q)
      BY <1>1 DEF Fresh, Preparing, SendRequest
    <2>3. ~Waits(q) /\ executed[q] = "no"
      BY <2>2 DEF Once
    <2>4. ~Fresh(q)'
      <3>1. \A u \in Threads : pc'[u] = IF u = t THEN "header" ELSE pc[u]
        BY Goes DEF SendRequest
      <3>2. \A u \in Threads : Preparing(u)' => u # t /\ pc[u] # "idle"
        BY <3>1 DEF Preparing
      <3>3. pc[t] # "idle"
        BY DEF SendRequest
      <3>4. \A u \in Threads : Preparing(u)' => cur[u] # q
        BY <1>1, <3>2, <3>3 DEF Stub, Numbers
      <3> QED BY <1>1, <1>4, <3>4 DEF Fresh
    <2>5. ASSUME NEW r \in Calls, NEW d \in Calls, NEW k \in Nat, OnWire(r, d, k)'
          PROVE  OnWire(r, d, k) \/ (r = q /\ d = c /\ k = Len(s) + 1)
      <3>1. CASE d = c
        <4>1. k \in 1..Len(Append(s, q)) /\ Append(s, q)[k] = r
          BY <2>1, <2>5, <3>1 DEF OnWire
        <4> QED BY <1>3, <3>1, <4>1 DEF OnWire
      <3>2. CASE d # c
        BY <2>1, <2>5, <3>2 DEF OnWire
      <3> QED BY <3>1, <3>2
    <2>6. \A r \in Calls : r # q /\ Waits(r)' => Waits(r)
      BY <1>4, <2>5 DEF Waits
    <2>7. \A r \in Calls : r # q /\ Sole(r) => Sole(r)'
      <3>1. \A r, d \in Calls, k \in Nat : r # q /\ OnWire(r, d, k)' => OnWire(r, d, k)
        BY <2>5
      <3> QED BY <1>4, <3>1 DEF Sole
    <2>8. Sole(q)'
      <3>1. \A d \in Calls, k \in Nat : OnWire(q, d, k)' => d = c /\ k = Len(s) + 1
        BY <2>3, <2>5 DEF Waits
      <3>2. \A d \in Calls : q \notin pending'[d]
        BY <1>4, <2>3 DEF Waits
      <3> QED BY <3>1, <3>2 DEF Sole
    <2> QED BY <1>4, <2>3, <2>4, <2>6, <2>7, <2>8 DEF Once
  <1> QED BY <1>5, <1>6

LEMMA OnceStep == Stub /\ Once /\ [Next]_vars => Once'
  <1> SUFFICES ASSUME Stub, Once, [Next]_vars PROVE Once'
    OBVIOUS
  <1>1. \A r \in Calls : Fresh(r)' => Fresh(r)
    BY FreshLess
  <1>2. ASSUME UNCHANGED <<up, pending, executed>> PROVE Once'
    BY <1>1, <1>2, OnceLess
  <1>3. CASE Server
    <2>1. ASSUME NEW c \in Calls, ServerCloses(c) PROVE Once'
      <3>1. \A d \in Calls : up'[d] \in {up[d], <<>>} /\ pending'[d] = pending[d]
        BY <2>1 DEF ServerCloses, Stub, TypeOK
      <3> QED BY <1>1, <2>1, <3>1, OnceLess DEF ServerCloses
    <2>2. CASE ServerStop
      <3>1. \A d \in Calls : up'[d] = <<>> /\ pending'[d] = {}
        BY <2>2 DEF ServerStop
      <3> QED BY <1>1, <2>2, <3>1, OnceLess DEF ServerStop
    <2>3. CASE ServerStart
      BY <1>2, <2>3 DEF ServerStart
    <2> QED BY <1>1, <1>3, <2>1, <2>2, <2>3, OnceTake, OnceHandle DEF Server
  <1>4. ASSUME NEW t \in Threads, Step(t) PROVE Once'
    <2>1. CASE SendRequest(t)
      BY <1>1, <2>1, OnceSend
    <2>2. CASE ~SendRequest(t)
      <3>1. UNCHANGED <<up, pending, executed>>
        BY <1>4, <2>2 DEF Step, Check, ConnectAlready, ConnectOk, ConnectFails, SendRefused,
           SendBroken, Read, ReadEof, ReadTimeout, AcceptHeader, RefuseHeader,
           ReturnResponse, ParseFails, server
      <3> QED BY <1>2, <3>1
    <2> QED BY <2>1, <2>2
  <1>5. CASE Disconnect \/ (\E t \in Threads : Call(t)) \/ UNCHANGED vars
    BY <1>2, <1>5 DEF Disconnect, Call, vars, server
  <1> QED BY <1>3, <1>4, <1>5 DEF Next

(* Whatever times out, breaks or stops, no method is executed twice for    *)
(* one call, or for a call that was not made (rpc_client.cpp:180,          *)
(* rpc_server.cpp:218).                                                    *)
THEOREM RpcClientExecutedOnce == Spec => ExecutedOnce
  <1>1. Init => Stub /\ Once
    BY OnceInit, TypesInit, OwnershipInit DEF Stub, Ownership
  <1>2. Stub /\ Once /\ [Next]_vars => Stub' /\ Once'
    BY StubStep, OnceStep
  <1> DEFINE A == \A c, r \in Calls :
                      HandleRpcRequest(c, r) => executed[r] = "no" /\ outcome[r] # "none"
  <1>3. Stub /\ Once => A
    <2> SUFFICES ASSUME Stub, Once, NEW c \in Calls, NEW r \in Calls, HandleRpcRequest(c, r)
                 PROVE  executed[r] = "no" /\ outcome[r] # "none"
      OBVIOUS
    <2>1. executed[r] = "no" /\ ~(r > calls)
      BY OnceHandle DEF Fresh
    <2> QED BY <2>1 DEF Stub, Numbers
  <1>4. Stub /\ Once => [A]_vars
    BY <1>3
  <1> HIDE DEF A
  <1>5. Spec => [][A]_vars
    BY <1>1, <1>2, <1>4, PTL DEF Spec
  <1> QED BY <1>5 DEF A, ExecutedOnce

(* Nothing more is taken. *)
LEMMA TakenLess ==
    ASSUME Stub,
           \/ holder' = Nobody
           \/ holder' = holder /\ got' = got
           \/ \E t \in Threads : holder' = t /\ got'[t] = <<>>
    PROVE  \A r \in Calls : Taken(r)' => Taken(r)
  <1>1. CASE holder' = Nobody
    BY <1>1, ClientAssumption DEF Taken
  <1>2. CASE holder' = holder /\ got' = got
    BY <1>2 DEF Taken
  <1>3. ASSUME NEW t \in Threads, holder' = t, got'[t] = <<>> PROVE \A r \in Calls : ~Taken(r)'
    BY <1>3 DEF Taken
  <1> QED BY <1>1, <1>2, <1>3

(* What nobody takes, and is not returned, stays where it is or is lost. *)
LEMMA MarksLess ==
    ASSUME Marks, executed' = executed, answer' = answer,
           \A c \in Calls : down'[c] \in {down[c], <<>>},
           \A r \in Calls : Taken(r)' => Taken(r)
    PROVE  Marks'
  <1>1. \A r, c \in Calls, k \in Nat : Arriving(r, c, k)' => Arriving(r, c, k)
    BY DEF Arriving, Mark
  <1>2. \A r \in Calls : (Arrives(r)' => Arrives(r)) /\ (Returned(r)' <=> Returned(r))
    BY <1>1 DEF Arrives, Returned
  <1>3. \A r \in Calls : ReadOnce(r) => ReadOnce(r)'
    BY <1>1, <1>2 DEF ReadOnce
  <1> QED BY <1>3 DEF Marks, ReturnedOnce

(* The reply to q is the only one that comes to be. *)
LEMMA MarksHandle ==
    ASSUME Stub, Once, Marks, NEW c \in Calls, NEW q \in Calls, HandleRpcRequest(c, q)
    PROVE  Marks'
  <1>1. /\ executed[q] = "no" /\ executed'[q] # "no"
        /\ \A r \in Calls : r # q => executed'[r] = executed[r]
    BY OnceHandle
  <1>2. UNCHANGED <<answer, holder, got>>
    BY DEF HandleRpcRequest, reading, history
  <1>3. \A r \in Calls : (Taken(r)' <=> Taken(r)) /\ (Returned(r)' <=> Returned(r))
    BY <1>2 DEF Taken, Returned, Mark
  <1>4. ~Arrives(q) /\ ~Taken(q) /\ ~Returned(q)
    BY <1>1 DEF Marks, ReadOnce
  <1>5. PICK s \in Seq(Unit) : s = down[c]
    BY DEF Stub, TypeOK
  <1>6. \A d \in Calls : down'[d] = down[d] \/ (d = c /\ down'[d] = s \o Reply(q))
    BY <1>5 DEF HandleRpcRequest, Stub, TypeOK
  <1>7. ASSUME NEW r \in Calls, NEW d \in Calls, NEW k \in Nat, Arriving(r, d, k)'
        PROVE  Arriving(r, d, k) \/ (r = q /\ d = c /\ k = Len(s) + HeaderUnits + 1)
    <2>1. CASE down'[d] = down[d]
      BY <1>7, <2>1 DEF Arriving, Mark
    <2>2. CASE d = c /\ down'[d] = s \o Reply(q)
      <3>1. PICK p \in Seq(Unit) : p = Reply(q)
        BY ReplyType
      <3>2. Len(p) = HeaderUnits + BodyUnits /\ \A j \in 1..Len(p) : p[j] = <<q, j>>
        BY <3>1, ClientAssumption DEF Reply
      <3>3. k \in 1..Len(s \o p) /\ (s \o p)[k] = Mark(r)
        BY <1>7, <2>2, <3>1 DEF Arriving, Mark
      <3>4. /\ Len(s \o p) = Len(s) + Len(p) /\ Len(s) \in Nat /\ Len(p) \in Nat
            /\ k <= Len(s) => k \in 1..Len(s) /\ (s \o p)[k] = s[k]
            /\ k > Len(s) => k - Len(s) \in 1..Len(p) /\ (s \o p)[k] = p[k - Len(s)]
        BY <1>5, <3>1, <3>3
      <3>5. CASE k <= Len(s)
        BY <1>5, <2>2, <3>3, <3>4, <3>5 DEF Arriving
      <3>6. CASE k > Len(s)
        <4>1. <<q, k - Len(s)>> = <<r, HeaderUnits + 1>>
          BY <3>2, <3>3, <3>4, <3>6 DEF Mark
        <4>2. q = r /\ k - Len(s) = HeaderUnits + 1
          BY <4>1
        <4> QED BY <2>2, <3>4, <4>2, ClientAssumption
      <3> QED BY <3>4, <3>5, <3>6
    <2> QED BY <1>6, <2>1, <2>2
  <1>8. ASSUME NEW r \in Calls, r # q PROVE ReadOnce(r)'
    <2>1. \A d \in Calls, k \in Nat : Arriving(r, d, k)' => Arriving(r, d, k)
      BY <1>7, <1>8
    <2>2. Arrives(r)' => Arrives(r)
      BY <2>1 DEF Arrives
    <2>3. ReadOnce(r)
      BY DEF Marks
    <2> QED BY <1>1, <1>3, <1>8, <2>1, <2>2, <2>3 DEF ReadOnce
  <1>9. ReadOnce(q)'
    <2>1. \A d \in Calls, k \in Nat : Arriving(q, d, k)' => d = c /\ k = Len(s) + HeaderUnits + 1
      BY <1>4, <1>7 DEF Arrives
    <2>2. ~Taken(q)' /\ ~Returned(q)'
      BY <1>3, <1>4
    <2> QED BY <1>1, <2>1, <2>2 DEF ReadOnce
  <1>10. ReturnedOnce'
    BY <1>2 DEF Marks, ReturnedOnce
  <1> QED BY <1>8, <1>9, <1>10 DEF Marks

LEMMA MarksRead ==
    ASSUME Stub, Marks, NEW t \in Threads, Read(t)
    PROVE  Marks'
  <1>1. holder = t /\ UNCHANGED <<executed, answer, holder>>
    BY DEF Read, Reading, Stub, Mutex, Receiving, server, history
  <1>2. PICK c \in Calls : c = tcp.conn
    BY <1>1, Holding
  <1>3. PICK s \in Seq(Unit) : s = down[c]
    BY DEF Stub, TypeOK
  <1>4. PICK g \in Seq(Unit) : g = got[t]
    BY DEF Stub, TypeOK
  <1>5. s # <<>> /\ Head(s) \in Unit
    BY <1>2, <1>3, HeadTailProperties DEF Read
  <1>6. /\ \A d \in Calls : down'[d] = IF d = c THEN Tail(s) ELSE down[d]
        /\ got'[t] = Append(g, Head(s))
    BY <1>2, <1>3, <1>4 DEF Read, Stub, TypeOK
  <1>7. /\ Head(s) = s[1] /\ 1 \in 1..Len(s)
        /\ \A k \in 1..Len(Tail(s)) : k + 1 \in 1..Len(s) /\ Tail(s)[k] = s[k + 1]
    BY <1>5, HeadTailProperties
  <1>8. ASSUME NEW r \in Calls, NEW d \in Calls, NEW k \in Nat, Arriving(r, d, k)'
        PROVE  Arriving(r, d, IF d = c THEN k + 1 ELSE k)
    <2>1. CASE d = c
      <3>1. k \in 1..Len(Tail(s)) /\ Tail(s)[k] = Mark(r)
        BY <1>6, <1>8, <2>1 DEF Arriving, Mark
      <3> QED BY <1>3, <1>7, <2>1, <3>1 DEF Arriving
    <2>2. CASE d # c
      BY <1>6, <1>8, <2>2 DEF Arriving, Mark
    <2> QED BY <2>1, <2>2
  <1>9. ASSUME NEW r \in Calls, Taken(r)' PROVE Taken(r) \/ Arriving(r, c, 1)
    <2>1. PICK k \in 1..Len(Append(g, Head(s))) : Append(g, Head(s))[k] = Mark(r)
      BY <1>1, <1>6, <1>9 DEF Taken, Mark
    <2>2. CASE k \in 1..Len(g)
      <3>1. g[k] = Mark(r)
        BY <1>5, <2>1, <2>2
      <3> QED BY <1>1, <1>4, <2>2, <3>1 DEF Taken
    <2>3. CASE k \notin 1..Len(g)
      <3>1. s[1] = Mark(r)
        BY <1>5, <1>7, <2>1, <2>3
      <3> QED BY <1>3, <1>7, <3>1 DEF Arriving
    <2> QED BY <2>2, <2>3
  <1>10. \A r \in Calls : Returned(r)' <=> Returned(r)
    BY <1>1 DEF Returned
  <1>11. ASSUME NEW r \in Calls PROVE ReadOnce(r)'
    <2>1. ReadOnce(r)
      BY DEF Marks
    <2>2. ASSUME NEW d \in Calls, NEW e \in Calls, NEW k \in Nat, NEW l \in Nat,
                 Arriving(r, d, k)', Arriving(r, e, l)'
          PROVE  d = e /\ k = l
      <3>1. PICK m \in Nat : m = IF d = c THEN k + 1 ELSE k
        OBVIOUS
      <3>2. PICK n \in Nat : n = IF e = c THEN l + 1 ELSE l
        OBVIOUS
      <3>3. Arriving(r, d, m) /\ Arriving(r, e, n)
        BY <1>8, <2>2, <3>1, <3>2
      <3>4. d = e /\ m = n
        BY <2>1, <3>3 DEF ReadOnce
      <3> QED BY <3>1, <3>2, <3>4
    <2>3. Arrives(r)' => Arrives(r) /\ ~Arriving(r, c, 1)
      <3> SUFFICES ASSUME NEW d \in Calls, NEW k \in Nat, Arriving(r, d, k)'
                   PROVE  Arrives(r) /\ ~Arriving(r, c, 1)
        BY DEF Arrives
      <3>1. PICK m \in Nat : m = IF d = c THEN k + 1 ELSE k
        OBVIOUS
      <3>2. Arriving(r, d, m)
        BY <1>8, <3>1
      <3>3. k # 0
        BY DEF Arriving
      <3>4. Arriving(r, c, 1) => d = c /\ m = 1
        BY <2>1, <3>2 DEF ReadOnce
      <3> QED BY <3>1, <3>2, <3>3, <3>4 DEF Arrives
    <2>4. Taken(r)' => Taken(r) \/ (Arrives(r) /\ Arriving(r, c, 1))
      BY <1>9 DEF Arrives
    <2> QED BY <1>1, <1>10, <2>1, <2>2, <2>3, <2>4 DEF ReadOnce
  <1>12. ReturnedOnce'
    BY <1>1 DEF Marks, ReturnedOnce
  <1> QED BY <1>11, <1>12 DEF Marks

LEMMA MarksReturn ==
    ASSUME Stub, Marks, NEW t \in Threads, ReturnResponse(t)
    PROVE  Marks'
  <1>1. holder = t /\ holder' = Nobody /\ UNCHANGED <<executed, down>>
    BY DEF ReturnResponse, BodyComplete, Stub, Mutex, Receiving, server
  <1>2. PICK x \in Calls : x = cur[t]
    BY <1>1, Holding
  <1>3. PICK g \in Seq(Unit) : g = got[t]
    BY DEF Stub, TypeOK
  <1>4. PICK q : q = IF WholeBody(t) THEN g[1][1] ELSE 0
    OBVIOUS
  <1>5. \A y \in Calls : answer'[y] = IF y = x THEN q ELSE answer[y]
    BY <1>2, <1>3, <1>4 DEF ReturnResponse, Stub, TypeOK
  <1>6. q # 0 => q \in Calls /\ Taken(q)
    <2> SUFFICES ASSUME WholeBody(t) PROVE q \in Calls /\ Taken(q)
      BY <1>4
    <2>1. Len(g) = BodyUnits /\ IsPiece(g, HeaderUnits + 1)
      BY <1>3 DEF WholeBody, ReturnResponse, BodyComplete
    <2>2. 1 \in 1..Len(g) /\ g[1] \in Unit
      BY <2>1, ClientAssumption
    <2>3. g[1] = <<g[1][1], HeaderUnits + 1 + 1 - 1>>
      BY <2>1, <2>2 DEF IsPiece
    <2>4. HeaderUnits + 1 + 1 - 1 = HeaderUnits + 1
      BY ClientAssumption
    <2>5. g[1] = Mark(q)
      BY <1>4, <2>3, <2>4 DEF Mark
    <2>6. q \in Calls
      BY <1>4, <2>2 DEF Unit
    <2> QED BY <1>1, <1>3, <2>2, <2>5, <2>6 DEF Taken
  <1>7. \A r \in Calls : ~Taken(r)'
    BY <1>1, ClientAssumption DEF Taken
  <1>8. \A r \in Calls : Returned(r)' => Returned(r) \/ r = q
    BY <1>5 DEF Returned
  <1>9. \A r, d \in Calls, k \in Nat : Arriving(r, d, k)' <=> Arriving(r, d, k)
    BY <1>1 DEF Arriving, Mark
  <1>10. \A r \in Calls : Arrives(r)' <=> Arrives(r)
    BY <1>9 DEF Arrives
  <1>11. ASSUME NEW r \in Calls PROVE ReadOnce(r)'
    <2>1. ReadOnce(r)
      BY DEF Marks
    <2>2. Returned(r)' => Returned(r) \/ Taken(r)
      <3>1. r # 0
        BY DEF Calls
      <3> QED BY <1>6, <1>8, <3>1
    <2> QED BY <1>1, <1>7, <1>9, <1>10, <2>1, <2>2 DEF ReadOnce
  <1>12. ReturnedOnce'
    <2>1. \A y \in Calls : q # 0 => answer[y] # q
      BY <1>6 DEF Marks, ReadOnce, Returned
    <2> QED BY <1>5, <2>1 DEF Marks, ReturnedOnce
  <1> QED BY <1>11, <1>12 DEF Marks

LEMMA MarksStep == Stub /\ Once /\ Marks /\ [Next]_vars => Marks'
  <1> SUFFICES ASSUME Stub, Once, Marks, [Next]_vars PROVE Marks'
    OBVIOUS
  <1>1. ASSUME UNCHANGED <<executed, answer, down>>,
               \/ holder' = Nobody
               \/ holder' = holder /\ got' = got
               \/ \E t \in Threads : holder' = t /\ got'[t] = <<>>
        PROVE  Marks'
    BY <1>1, TakenLess, MarksLess
  <1>2. CASE Server
    <2>1. ASSUME NEW c \in Calls, ServerCloses(c) \/ ServerTake(c) PROVE Marks'
      BY <1>1, <2>1 DEF ServerCloses, ServerTake, reading, history
    <2>2. CASE ServerStop
      <3>1. \A c \in Calls : down'[c] \in {down[c], <<>>}
        BY <2>2 DEF ServerStop
      <3>2. UNCHANGED <<executed, answer, holder, got>>
        BY <2>2 DEF ServerStop, reading
      <3> QED BY <3>1, <3>2, TakenLess, MarksLess
    <2>3. CASE ServerStart
      BY <1>1, <2>3 DEF ServerStart, reading, history
    <2> QED BY <1>2, <2>1, <2>2, <2>3, MarksHandle DEF Server
  <1>3. ASSUME NEW t \in Threads, Step(t) PROVE Marks'
    <2>1. CASE Read(t)
      BY <2>1, MarksRead
    <2>2. CASE ReturnResponse(t)
      BY <2>2, MarksReturn
    <2>3. CASE ~Read(t) /\ ~ReturnResponse(t)
      <3>1. UNCHANGED <<executed, answer, down>>
        BY <1>3, <2>3 DEF Step, Check, ConnectAlready, ConnectOk, ConnectFails, SendRefused,
           SendBroken, SendRequest, ReadEof, ReadTimeout, AcceptHeader, RefuseHeader,
           ParseFails, ReturnFalse, server, history
      <3>2. CASE SendRequest(t)
        <4>1. holder' = t /\ got'[t] = <<>>
          BY <3>2 DEF SendRequest, Stub, TypeOK
        <4> QED BY <1>1, <3>1, <4>1
      <3>3. ASSUME NEW len, AcceptHeader(t, len) PROVE Marks'
        <4>1. holder' = t /\ got'[t] = <<>>
          BY <3>3 DEF AcceptHeader, HeaderComplete, Stub, Mutex, Receiving, TypeOK
        <4> QED BY <1>1, <3>1, <4>1
      <3>4. CASE ~SendRequest(t) /\ \A len : ~AcceptHeader(t, len)
        <4>1. holder' = Nobody \/ (holder' = holder /\ got' = got)
          BY <1>3, <2>3, <3>4 DEF Step, Check, ConnectAlready, ConnectOk, ConnectFails,
             SendRefused, SendBroken, ReadEof, ReadTimeout, RefuseHeader, ParseFails,
             ReturnFalse, reading
        <4> QED BY <1>1, <3>1, <4>1
      <3> QED BY <3>2, <3>3, <3>4
    <2> QED BY <2>1, <2>2, <2>3
  <1>4. CASE Disconnect \/ (\E t \in Threads : Call(t)) \/ UNCHANGED vars
    BY <1>1, <1>4 DEF Disconnect, Call, vars, server, reading, history
  <1> QED BY <1>2, <1>3, <1>4 DEF Next

(* A late response may be returned to another call, but no response is     *)
(* returned to two, whatever times out, breaks or stops                    *)
(* (tcp_client.cpp:190).                                                   *)
THEOREM RpcClientReturnedOnce == Spec => []ReturnedOnce
  <1> DEFINE I == Stub /\ Once /\ Marks
  <1>1. Init => I
    BY OnceInit, TypesInit, OwnershipInit DEF Stub, Ownership
  <1>2. I /\ [Next]_vars => I'
    BY StubStep, OnceStep, MarksStep
  <1>3. I => ReturnedOnce
    BY DEF Marks
  <1> QED BY <1>1, <1>2, <1>3, PTL DEF Spec
=============================================================================
