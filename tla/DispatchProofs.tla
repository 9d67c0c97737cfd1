---------------------------- MODULE DispatchProofs ----------------------------
(***************************************************************************)
(* Theorems about Dispatch, for any clients, services, calls and widths,   *)
(* and any number of changes.                                              *)
(*                                                                         *)
(* First the lock: no worker executes what was removed.  Then where a call *)
(* is: on the way to the server, with a worker, on the way back, or with   *)
(* nobody.  Then the messages: what a parser makes of what was serialized, *)
(* whatever a newer client has added, for every message of src/proto.      *)
(* Last, with the two together, what a call has become at each place       *)
(* (Underway), from which follows what its client is told.                 *)
(***************************************************************************)
EXTENDS Dispatch, FiniteSetTheorems, TLAPS

(* NoCallAfterRemoval is inductive with this. *)
Tables ==
    /\ services = [name \in DOMAIN services |-> services[name]]
    /\ handler = [c \in Callers |-> handler[c]]

Guarded == Tables /\ NoCallAfterRemoval

LEMMA GuardedInit == Init => Guarded
  <1> SUFFICES ASSUME Init PROVE Guarded
    OBVIOUS
  <1>1. \A c \in Callers : handler[c].at # "execute"
    BY DEF Init, Free
  <1>2. Tables
    BY DEF Init, Tables
  <1> QED BY <1>1, <1>2 DEF Guarded, NoCallAfterRemoval

(* One handler ends or begins to look up: nobody begins to execute. *)
LEMMA OneHandlerFree ==
    ASSUME Guarded, NEW c \in Callers, NEW h, h.at # "execute",
           handler' = [handler EXCEPT ![c] = h], UNCHANGED services
    PROVE  Guarded'
  <1>1. \A d \in Callers : handler'[d] = IF d = c THEN h ELSE handler[d]
    BY DEF Guarded, Tables
  <1>2. Tables'
    BY DEF Guarded, Tables
  <1>3. NoCallAfterRemoval'
    BY <1>1 DEF Guarded, NoCallAfterRemoval
  <1> QED BY <1>2, <1>3 DEF Guarded

LEMMA GuardedHandle ==
    ASSUME Guarded, NEW c \in Callers, HandleRpcRequest(c)
    PROVE  Guarded'
  <1>1. PICK h : h.at # "execute" /\ handler' = [handler EXCEPT ![c] = h]
    <2>1. PICK request \in parseRequest(Head(toServer[c])) :
              IF request.ok
              THEN handler' = [handler EXCEPT ![c] = [at |-> "look up", request |-> request.message]]
              ELSE Refuse(c)
      BY DEF HandleRpcRequest
    <2>2. CASE request.ok
      <3> DEFINE h == [at |-> "look up", request |-> request.message]
      <3>1. h.at # "execute" /\ handler' = [handler EXCEPT ![c] = h]
        BY <2>1, <2>2
      <3> QED BY <3>1
    <2>3. CASE ~request.ok
      BY <2>1, <2>3 DEF Refuse, Free
    <2> QED BY <2>2, <2>3
  <1>2. UNCHANGED services
    BY DEF HandleRpcRequest
  <1> QED BY <1>1, <1>2, OneHandlerFree

LEMMA GuardedCall ==
    ASSUME Guarded, NEW c \in Callers, CallServiceMethod(c)
    PROVE  Guarded'
  <1> DEFINE request == handler[c].request
  <1>1. PICK parsed : IF IsRegistered(request.service_name)
                         /\ request.method_name \in Methods /\ parsed.ok
                      THEN handler' = [handler EXCEPT ![c] =
                              [at |-> "execute", object |-> services[request.service_name],
                               request |-> request, message |-> parsed.message]]
                      ELSE Refuse(c)
    BY DEF CallServiceMethod
  <1>2. UNCHANGED services
    BY DEF CallServiceMethod
  <1>3. CASE /\ IsRegistered(request.service_name)
             /\ request.method_name \in Methods /\ parsed.ok
    <2> DEFINE h == [at |-> "execute", object |-> services[request.service_name],
                     request |-> request, message |-> parsed.message]
    <2>1. \A d \in Callers : handler'[d] = IF d = c THEN h ELSE handler[d]
      BY <1>1, <1>3 DEF Guarded, Tables
    <2>2. h.object = services[h.request.service_name]
      OBVIOUS
    <2>3. NoCallAfterRemoval'
      BY <1>2, <2>1, <2>2 DEF Guarded, NoCallAfterRemoval
    <2>4. Tables'
      BY <1>1, <1>2, <1>3 DEF Guarded, Tables
    <2> QED BY <2>3, <2>4 DEF Guarded
  <1>4. CASE ~(/\ IsRegistered(request.service_name)
               /\ request.method_name \in Methods /\ parsed.ok)
    <2>1. handler' = [handler EXCEPT ![c] = Free]
      BY <1>1, <1>4 DEF Refuse
    <2>2. Free.at # "execute"
      BY DEF Free
    <2> QED BY <1>2, <2>1, <2>2, OneHandlerFree
  <1> QED BY <1>3, <1>4

LEMMA GuardedExecute ==
    ASSUME Guarded, NEW c \in Callers, Execute(c)
    PROVE  Guarded'
  <1>1. handler' = [handler EXCEPT ![c] = Free] /\ UNCHANGED services
    BY DEF Execute
  <1>2. Free.at # "execute"
    BY DEF Free
  <1> QED BY <1>1, <1>2, OneHandlerFree

(* A service is added, replaced or removed when nobody executes one. *)
LEMMA GuardedChange ==
    ASSUME Guarded, NEW name, NEW object, Change(name, object)
    PROVE  Guarded'
  <1>1. \A c \in Callers : handler'[c].at # "execute"
    BY DEF Change, Readers
  <1>2. Tables'
    BY DEF Change, Guarded, Tables
  <1> QED BY <1>1, <1>2 DEF Guarded, NoCallAfterRemoval

LEMMA GuardedStep == Guarded /\ [Next]_vars => Guarded'
  <1> SUFFICES ASSUME Guarded, [Next]_vars PROVE Guarded'
    OBVIOUS
  <1>1. CASE UNCHANGED <<services, handler>>
    BY <1>1 DEF Guarded, Tables, NoCallAfterRemoval
  <1>2. ASSUME NEW c \in Callers, Answer(c) PROVE Guarded'
    <2>1. ReceiveResponse(c) => UNCHANGED <<services, handler>>
      BY DEF ReceiveResponse
    <2> QED BY <1>1, <1>2, <2>1, GuardedHandle, GuardedCall, GuardedExecute DEF Answer
  <1>3. ASSUME NEW c \in Callers, NEW k \in DOMAIN Calls, NEW id \in Ids, SendRequest(c, k, id)
        PROVE  Guarded'
    BY <1>1, <1>3 DEF SendRequest
  <1>4. ASSUME NEW o \in Objects, RegisterService(o) PROVE Guarded'
    BY <1>4, GuardedChange DEF RegisterService
  <1>5. ASSUME NEW name \in DOMAIN services, UnregisterService(name) PROVE Guarded'
    BY <1>5, GuardedChange DEF UnregisterService
  <1>6. CASE UNCHANGED vars
    BY <1>1, <1>6 DEF vars
  <1> QED BY <1>2, <1>3, <1>4, <1>5, <1>6 DEF Next

(* No worker executes a service object after the unregisterService that    *)
(* removed it, or the registerService that replaced it, has returned: the  *)
(* shared lock of callServiceMethod (rpc_server.cpp:324-351).              *)
THEOREM DispatchNoCallAfterRemoval == Spec => []NoCallAfterRemoval
  <1>1. Guarded => NoCallAfterRemoval
    BY DEF Guarded
  <1> QED BY <1>1, GuardedInit, GuardedStep, PTL DEF Spec

-----------------------------------------------------------------------------
(* One call of a client at a time is somewhere: on the way to the server,  *)
(* with the worker, on the way back, or with nobody.                       *)

Single(q) == \E m : q = <<m>>

LEMMA SingleOne ==
    ASSUME NEW q, Single(q)
    PROVE  Len(q) = 1 /\ Tail(q) = <<>> /\ q # <<>>
  <1>1. PICK m : q = <<m>>
    BY DEF Single
  <1> QED BY <1>1

Nowhere(c) == toServer[c] = <<>> /\ toClient[c] = <<>> /\ handler[c] = Free
OnTheWay(c) ==
    /\ caller[c].at = "waiting" /\ handler[c] = Free
    /\ \/ Single(toServer[c]) /\ toClient[c] = <<>>
       \/ toServer[c] = <<>> /\ Single(toClient[c])
AtWork(c) ==
    /\ caller[c].at = "waiting" /\ handler[c].at \in {"look up", "execute"}
    /\ toServer[c] = <<>> /\ toClient[c] = <<>>

Somewhere(c) ==
    /\ caller[c].at \in {"idle", "waiting", "returned"}
    /\ Nowhere(c) \/ OnTheWay(c) \/ AtWork(c)

Objectual == \A name \in DOMAIN services : services[name] \in Objects \cup {Unregistered}

Maps ==
    /\ services = [name \in DOMAIN services |-> services[name]]
    /\ caller = [c \in Callers |-> caller[c]]
    /\ handler = [c \in Callers |-> handler[c]]
    /\ toServer = [c \in Callers |-> toServer[c]]
    /\ toClient = [c \in Callers |-> toClient[c]]

Orderly == Maps /\ Objectual /\ \A c \in Callers : Somewhere(c)

LEMMA OrderlyInit == Init => Orderly
  <1> SUFFICES ASSUME Init PROVE Orderly
    OBVIOUS
  <1>1. Maps /\ Objectual
    BY DEF Init, Maps, Objectual
  <1>2. ASSUME NEW c \in Callers PROVE Somewhere(c)
    BY DEF Init, Somewhere, Nowhere, Idle
  <1> QED BY <1>1, <1>2 DEF Orderly

(* Only what belongs to client c changes. *)
LEMMA OneConversation ==
    ASSUME Orderly, NEW c \in Callers, UNCHANGED services, Maps', Somewhere(c)',
           \A d \in Callers \ {c} : /\ caller'[d] = caller[d] /\ handler'[d] = handler[d]
                                    /\ toServer'[d] = toServer[d] /\ toClient'[d] = toClient[d]
    PROVE  Orderly'
  <1>1. Objectual'
    BY DEF Orderly, Objectual
  <1>2. ASSUME NEW d \in Callers \ {c} PROVE Somewhere(d)'
    <2>1. /\ caller'[d] = caller[d] /\ handler'[d] = handler[d]
          /\ toServer'[d] = toServer[d] /\ toClient'[d] = toClient[d]
      OBVIOUS
    <2>2. Somewhere(d)
      BY DEF Orderly
    <2>3. Nowhere(d) => Nowhere(d)'
      BY <2>1 DEF Nowhere, Free
    <2>4. OnTheWay(d) => OnTheWay(d)'
      BY <2>1 DEF OnTheWay, Free
    <2>5. AtWork(d) => AtWork(d)'
      BY <2>1 DEF AtWork
    <2> QED BY <2>1, <2>2, <2>3, <2>4, <2>5 DEF Somewhere
  <1> QED BY <1>1, <1>2 DEF Orderly

(* An encoded message is one frame, or none if it is empty. *)
LEMMA OneFrame ==
    ASSUME NEW data PROVE encode(data) = <<>> \/ Single(encode(data))
  <1>1. CASE data = <<>>
    BY <1>1, Zenon DEF encode
  <1>2. CASE data # <<>>
    BY <1>2, Zenon DEF encode, Single
  <1> QED BY <1>1, <1>2

LEMMA OrderlySend ==
    ASSUME Orderly, NEW c \in Callers, NEW k, NEW id, SendRequest(c, k, id)
    PROVE  Orderly'
  <1>1. Nowhere(c)
    BY DEF Orderly, Somewhere, OnTheWay, AtWork, SendRequest
  <1>2. PICK r : r.at = "waiting" /\ caller' = [caller EXCEPT ![c] = r]
    <2>1. PICK r : /\ r = [at |-> "waiting", call |-> k,
                           missing |-> ~IsRegistered(Calls[k].service)]
                   /\ caller' = [caller EXCEPT ![c] = r]
      BY DEF SendRequest
    <2>2. r.at = "waiting"
      BY <2>1
    <2> QED BY <2>1, <2>2
  <1>3. PICK m : m = Requests[k][id]
    OBVIOUS
  <1>4. PICK f : f = encode(m) /\ toServer' = [toServer EXCEPT ![c] = toServer[c] \o f]
    BY <1>3 DEF SendRequest
  <1>5. f = <<>> \/ Single(f)
    BY <1>4, OneFrame
  <1>6. toServer[c] = <<>> /\ toServer[c] \o f = f
    BY <1>1, <1>5 DEF Nowhere, Single
  <1>7. /\ caller'[c] = r /\ toServer'[c] = f /\ Maps'
        /\ \A d \in Callers \ {c} : caller'[d] = caller[d] /\ toServer'[d] = toServer[d]
    BY ZenonT(60), <1>2, <1>4, <1>6 DEF Orderly, Maps, SendRequest
  <1>8. Somewhere(c)'
    BY <1>1, <1>2, <1>5, <1>7 DEF Somewhere, Nowhere, OnTheWay, SendRequest
  <1> QED BY <1>7, <1>8, OneConversation DEF SendRequest

LEMMA OrderlyReceive ==
    ASSUME Orderly, NEW c \in Callers, ReceiveResponse(c)
    PROVE  Orderly'
  <1>1. PICK r : r.at = "returned" /\ caller' = [caller EXCEPT ![c] = r]
    <2>1. PICK response, got :
             caller' = [caller EXCEPT ![c] =
                           [at |-> "returned", call |-> caller[c].call,
                            missing |-> caller[c].missing,
                            success |-> response.ok /\ response.message.success, got |-> got]]
      BY DEF ReceiveResponse
    <2>2. PICK r : r = [at |-> "returned", call |-> caller[c].call,
                        missing |-> caller[c].missing,
                        success |-> response.ok /\ response.message.success, got |-> got]
      OBVIOUS
    <2>3. r.at = "returned"
      BY <2>2
    <2> QED BY <2>1, <2>2, <2>3
  <1>2. toServer[c] = <<>> /\ Single(toClient[c]) /\ handler[c] = Free
    BY DEF Orderly, Somewhere, Nowhere, OnTheWay, AtWork, ReceiveResponse
  <1>3. toClient' = [toClient EXCEPT ![c] = Tail(toClient[c])]
    BY DEF ReceiveResponse
  <1>4. Tail(toClient[c]) = <<>>
    BY <1>2, SingleOne
  <1>5. /\ caller'[c] = r /\ toClient'[c] = <<>> /\ Maps'
        /\ \A d \in Callers \ {c} : caller'[d] = caller[d] /\ toClient'[d] = toClient[d]
    BY <1>1, <1>3, <1>4 DEF Orderly, Maps, ReceiveResponse
  <1>6. Somewhere(c)'
    BY <1>1, <1>2, <1>5 DEF Somewhere, Nowhere, ReceiveResponse
  <1> QED BY <1>5, <1>6, OneConversation DEF ReceiveResponse

(* The call of client c is with a worker, and of all that is under way     *)
(* nothing else changes than what goes back.                               *)
InHand(c) ==
    /\ caller[c].at = "waiting" /\ toClient[c] = <<>> /\ toServer'[c] = <<>>
    /\ toServer' = [d \in Callers |-> toServer'[d]]
    /\ \A d \in Callers \ {c} : toServer'[d] = toServer[d]
    /\ UNCHANGED <<services, caller>>

(* A worker is done with a request: nothing, or one frame, goes back. *)
LEMMA OrderlyAnswered ==
    ASSUME Orderly, NEW c \in Callers, InHand(c), NEW response, sendResponse(c, response),
           handler' = [handler EXCEPT ![c] = Free]
    PROVE  Orderly'
  <1>1. PICK data : toClient' = [toClient EXCEPT ![c] = toClient[c] \o encode(data)]
    BY DEF sendResponse
  <1>2. PICK f : f = encode(data)
    OBVIOUS
  <1>3. f = <<>> \/ Single(f)
    BY <1>2, OneFrame
  <1>4. toClient[c] \o f = f
    BY <1>3 DEF InHand, Single
  <1>5. toClient' = [toClient EXCEPT ![c] = f]
    BY <1>1, <1>2, <1>4
  <1>6. /\ toClient'[c] = f /\ handler'[c] = Free /\ Maps'
        /\ \A d \in Callers \ {c} : toClient'[d] = toClient[d] /\ handler'[d] = handler[d]
    BY <1>5 DEF Orderly, Maps, InHand
  <1>7. Somewhere(c)'
    BY <1>3, <1>6 DEF Somewhere, Nowhere, OnTheWay, InHand
  <1> QED BY <1>6, <1>7, OneConversation DEF InHand

(* A worker goes on with its request. *)
LEMMA OrderlyWork ==
    ASSUME Orderly, NEW c \in Callers, InHand(c), UNCHANGED toClient,
           NEW h, h.at = "look up" \/ h.at = "execute", handler' = [handler EXCEPT ![c] = h]
    PROVE  Orderly'
  <1>1. /\ handler'[c] = h /\ Maps'
        /\ \A d \in Callers \ {c} : handler'[d] = handler[d]
    BY DEF Orderly, Maps, InHand
  <1>2. Somewhere(c)'
    BY <1>1 DEF Somewhere, AtWork, InHand
  <1> QED BY <1>1, <1>2, OneConversation DEF InHand

LEMMA OrderlyHandle ==
    ASSUME Orderly, NEW c \in Callers, HandleRpcRequest(c)
    PROVE  Orderly'
  <1>1. toServer[c] # <<>>
    BY DEF HandleRpcRequest
  <1>2. OnTheWay(c)
    BY <1>1 DEF Orderly, Somewhere, Nowhere, AtWork
  <1>3. Single(toServer[c]) /\ toClient[c] = <<>>
    BY <1>1, <1>2 DEF OnTheWay
  <1>4. toServer' = [toServer EXCEPT ![c] = Tail(toServer[c])] /\ Tail(toServer[c]) = <<>>
    BY <1>3, SingleOne DEF HandleRpcRequest
  <1>5. InHand(c)
    BY <1>2, <1>3, <1>4 DEF Orderly, Maps, InHand, OnTheWay, HandleRpcRequest
  <1>6. PICK request \in parseRequest(Head(toServer[c])) :
          IF request.ok
          THEN /\ handler' = [handler EXCEPT ![c] = [at |-> "look up", request |-> request.message]]
               /\ UNCHANGED toClient
          ELSE Refuse(c)
    BY DEF HandleRpcRequest
  <1>7. CASE request.ok
    <2>1. PICK h : h = [at |-> "look up", request |-> request.message]
      OBVIOUS
    <2>2. h.at = "look up" /\ handler' = [handler EXCEPT ![c] = h] /\ UNCHANGED toClient
      BY <1>6, <1>7, <2>1
    <2> QED BY <1>5, <2>2, OrderlyWork
  <1>8. CASE ~request.ok
    BY <1>5, <1>6, <1>8, OrderlyAnswered DEF Refuse
  <1> QED BY <1>7, <1>8

(* A request at work is alone. *)
LEMMA WorkInHand ==
    ASSUME Orderly, NEW c \in Callers, handler[c].at \in {"look up", "execute"},
           UNCHANGED <<services, caller, toServer>>
    PROVE  InHand(c)
  <1>1. Somewhere(c)
    BY DEF Orderly
  <1>2. Free.at = "free"
    BY DEF Free
  <1>3. AtWork(c)
    BY <1>1, <1>2 DEF Somewhere, Nowhere, OnTheWay
  <1> QED BY <1>3 DEF AtWork, Orderly, Maps, InHand

LEMMA OrderlyCall ==
    ASSUME Orderly, NEW c \in Callers, CallServiceMethod(c)
    PROVE  Orderly'
  <1> DEFINE request == handler[c].request
  <1>1. InHand(c)
    BY WorkInHand DEF CallServiceMethod
  <1>2. PICK parsed : IF IsRegistered(request.service_name)
                         /\ request.method_name \in Methods /\ parsed.ok
                      THEN /\ handler' = [handler EXCEPT ![c] =
                                [at |-> "execute", object |-> services[request.service_name],
                                 request |-> request, message |-> parsed.message]]
                           /\ UNCHANGED toClient
                      ELSE Refuse(c)
    BY DEF CallServiceMethod
  <1>3. CASE /\ IsRegistered(request.service_name)
             /\ request.method_name \in Methods /\ parsed.ok
    <2>1. PICK h : h = [at |-> "execute", object |-> services[request.service_name],
                        request |-> request, message |-> parsed.message]
      OBVIOUS
    <2>2. h.at = "execute" /\ handler' = [handler EXCEPT ![c] = h] /\ UNCHANGED toClient
      BY <1>2, <1>3, <2>1
    <2> QED BY <1>1, <2>2, OrderlyWork
  <1>4. CASE ~(/\ IsRegistered(request.service_name)
               /\ request.method_name \in Methods /\ parsed.ok)
    BY <1>1, <1>2, <1>4, OrderlyAnswered DEF Refuse
  <1> QED BY <1>3, <1>4

LEMMA OrderlyExecute ==
    ASSUME Orderly, NEW c \in Callers, Execute(c)
    PROVE  Orderly'
  <1>1. InHand(c)
    BY WorkInHand DEF Execute
  <1>2. PICK response : sendResponse(c, response)
    BY DEF Execute
  <1> QED BY <1>1, <1>2, OrderlyAnswered DEF Execute

(* A change of the services leaves every call where it is. *)
LEMMA OrderlyChange ==
    ASSUME Orderly, NEW name, NEW object \in Objects \cup {Unregistered}, Change(name, object)
    PROVE  Orderly'
  <1>1. /\ services' = [services EXCEPT ![name] = object]
        /\ UNCHANGED <<handler, toServer, toClient>>
    BY DEF Change
  <1>2. Objectual' /\ services' = [n \in DOMAIN services' |-> services'[n]]
    BY <1>1 DEF Orderly, Maps, Objectual
  <1>3. caller' = [c \in Callers |-> caller'[c]]
    BY DEF Change
  <1>4. ASSUME NEW c \in Callers PROVE caller'[c].at = caller[c].at
    <2>1. caller'[c] = IF /\ caller[c].at = "waiting" /\ object = Unregistered
                          /\ Calls[caller[c].call].service = name
                       THEN [caller[c] EXCEPT !.missing = TRUE] ELSE caller[c]
      BY DEF Change
    <2> QED BY <2>1
  <1>5. ASSUME NEW c \in Callers PROVE Somewhere(c)'
    <2>1. Somewhere(c)
      BY DEF Orderly
    <2>2. Nowhere(c) => Nowhere(c)'
      BY <1>1 DEF Nowhere, Free
    <2>3. OnTheWay(c) => OnTheWay(c)'
      BY <1>1, <1>4 DEF OnTheWay, Free
    <2>4. AtWork(c) => AtWork(c)'
      BY <1>1, <1>4 DEF AtWork
    <2> QED BY <1>4, <2>1, <2>2, <2>3, <2>4 DEF Somewhere
  <1>6. Maps'
    BY <1>1, <1>2, <1>3 DEF Orderly, Maps
  <1> QED BY <1>2, <1>5, <1>6 DEF Orderly

LEMMA OrderlyStep == Orderly /\ [Next]_vars => Orderly'
  <1> SUFFICES ASSUME Orderly, [Next]_vars PROVE Orderly'
    OBVIOUS
  <1>1. ASSUME NEW c \in Callers, Answer(c) PROVE Orderly'
    BY <1>1, OrderlyHandle, OrderlyCall, OrderlyExecute, OrderlyReceive DEF Answer
  <1>2. ASSUME NEW c \in Callers, NEW k \in DOMAIN Calls, NEW id \in Ids, SendRequest(c, k, id)
        PROVE  Orderly'
    BY <1>2, OrderlySend
  <1>3. ASSUME NEW o \in Objects, RegisterService(o) PROVE Orderly'
    BY <1>3, OrderlyChange DEF RegisterService
  <1>4. ASSUME NEW name \in DOMAIN services, UnregisterService(name) PROVE Orderly'
    BY <1>4, OrderlyChange DEF UnregisterService
  <1>5. CASE UNCHANGED vars
    <2>1. ASSUME NEW c \in Callers PROVE Somewhere(c)'
      BY <1>5 DEF vars, Orderly, Somewhere, Nowhere, OnTheWay, AtWork, Free
    <2> QED BY <1>5, <2>1 DEF vars, Orderly, Maps, Objectual
  <1> QED BY <1>1, <1>2, <1>3, <1>4, <1>5 DEF Next

(* A client that does not wait has nothing under way and no worker, and    *)
(* never are there two messages for it: no answer can be taken for another *)
(* call's (handleRpcRequest sends one response per request, on the catch   *)
(* path too, rpc_server.cpp:276-314).                                      *)
THEOREM DispatchType == Spec => []TypeOK
  <1>1. Orderly => TypeOK
    <2> SUFFICES ASSUME Orderly PROVE TypeOK
      OBVIOUS
    <2>1. ASSUME NEW c \in Callers
          PROVE  /\ caller[c].at \in {"idle", "waiting", "returned"}
                 /\ handler[c].at \in {"free", "look up", "execute"}
                 /\ caller[c].at # "waiting" => handler[c] = Free /\ toServer[c] = <<>>
                 /\ Len(toServer[c]) + Len(toClient[c]) <= 1
      <3>1. Somewhere(c)
        BY DEF Orderly
      <3>2. Len(<<>>) = 0
        OBVIOUS
      <3>3. CASE Nowhere(c)
        BY <3>1, <3>3, <3>2 DEF Somewhere, Nowhere, Free
      <3>4. CASE OnTheWay(c)
        <4>1. \/ Len(toServer[c]) = 1 /\ Len(toClient[c]) = 0
              \/ Len(toServer[c]) = 0 /\ Len(toClient[c]) = 1
          BY <3>4, <3>2, SingleOne DEF OnTheWay
        <4>2. Len(toServer[c]) + Len(toClient[c]) <= 1
          <5>1. Len(toServer[c]) + Len(toClient[c]) \in {1 + 0, 0 + 1}
            BY <4>1, Zenon
          <5>2. 1 + 0 <= 1 /\ 0 + 1 <= 1
            OBVIOUS
          <5> QED BY <5>1, <5>2, Zenon
        <4>3. handler[c].at = "free" /\ caller[c].at = "waiting"
          BY <3>4 DEF OnTheWay, Free
        <4> QED BY ONLY <4>2, <4>3
      <3>5. CASE AtWork(c)
        <4>1. Len(toServer[c]) + Len(toClient[c]) <= 1
          <5>1. Len(toServer[c]) + Len(toClient[c]) = 0 + 0
            BY <3>5, <3>2, Zenon DEF AtWork
          <5>2. 0 + 0 <= 1
            OBVIOUS
          <5> QED BY <5>1, <5>2, Zenon
        <4> QED BY ONLY <3>5, <4>1 DEF AtWork
      <3> QED BY <3>1, <3>3, <3>4, <3>5 DEF Somewhere
    <2> QED BY <2>1 DEF Orderly, Objectual, TypeOK
  <1> QED BY <1>1, OrderlyInit, OrderlyStep, PTL DEF Spec

-----------------------------------------------------------------------------
(* Numbers and sequences *)

LEMMA LeastNat ==
    ASSUME NEW S \in SUBSET Nat, S # {}
    PROVE  \E m \in S : \A k \in S : m <= k
  <1> DEFINE Below == {0 .. k : k \in S}
  <1>1. Below \subseteq FiniteSubsetsOf(Nat)
    <2> SUFFICES ASSUME NEW k \in S PROVE 0 .. k \in FiniteSubsetsOf(Nat)
      OBVIOUS
    <2>1. IsFiniteSet(0 .. k)
      BY FS_Interval
    <2>2. 0 .. k \in SUBSET Nat
      OBVIOUS
    <2> QED
      BY <2>1, <2>2 DEF FiniteSubsetsOf
  <1>2. Below # {}
    OBVIOUS
  <1>3. IsWellFoundedOn(StrictSubsetOrdering(Nat), FiniteSubsetsOf(Nat))
    BY FS_StrictSubsetOrderingWellFounded
  <1> HIDE DEF Below
  <1>4. PICK T \in Below : \A U \in Below : ~(<<U, T>> \in StrictSubsetOrdering(Nat))
    BY <1>1, <1>2, <1>3, WFMin
  <1>5. PICK m \in S : T = 0 .. m
    BY <1>4 DEF Below
  <1>6. SUFFICES ASSUME NEW k \in S, k < m PROVE FALSE
    BY <1>5
  <1>7. 0 .. k \in Below /\ 0 .. k \in SUBSET Nat /\ T \in SUBSET Nat
    BY <1>5 DEF Below
  <1>8. 0 .. k \subseteq 0 .. m /\ 0 .. k # 0 .. m
    <2>1. m \in 0 .. m /\ m \notin 0 .. k
      BY <1>6
    <2> QED
      BY <2>1, <1>6
  <1>9. <<0 .. k, T>> \in StrictSubsetOrdering(Nat)
    BY <1>5, <1>7, <1>8 DEF StrictSubsetOrdering
  <1> QED
    BY <1>4, <1>7, <1>9

(* Induction over 0..n. *)
LEMMA Induction ==
    ASSUME NEW n \in Nat, NEW S, 0 \in S, \A k \in 0 .. n - 1 : k \in S => k + 1 \in S
    PROVE  \A k \in 0..n : k \in S
  <1> SUFFICES ASSUME (0..n) \ S # {} PROVE FALSE
    OBVIOUS
  <1>1. PICK m \in (0..n) \ S : \A k \in (0..n) \ S : m <= k
    <2>1. (0..n) \ S \in SUBSET Nat
      OBVIOUS
    <2> QED
      BY <2>1, LeastNat
  <1>2. m # 0
    BY <1>1
  <1>3. m - 1 \in 0 .. n - 1 /\ m - 1 \in 0 .. n /\ (m - 1) + 1 = m
    BY <1>1, <1>2
  <1>4. m - 1 \notin S
    BY <1>1, <1>3
  <1> QED
    BY <1>1, <1>3, <1>4

LEMMA MaxIn ==
    ASSUME NEW n \in Nat, NEW S \in SUBSET (1..n), S # {}
    PROVE  Max(S) \in S
  <1>1. {n - x : x \in S} \in SUBSET Nat /\ {n - x : x \in S} # {}
    <2>1. ASSUME NEW x \in S PROVE n - x \in Nat
      OBVIOUS
    <2> QED
      BY <2>1
  <1>2. PICK m \in {n - x : x \in S} : \A k \in {n - x : x \in S} : m <= k
    BY <1>1, LeastNat
  <1>3. PICK x \in S : m = n - x
    BY <1>2
  <1>4. ASSUME NEW y \in S PROVE x >= y
    <2>1. m <= n - y
      BY <1>2
    <2> QED
      BY <1>3, <2>1
  <1>5. \E z \in S : \A y \in S : z >= y
    BY <1>4
  <1> QED
    BY <1>5, Zenon DEF Max

(* What ElementsAt takes: the elements at the positions in I, and no other. *)
IsTaking(h, n, s, I) ==
    h = [k \in 0..n |-> IF k = 0 THEN <<>>
                        ELSE IF k \in I THEN Append(h[k - 1], s[k])
                        ELSE h[k - 1]]

LEMMA TakingExists ==
    ASSUME NEW n \in Nat, NEW s, NEW I
    PROVE  \E h : IsTaking(h, n, s, I)
  <1> DEFINE S == {m \in 0..n : \E h : IsTaking(h, m, s, I)}
  <1>1. 0 \in S
    <2>1. PICK h : h = [k \in 0..0 |-> <<>>]
      OBVIOUS
    <2>2. ASSUME NEW k \in 0..0
          PROVE  h[k] = IF k = 0 THEN <<>> ELSE IF k \in I THEN Append(h[k - 1], s[k])
                        ELSE h[k - 1]
      BY <2>1
    <2> QED
      BY <2>1, <2>2 DEF IsTaking
  <1>2. ASSUME NEW m \in 0 .. n - 1, m \in S PROVE m + 1 \in S
    <2>1. PICK g : IsTaking(g, m, s, I)
      BY <1>2
    <2>2. g = [k \in 0..m |-> IF k = 0 THEN <<>>
                              ELSE IF k \in I THEN Append(g[k - 1], s[k])
                              ELSE g[k - 1]]
      BY <2>1 DEF IsTaking
    <2>3. PICK h : h = [k \in 0 .. m + 1 |->
                          IF k = m + 1
                          THEN IF k \in I THEN Append(g[m], s[k]) ELSE g[m]
                          ELSE g[k]]
      OBVIOUS
    <2>4. ASSUME NEW k \in 0 .. m + 1
          PROVE  h[k] = IF k = 0 THEN <<>> ELSE IF k \in I THEN Append(h[k - 1], s[k])
                        ELSE h[k - 1]
      <3>1. CASE k = m + 1
        <4>1. h[k - 1] = g[m] /\ k # 0
          BY <2>3, <3>1
        <4> QED
          BY <2>3, <3>1, <4>1
      <3>2. CASE k = 0
        BY <2>2, <2>3, <3>2
      <3>3. CASE k # 0 /\ k # m + 1
        <4>1. k \in 0..m /\ k - 1 \in 0..m /\ k - 1 \in 0 .. m + 1 /\ k - 1 # m + 1
          BY <3>3
        <4>2. h[k] = g[k] /\ h[k - 1] = g[k - 1]
          BY <2>3, <4>1, <3>3
        <4>3. g[k] = IF k \in I THEN Append(g[k - 1], s[k]) ELSE g[k - 1]
          BY <2>2, <4>1, <3>3
        <4> QED
          BY <4>2, <4>3, <3>3
      <3> QED
        BY <3>1, <3>2, <3>3
    <2>5. IsTaking(h, m + 1, s, I)
      BY <2>3, <2>4 DEF IsTaking
    <2> QED
      BY <2>5
  <1> HIDE DEF S
  <1>3. \A m \in 0..n : m \in S
    BY <1>1, <1>2, Induction
  <1> QED
    BY <1>3 DEF S

(* t has the elements of the first m of s that are at a position in I. *)
Taken(t, A, s, I, m) ==
    /\ t \in Seq(A)
    /\ \A k \in 1..Len(t) : \E i \in 1..m : i \in I /\ t[k] = s[i]
    /\ \A i \in 1..m : i \in I => \E k \in 1..Len(t) : t[k] = s[i]

LEMMA ElementsTaken ==
    ASSUME NEW A, NEW s \in Seq(A), NEW I
    PROVE  Taken(ElementsAt(s, I), A, s, I, Len(s))
  <1>1. PICK n \in Nat : n = Len(s) /\ DOMAIN s = 1..n
    OBVIOUS
  <1> DEFINE h == CHOOSE x : IsTaking(x, n, s, I)
  <1>2. IsTaking(h, n, s, I)
    BY TakingExists
  <1>3. ElementsAt(s, I) = h[n]
    BY <1>1 DEF ElementsAt, IsTaking
  <1> HIDE DEF h
  <1>4. h = [k \in 0..n |-> IF k = 0 THEN <<>>
                            ELSE IF k \in I THEN Append(h[k - 1], s[k])
                            ELSE h[k - 1]]
    BY <1>2 DEF IsTaking
  <1> DEFINE S == {m \in 0..n : Taken(h[m], A, s, I, m)}
  <1>5. 0 \in S
    <2>1. h[0] = <<>>
      BY <1>4
    <2>2. <<>> \in Seq(A) /\ Len(<<>>) = 0 /\ DOMAIN <<>> = {}
      OBVIOUS
    <2>3. Taken(<<>>, A, s, I, 0)
      BY <2>2 DEF Taken
    <2> QED
      BY <2>1, <2>3
  <1>6. ASSUME NEW m \in 0 .. n - 1, m \in S PROVE m + 1 \in S
    <2>1. m + 1 \in 0..n /\ m + 1 \in 1..n /\ m + 1 # 0 /\ (m + 1) - 1 = m
      OBVIOUS
    <2>2. PICK t : t = h[m]
      OBVIOUS
    <2>3. PICK e \in A : e = s[m + 1]
      BY <1>1, <2>1
    <2>4. h[m + 1] = IF m + 1 \in I THEN Append(t, e) ELSE t
      BY <1>4, <2>1, <2>2, <2>3
    <2>5. /\ t \in Seq(A)
          /\ \A k \in 1..Len(t) : \E i \in 1..m : i \in I /\ t[k] = s[i]
          /\ \A i \in 1..m : i \in I => \E k \in 1..Len(t) : t[k] = s[i]
      BY <1>6, <2>2 DEF Taken
    <2> HIDE DEF S
    <2>6. ASSUME m + 1 \notin I PROVE Taken(t, A, s, I, m + 1)
      <3>1. \A i \in 1 .. m + 1 : i \in I => i \in 1..m
        BY <2>6
      <3>2. \A k \in 1..Len(t) : \E i \in 1 .. m + 1 : i \in I /\ t[k] = s[i]
        <4> SUFFICES ASSUME NEW k \in 1..Len(t)
                     PROVE  \E i \in 1 .. m + 1 : i \in I /\ t[k] = s[i]
          OBVIOUS
        <4>1. PICK i \in 1..m : i \in I /\ t[k] = s[i]
          BY <2>5
        <4>2. i \in 1 .. m + 1
          OBVIOUS
        <4> QED
          BY <4>1, <4>2
      <3>3. \A i \in 1 .. m + 1 : i \in I => \E k \in 1..Len(t) : t[k] = s[i]
        BY <2>5, <3>1
      <3> QED
        BY <2>5, <3>2, <3>3 DEF Taken
    <2>7. ASSUME m + 1 \in I PROVE Taken(Append(t, e), A, s, I, m + 1)
      <3>1. PICK l \in Nat : l = Len(t) /\ DOMAIN t = 1..l
        BY <2>5
      <3>2. PICK a : a = Append(t, e)
        OBVIOUS
      <3>3. /\ a \in Seq(A) /\ Len(a) = l + 1 /\ DOMAIN a = 1 .. l + 1
            /\ \A k \in 1 .. l + 1 : a[k] = IF k = l + 1 THEN e ELSE t[k]
        BY <2>5, <3>1, <3>2
      <3>4. ASSUME NEW k \in 1 .. l + 1 PROVE \E i \in 1 .. m + 1 : i \in I /\ a[k] = s[i]
        <4>1. CASE k = l + 1
          BY <2>3, <2>7, <3>3, <4>1
        <4>2. CASE k # l + 1
          <5>1. k \in 1..l /\ a[k] = t[k]
            BY <3>3, <4>2
          <5>2. PICK i \in 1..m : i \in I /\ t[k] = s[i]
            BY <2>5, <3>1, <5>1
          <5> QED
            BY <5>1, <5>2
        <4> QED
          BY <4>1, <4>2
      <3>5. ASSUME NEW i \in 1 .. m + 1, i \in I PROVE \E k \in 1 .. l + 1 : a[k] = s[i]
        <4>1. CASE i = m + 1
          BY <2>3, <3>3, <4>1
        <4>2. CASE i # m + 1
          <5>1. i \in 1..m
            BY <4>2
          <5>2. PICK k \in 1..l : t[k] = s[i]
            BY <2>5, <3>1, <3>5, <5>1
          <5>3. k \in 1 .. l + 1 /\ k # l + 1
            OBVIOUS
          <5> QED
            BY <3>3, <5>2, <5>3
        <4> QED
          BY <4>1, <4>2
      <3> QED
        BY <3>2, <3>3, <3>4, <3>5 DEF Taken
    <2> QED
      BY <2>1, <2>4, <2>6, <2>7 DEF S
  <1> HIDE DEF S
  <1>7. \A m \in 0..n : m \in S
    BY <1>5, <1>6, Induction
  <1>8. n \in 0..n
    OBVIOUS
  <1> QED
    BY <1>1, <1>3, <1>7, <1>8 DEF S

(* Sequences of anything *)
Listed(s) == s \in Seq(Range(s))

LEMMA ListedIn ==
    ASSUME NEW A, NEW s \in Seq(A)
    PROVE  Listed(s)
  <1>1. \A k \in 1..Len(s) : s[k] \in Range(s)
    BY DEF Range
  <1> QED
    BY <1>1 DEF Listed

Joined(u, s, t) ==
    /\ Listed(u)
    /\ \A k \in DOMAIN u : \/ \E i \in DOMAIN s : u[k] = s[i]
                           \/ \E i \in DOMAIN t : u[k] = t[i]
    /\ \A i \in DOMAIN s : \E k \in DOMAIN u : u[k] = s[i]
    /\ s = <<>> => u = t
    /\ t = <<>> => u = s

LEMMA ListedJoined ==
    ASSUME NEW s, Listed(s), NEW t, Listed(t)
    PROVE  Joined(s \o t, s, t)
  <1>1. PICK A : A = Range(s) \cup Range(t)
    OBVIOUS
  <1>2. s \in Seq(A) /\ t \in Seq(A)
    BY <1>1 DEF Listed
  <1>3. PICK m \in Nat, n \in Nat : m = Len(s) /\ n = Len(t) /\ DOMAIN s = 1..m /\ DOMAIN t = 1..n
    BY <1>2
  <1>4. PICK u : u = s \o t
    OBVIOUS
  <1>5. /\ u \in Seq(A) /\ DOMAIN u = 1 .. m + n
        /\ \A k \in 1 .. m + n : u[k] = IF k <= m THEN s[k] ELSE t[k - m]
    BY <1>2, <1>3, <1>4
  <1>6. ASSUME NEW k \in 1 .. m + n
        PROVE  (\E i \in 1..m : u[k] = s[i]) \/ (\E i \in 1..n : u[k] = t[i])
    <2>1. CASE k <= m
      BY <1>5, <2>1
    <2>2. CASE ~(k <= m)
      <3>1. k - m \in 1..n /\ u[k] = t[k - m]
        BY <1>5, <2>2
      <3> QED
        BY <3>1
    <2> QED
      BY <2>1, <2>2
  <1>7. ASSUME NEW i \in 1..m PROVE \E k \in 1 .. m + n : u[k] = s[i]
    <2>1. i \in 1 .. m + n /\ i <= m
      OBVIOUS
    <2> QED
      BY <1>5, <2>1
  <1>8. (s = <<>> => u = t) /\ (t = <<>> => u = s)
    BY <1>2, <1>4
  <1>9. Listed(u)
    BY <1>5, ListedIn
  <1>10. Joined(u, s, t)
    <2>1. \A k \in DOMAIN u : (\E i \in DOMAIN s : u[k] = s[i]) \/ (\E i \in DOMAIN t : u[k] = t[i])
      BY <1>3, <1>5, <1>6
    <2>2. \A i \in DOMAIN s : \E k \in DOMAIN u : u[k] = s[i]
      BY <1>3, <1>5, <1>7
    <2> QED
      BY <1>8, <1>9, <2>1, <2>2, Zenon DEF Joined
  <1> QED
    BY <1>4, <1>10

LEMMA Division ==
    ASSUME NEW n \in Nat \ {0}, NEW a \in Int
    PROVE  \E q \in Int, s \in 0 .. n - 1 : a = n * q + s /\ a % n = s
  <1>1. a \div n \in Int /\ a % n \in 0 .. n - 1 /\ a = n * (a \div n) + (a % n)
    OBVIOUS
  <1> QED
    BY <1>1

LEMMA RemainderIs ==
    ASSUME NEW n \in Nat \ {0}, NEW q \in Int, NEW r \in 0 .. n - 1
    PROVE  (n * q + r) % n = r
  <1>1. PICK a \in Int : a = n * q + r
    OBVIOUS
  <1>2. PICK x \in Int, s \in 0 .. n - 1 : a = n * x + s /\ a % n = s
    BY Division
  <1>3. n * (q - x) = s - r
    BY <1>1, <1>2
  <1>4. PICK y \in Int : y = q - x
    OBVIOUS
  <1>5. n * y < n /\ n * y > -n
    BY <1>3, <1>4
  <1>6. y < 1 /\ y > -1
    BY <1>5
  <1>7. y = 0 /\ n * y = 0
    BY <1>6
  <1> QED
    BY <1>1, <1>2, <1>3, <1>4, <1>7

(* int32: the sign survives the 64 bits of a varint. *)
LEMMA Widths ==
    /\ W32 \in Nat \ {0} /\ W64 \in Nat \ {0} /\ W32 \div 2 \in Nat /\ 2 * (W32 \div 2) = W32
    /\ \E k \in Nat \ {0} : W64 = W32 * k
    /\ W64 >= W32
  <1>1. W32 \in Nat \ {0} /\ W64 \in Nat \ {0}
    BY WidthAssumption
  <1>2. W32 \div 2 \in Nat /\ 2 * (W32 \div 2) = W32
    BY WidthAssumption
  <1>3. PICK q \in Int, r \in 0 .. W32 - 1 : W64 = W32 * q + r /\ W64 % W32 = r
    BY <1>1, Division
  <1>4. r = 0
    BY <1>3, WidthAssumption
  <1>5. W64 = W32 * q
    <2>1. PICK p \in Int : p = W32 * q
      BY <1>1
    <2>2. W64 = p + r
      BY <1>3, <2>1
    <2>3. W64 = p
      BY <1>4, <2>2
    <2> QED
      BY <2>1, <2>3
  <1>6. q > 0
    <2>1. SUFFICES ASSUME q <= 0 PROVE FALSE
      OBVIOUS
    <2>2. W32 * q <= 0
      BY <1>1, <2>1
    <2> QED
      BY <1>1, <1>5, <2>2
  <1>7. W32 * q >= W32
    BY <1>1, <1>6
  <1> QED
    BY <1>1, <1>2, <1>5, <1>6, <1>7

LEMMA SignedType ==
    ASSUME NEW n \in Int
    PROVE  Signed(n) \in Int32
  <1>1. PICK w \in Nat \ {0}, h \in Nat : w = W32 /\ h = W32 \div 2 /\ 2 * h = w
    BY Widths
  <1>2. PICK r \in 0 .. w - 1 : n % w = r
    BY <1>1, Division
  <1>3. Signed(n) = IF r < h THEN r ELSE r - w
    BY <1>1, <1>2 DEF Signed
  <1>4. Int32 = -h .. h - 1
    BY <1>1 DEF Int32
  <1> QED
    BY <1>1, <1>3, <1>4

LEMMA SignedBack ==
    ASSUME NEW v \in Int32
    PROVE  Signed(v % W64) = v
  <1>1. PICK w \in Nat \ {0}, h \in Nat : w = W32 /\ h = W32 \div 2 /\ 2 * h = w
    BY Widths
  <1>2. PICK x \in Nat \ {0}, k \in Nat \ {0} : x = W64 /\ x = w * k /\ x >= w
    BY <1>1, Widths
  <1>3. v \in Int /\ -h <= v /\ v < h
    BY <1>1 DEF Int32
  <1>4. CASE v >= 0
    <2>1. v \in 0 .. w - 1 /\ v \in 0 .. x - 1
      BY <1>1, <1>2, <1>3, <1>4
    <2>2. (x * 0 + v) % x = v /\ (w * 0 + v) % w = v
      BY <2>1, RemainderIs
    <2>3. x * 0 + v = v /\ w * 0 + v = v
      BY <1>3
    <2>4. v % W64 = v /\ v % W32 = v
      BY <1>1, <1>2, <2>2, <2>3
    <2> QED
      BY <1>1, <1>3, <2>4 DEF Signed
  <1>5. CASE v < 0
    <2>1. PICK y \in Int : y = v + w
      BY <1>3
    <2>2. y \in 0 .. w - 1 /\ v + x \in 0 .. x - 1 /\ ~(y < h) /\ y - w = v
      BY <1>1, <1>2, <1>3, <1>5, <2>1
    <2>3. (x * (-1) + (v + x)) % x = v + x
      BY SMTT(30), <2>2, RemainderIs
    <2>4. x * (-1) + (v + x) = v
      BY <1>3
    <2>5. v % W64 = v + x
      BY <1>2, <2>3, <2>4
    <2>6. (w * (k - 1) + y) % w = y
      <3>1. k - 1 \in Int
        OBVIOUS
      <3> QED
        BY <2>2, <3>1, RemainderIs, Zenon
    <2>7. w * (k - 1) + y = v + x
      <3>1. PICK p \in Int, q \in Int : p = w * (k - 1) /\ q = w * k
        OBVIOUS
      <3>2. p = q - w
        BY <3>1
      <3>3. p + y = v + x
        BY <1>2, <1>3, <2>1, <3>1, <3>2
      <3> QED
        BY <3>1, <3>3
    <2>8. (v + x) % W32 = y
      BY <1>1, <2>6, <2>7
    <2> QED
      BY <1>1, <2>2, <2>5, <2>8 DEF Signed
  <1> QED
    BY <1>3, <1>4, <1>5

(* The values that a field of a type may have. *)
Fits(type, v) ==
    /\ type = "int32" => v \in Int32
    /\ type = "bool" => v \in BOOLEAN
    /\ type = "map" => v = NoMetadata

LEMMA DecodedBack ==
    ASSUME NEW type, NEW v, Fits(type, v)
    PROVE  Decoded(type, Encoded(type, v)) = v
  <1>1. CASE type = "int32"
    <2>1. v \in Int32
      BY <1>1 DEF Fits
    <2>2. Encoded(type, v) = v % W64
      BY <1>1 DEF Encoded
    <2>3. Decoded(type, v % W64) = Signed(v % W64)
      BY <1>1 DEF Decoded
    <2> QED
      BY <2>1, <2>2, <2>3, SignedBack
  <1>2. CASE type = "bool"
    <2>1. \/ v = TRUE /\ Encoded(type, v) = 1
          \/ v = FALSE /\ Encoded(type, v) = 0
      BY <1>2 DEF Fits, Encoded
    <2>2. \A n : Decoded(type, n) = (n # 0)
      <3>1. type # "int32"
        BY <1>2
      <3> QED
        BY <1>2, <3>1, Zenon DEF Decoded
    <2>3. (1 # 0) = TRUE /\ (0 # 0) = FALSE
      OBVIOUS
    <2>4. Decoded(type, 1) = TRUE /\ Decoded(type, 0) = FALSE
      BY <2>2, <2>3, Zenon
    <2> QED
      BY <2>1, <2>4, Zenon
  <1>3. CASE type # "int32" /\ type # "bool"
    <2>1. Encoded(type, v) = v /\ Decoded(type, v) = v
      BY <1>3, Zenon DEF Encoded, Decoded
    <2> QED
      BY <2>1, Zenon
  <1> QED
    BY <1>1, <1>2, <1>3

-----------------------------------------------------------------------------
(* Messages: what a parser makes of what was serialized *)

(* Field j of a message. *)
Content(M, m, j) == m.fields[M[j].name]
RecordOf(M, m, j) == FieldRecord(M[j], Content(M, m, j))

IsProto(M) ==
    /\ Len(M) \in Nat \ {0} /\ DOMAIN M = 1..Len(M)
    /\ \A j, k \in DOMAIN M : M[j].num = M[k].num \/ M[j].name = M[k].name => j = k

Suits(M, m) ==
    /\ m.unknown = <<>>
    /\ \A j \in DOMAIN M : Fits(M[j].type, Content(M, m, j))

LEMMA NoEntries ==
    ASSUME NEW f
    PROVE  Entries(f, NoMetadata) = <<>>
  <1>1. PICK keys : keys = SetToSeq(DOMAIN NoMetadata)
    OBVIOUS
  <1>2. DOMAIN NoMetadata = {}
    BY DEF NoMetadata
  <1>3. Cardinality({}) = 0
    BY FS_EmptySet
  <1>4. keys = CHOOSE g \in [1..0 -> {}] : IsInjective(g)
    BY <1>1, <1>2, <1>3 DEF SetToSeq
  <1>5. <<>> \in [1..0 -> {}] /\ IsInjective(<<>>)
    BY DEF IsInjective
  <1>6. keys \in [1..0 -> {}]
    BY <1>4, <1>5
  <1>7. DOMAIN keys = {}
    BY <1>6
  <1>8. Entries(f, NoMetadata) =
          [k \in DOMAIN keys |-> Record(f.num, "bytes", <<keys[k], NoMetadata[keys[k]]>>)]
    BY <1>1 DEF Entries
  <1> QED
    BY <1>7, <1>8

(* s has a record for each field that is set, and no other. *)
Carries(s, M, m) ==
    /\ Listed(s)
    /\ \A k \in DOMAIN s : \E j \in Written(M, m) : s[k] = RecordOf(M, m, j)
    /\ \A j \in Written(M, m) : \E k \in DOMAIN s : s[k] = RecordOf(M, m, j)

LEMMA Serialized ==
    ASSUME NEW M, IsProto(M), NEW m, Suits(M, m)
    PROVE  Carries(SerializeToString(M, m), M, m)
  <1>1. PICK n \in Nat \ {0} : n = Len(M) /\ DOMAIN M = 1..n
    BY DEF IsProto
  <1>2. PICK r : r = [k \in 1..n |-> RecordOf(M, m, k)]
    OBVIOUS
  <1>3. PICK A : A = {RecordOf(M, m, k) : k \in 1..n}
    OBVIOUS
  <1>4. r \in Seq(A) /\ Len(r) = n /\ \A k \in 1..n : r[k] = RecordOf(M, m, k)
    BY <1>2, <1>3
  <1>5. PICK W : W = Written(M, m) /\ W \subseteq 1..n
    BY <1>1 DEF Written
  <1>6. PICK e : e = ElementsAt(r, W)
    OBVIOUS
  <1>7. Taken(e, A, r, W, n)
    BY <1>4, <1>6, ElementsTaken
  <1>8. /\ e \in Seq(A)
        /\ \A k \in 1..Len(e) : \E i \in 1..n : i \in W /\ e[k] = r[i]
        /\ \A i \in 1..n : i \in W => \E k \in 1..Len(e) : e[k] = r[i]
    BY <1>7 DEF Taken
  <1>9. MapEntries(M, m) = <<>>
    <2>1. CASE M[n].type = "map"
      <3>1. Content(M, m, n) = NoMetadata
        BY <1>1, <2>1 DEF Suits, Fits
      <3>2. MapEntries(M, m) = Entries(M[n], m.fields[M[n].name])
        BY <1>1, <2>1 DEF MapEntries
      <3> QED
        BY <3>1, <3>2, NoEntries DEF Content
    <2>2. CASE M[n].type # "map"
      BY <1>1, <2>2 DEF MapEntries
    <2> QED
      BY <2>1, <2>2
  <1>10. SerializeToString(M, m) = (e \o <<>>) \o <<>>
    <2>1. r = [k \in DOMAIN M |-> FieldRecord(M[k], m.fields[M[k].name])]
      BY <1>1, <1>2 DEF RecordOf, Content
    <2>2. m.unknown = <<>>
      BY DEF Suits
    <2>3. SerializeToString(M, m) = (ElementsAt(r, W) \o MapEntries(M, m)) \o m.unknown
      BY <1>5, <2>1 DEF SerializeToString
    <2> QED
      BY <1>6, <1>9, <2>2, <2>3
  <1>11. SerializeToString(M, m) = e
    BY <1>8, <1>10
  <1>12. Listed(e)
    BY <1>8, ListedIn
  <1>13. \A k \in DOMAIN e : \E j \in W : e[k] = RecordOf(M, m, j)
    <2> SUFFICES ASSUME NEW k \in DOMAIN e PROVE \E j \in W : e[k] = RecordOf(M, m, j)
      OBVIOUS
    <2>1. PICK i \in 1..n : i \in W /\ e[k] = r[i]
      BY <1>8
    <2> QED
      BY <1>4, <2>1
  <1>14. \A j \in W : \E k \in DOMAIN e : e[k] = RecordOf(M, m, j)
    <2> SUFFICES ASSUME NEW j \in W PROVE \E k \in DOMAIN e : e[k] = RecordOf(M, m, j)
      OBVIOUS
    <2>1. j \in 1..n
      BY <1>5
    <2>2. PICK k \in 1..Len(e) : e[k] = r[j]
      BY <1>8, <2>1
    <2>3. e[k] = RecordOf(M, m, j)
      BY <1>4, <2>1, <2>2
    <2>4. k \in DOMAIN e
      BY <1>8
    <2> QED
      BY <2>3, <2>4
  <1>15. Carries(e, M, m)
    BY <1>5, <1>12, <1>13, <1>14 DEF Carries
  <1> QED
    BY <1>11, <1>15

(* What is sent: a message, and what was added to it. *)
Sent(data, M, m, more) ==
    /\ IsProto(M) /\ Suits(M, m) /\ Repeats(M, m, more)
    /\ data = SerializeToString(M, m) \o more

LEMMA SentFrom ==
    ASSUME NEW data, NEW M, NEW m, NEW more, Sent(data, M, m, more)
    PROVE  \E s : Carries(s, M, m) /\ Joined(data, s, more)
  <1>1. PICK s : s = SerializeToString(M, m) /\ data = s \o more
    BY DEF Sent
  <1>2. Carries(s, M, m)
    BY <1>1, Serialized DEF Sent
  <1>3. Listed(s) /\ Listed(more)
    BY <1>2 DEF Carries, Sent, Repeats, Listed
  <1> QED
    BY <1>1, <1>2, <1>3, ListedJoined

LEMMA RecordFields ==
    ASSUME NEW M, NEW m, NEW j
    PROVE  /\ RecordOf(M, m, j).num = M[j].num
           /\ RecordOf(M, m, j).type = WireType(M[j].type)
           /\ RecordOf(M, m, j).content = Encoded(M[j].type, Content(M, m, j))
  BY DEF RecordOf, FieldRecord, Record

(* A record for field j comes from the message, or says the same. *)
LEMMA MatchSays ==
    ASSUME NEW data, NEW M, NEW m, NEW more, Sent(data, M, m, more),
           NEW j \in DOMAIN M, NEW k \in At(M[j], data)
    PROVE  /\ M[j].type # "map" => Decoded(M[j].type, data[k].content) = Content(M, m, j)
           /\ M[j].type = "map" => Utf8(M[j], data[k].content)
  <1>1. PICK s : Carries(s, M, m) /\ Joined(data, s, more)
    BY SentFrom
  <1>2. k \in DOMAIN data /\ Matches(M[j], data[k])
    BY DEF At
  <1>3. CASE \E i \in DOMAIN s : data[k] = s[i]
    <2>1. PICK i \in DOMAIN s : data[k] = s[i]
      BY <1>3
    <2>2. PICK l \in Written(M, m) : s[i] = RecordOf(M, m, l)
      BY <1>1 DEF Carries
    <2>3. l \in DOMAIN M /\ M[l].type # "map"
      BY <2>2 DEF Written
    <2>4. M[l].num = M[j].num
      BY <1>2, <2>1, <2>2, RecordFields DEF Matches
    <2>5. l = j
      BY <2>3, <2>4 DEF Sent, IsProto
    <2>6. data[k].content = Encoded(M[j].type, Content(M, m, j))
      BY <2>1, <2>2, <2>5, RecordFields
    <2>7. Fits(M[j].type, Content(M, m, j))
      BY DEF Sent, Suits
    <2> QED
      BY <2>3, <2>5, <2>6, <2>7, DecodedBack
  <1>4. CASE \E i \in DOMAIN more : data[k] = more[i]
    <2>1. PICK i \in DOMAIN more : data[k] = more[i]
      BY <1>4
    <2>2. i \in At(M[j], more)
      BY <1>2, <2>1 DEF At
    <2>3. IF M[j].type = "map" THEN Utf8(M[j], more[i].content)
          ELSE Decoded(M[j].type, more[i].content) = m.fields[M[j].name]
      BY <2>2 DEF Sent, Repeats
    <2> QED
      BY <2>1, <2>3 DEF Content
  <1> QED
    BY <1>1, <1>2, <1>3, <1>4 DEF Joined

LEMMA AbsentIsDefault ==
    ASSUME NEW data, NEW M, NEW m, NEW more, Sent(data, M, m, more),
           NEW j \in DOMAIN M, M[j].type # "map", At(M[j], data) = {}
    PROVE  Content(M, m, j) = Default(M[j].type)
  <1>1. PICK s : Carries(s, M, m) /\ Joined(data, s, more)
    BY SentFrom
  <1>2. j \notin Written(M, m)
    <2>1. SUFFICES ASSUME j \in Written(M, m) PROVE FALSE
      OBVIOUS
    <2>2. PICK i \in DOMAIN s : s[i] = RecordOf(M, m, j)
      BY <1>1, <2>1 DEF Carries
    <2>3. PICK k \in DOMAIN data : data[k] = s[i]
      BY <1>1 DEF Joined
    <2>4. Matches(M[j], data[k])
      BY <2>2, <2>3, RecordFields DEF Matches
    <2> QED
      BY <2>3, <2>4 DEF At
  <1>3. ~IsSet(M[j], Content(M, m, j))
    BY <1>2 DEF Written, Content
  <1>4. CASE M[j].type = "double"
    <2>1. Content(M, m, j) = ZeroDouble
      BY <1>3, <1>4 DEF IsSet, NotZero
    <2>2. Default("double") = ZeroDouble
      BY DEF Default
    <2> QED
      BY <1>4, <2>1, <2>2
  <1>5. CASE M[j].type # "double"
    BY <1>3, <1>5 DEF IsSet
  <1> QED
    BY <1>4, <1>5

LEMMA ValueBack ==
    ASSUME NEW data, NEW M, NEW m, NEW more, Sent(data, M, m, more),
           NEW j \in DOMAIN M, M[j].type # "map"
    PROVE  Value(M[j], data) = Content(M, m, j)
  <1>1. CASE At(M[j], data) = {}
    <2>1. Value(M[j], data) = Default(M[j].type)
      BY <1>1 DEF Value
    <2> QED
      BY <1>1, <2>1, AbsentIsDefault
  <1>2. CASE At(M[j], data) # {}
    <2>1. PICK n \in Nat : DOMAIN data = 1..n
      <3>1. PICK s : Joined(data, s, more)
        BY SentFrom
      <3>2. data \in Seq(Range(data))
        BY <3>1 DEF Joined, Listed
      <3> QED
        BY <3>2
    <2>2. PICK S : S = At(M[j], data)
      OBVIOUS
    <2>3. S \in SUBSET (1..n) /\ S # {}
      BY <1>2, <2>1, <2>2 DEF At
    <2>4. PICK k \in S : k = Max(S)
      BY <2>3, MaxIn
    <2>5. Value(M[j], data) = Decoded(M[j].type, data[k].content)
      BY <1>2, <2>2, <2>4 DEF Value
    <2> QED
      BY <2>2, <2>4, <2>5, MatchSays
  <1> QED
    BY <1>1, <1>2

(* Strings that are UTF-8 *)
Speaks(M, m) == \A j \in DOMAIN M : M[j].type = "string" => Content(M, m, j) \notin NotUtf8

LEMMA ReadableBack ==
    ASSUME NEW data, NEW M, NEW m, NEW more, Sent(data, M, m, more), Speaks(M, m), Sound(more)
    PROVE  Readable(M, data)
  <1>1. PICK s : Carries(s, M, m) /\ Joined(data, s, more)
    BY SentFrom
  <1>2. ASSUME NEW k \in DOMAIN data PROVE data[k].type # "end"
    <2>1. CASE \E i \in DOMAIN s : data[k] = s[i]
      <3>1. PICK i \in DOMAIN s : data[k] = s[i]
        BY <2>1
      <3>2. PICK l \in Written(M, m) : s[i] = RecordOf(M, m, l)
        BY <1>1 DEF Carries
      <3>3. data[k].type = WireType(M[l].type)
        BY <3>1, <3>2, RecordFields
      <3>4. WireType(M[l].type) \in {"varint", "fixed64", "bytes"}
        BY DEF WireType
      <3> QED
        BY <3>3, <3>4
    <2>2. CASE \E i \in DOMAIN more : data[k] = more[i]
      BY <2>2 DEF Sound
    <2> QED
      BY <1>1, <2>1, <2>2 DEF Joined
  <1>3. ASSUME NEW j \in DOMAIN M, NEW k \in At(M[j], data)
        PROVE  Utf8(M[j], data[k].content)
    <2>1. CASE M[j].type = "map"
      BY <2>1, MatchSays
    <2>2. CASE M[j].type = "string"
      <3>1. Decoded(M[j].type, data[k].content) = Content(M, m, j)
        BY <2>2, MatchSays
      <3>2. Decoded("string", data[k].content) = data[k].content
        BY DEF Decoded
      <3>3. data[k].content \notin NotUtf8
        BY <2>2, <3>1, <3>2 DEF Speaks
      <3> QED
        BY <2>2, <3>3 DEF Utf8
    <2>3. CASE M[j].type # "map" /\ M[j].type # "string"
      BY <2>3 DEF Utf8
    <2> QED
      BY <2>1, <2>2, <2>3
  <1> QED
    BY <1>2, <1>3 DEF Readable

(* What the parser makes of it. *)
LEMMA ParsedBack ==
    ASSUME NEW data, NEW M, NEW m, NEW more, Sent(data, M, m, more),
           NEW p, p = ParseFromArray(M, data)
    PROVE  /\ p.ok \in BOOLEAN
           /\ p.ok => \A j \in DOMAIN M : M[j].type # "map" =>
                         p.message.fields[M[j].name] = Content(M, m, j)
           /\ Speaks(M, m) /\ Sound(more) => p.ok
  <1>1. CASE ~Readable(M, data)
    <2>1. p = Failure
      BY <1>1 DEF ParseFromArray
    <2>2. p.ok = FALSE
      BY <2>1 DEF Failure
    <2> QED
      BY <1>1, <2>2, ReadableBack
  <1>2. CASE Readable(M, data)
    <2>1. PICK g : g = [name \in Names(M) |-> Value(FieldOf(M, name), data)]
      OBVIOUS
    <2>2. PICK x : x = ElementsAt(data, Unknown(M, data))
      OBVIOUS
    <2>3. p = Parsed([fields |-> g, unknown |-> x])
      BY <1>2, <2>1, <2>2 DEF ParseFromArray
    <2>4. p.ok = TRUE /\ p.message.fields = g
      BY <2>3 DEF Parsed
    <2>5. ASSUME NEW j \in DOMAIN M, M[j].type # "map"
          PROVE  g[M[j].name] = Content(M, m, j)
      <3>1. M[j].name \in Names(M)
        BY DEF Names
      <3>2. FieldOf(M, M[j].name) = M[j]
        <4>1. \A k \in DOMAIN M : M[k].name = M[j].name => k = j
          BY DEF Sent, IsProto
        <4>2. (CHOOSE k \in DOMAIN M : M[k].name = M[j].name) = j
          BY <4>1
        <4> QED
          BY <4>2 DEF FieldOf
      <3>3. g[M[j].name] = Value(M[j], data)
        BY <2>1, <3>1, <3>2
      <3> QED
        BY <2>5, <3>3, ValueBack
    <2> QED
      BY <2>4, <2>5
  <1> QED
    BY <1>1, <1>2

(* A message with a field that is set is not empty. *)
LEMMA SetNotEmpty ==
    ASSUME NEW data, NEW M, NEW m, NEW more, Sent(data, M, m, more),
           NEW j \in DOMAIN M, M[j].type # "map", IsSet(M[j], Content(M, m, j))
    PROVE  data # <<>>
  <1>1. PICK s : Carries(s, M, m) /\ Joined(data, s, more)
    BY SentFrom
  <1>2. j \in Written(M, m)
    BY DEF Written, Content
  <1>3. PICK i \in DOMAIN s : TRUE
    BY <1>1, <1>2 DEF Carries
  <1>4. PICK k \in DOMAIN data : TRUE
    BY <1>1, <1>3 DEF Joined
  <1> QED
    BY <1>4

(* Nothing added *)
LEMMA SentPlain ==
    ASSUME NEW M, IsProto(M), NEW m, Suits(M, m)
    PROVE  Sent(SerializeToString(M, m), M, m, <<>>) /\ Sound(<<>>)
  <1>1. PICK s : s = SerializeToString(M, m)
    OBVIOUS
  <1>2. Listed(s)
    BY <1>1, Serialized DEF Carries
  <1>3. s \o <<>> = s
    BY <1>2 DEF Listed
  <1>4. Repeats(M, m, <<>>)
    <2>1. <<>> \in Seq(Range(<<>>)) /\ DOMAIN <<>> = {}
      OBVIOUS
    <2>2. \A j \in DOMAIN M : At(M[j], <<>>) = {}
      BY <2>1 DEF At
    <2> QED
      BY <2>1, <2>2 DEF Repeats
  <1>5. Sound(<<>>)
    BY DEF Sound
  <1> QED
    BY <1>1, <1>3, <1>4, <1>5 DEF Sent

-----------------------------------------------------------------------------
(* The messages of src/proto *)

LEMMA RequestProto ==
    /\ IsProto(RpcRequestProto)
    /\ DOMAIN RpcRequestProto = 1..7
    /\ Names(RpcRequestProto) = {"request_id", "service_name", "method_name", "client_id",
                                 "request_data", "timeout_ms", "metadata"}
  <1>1. Len(RpcRequestProto) = 7 /\ DOMAIN RpcRequestProto = 1..7
    BY DEF RpcRequestProto
  <1>2. \A j \in 1..7 : RpcRequestProto[j].num = j
    BY DEF RpcRequestProto, F
  <1>3. \A j, k \in 1..7 : RpcRequestProto[j].name = RpcRequestProto[k].name => j = k
    BY DEF RpcRequestProto, F
  <1>4. IsProto(RpcRequestProto)
    BY <1>1, <1>2, <1>3 DEF IsProto
  <1>5. Names(RpcRequestProto) = {"request_id", "service_name", "method_name", "client_id",
                                  "request_data", "timeout_ms", "metadata"}
    BY DEF Names, RpcRequestProto, F
  <1> QED
    BY <1>1, <1>4, <1>5

LEMMA ResponseProto ==
    /\ IsProto(RpcResponseProto)
    /\ DOMAIN RpcResponseProto = 1..6
    /\ Names(RpcResponseProto) = {"request_id", "success", "response_data", "error_code",
                                  "error_message", "metadata"}
  <1>1. Len(RpcResponseProto) = 6 /\ DOMAIN RpcResponseProto = 1..6
    BY DEF RpcResponseProto
  <1>2. \A j \in 1..6 : RpcResponseProto[j].num = j
    BY DEF RpcResponseProto, F
  <1>3. \A j, k \in 1..6 : RpcResponseProto[j].name = RpcResponseProto[k].name => j = k
    BY DEF RpcResponseProto, F
  <1>4. IsProto(RpcResponseProto)
    BY <1>1, <1>2, <1>3 DEF IsProto
  <1>5. Names(RpcResponseProto) = {"request_id", "success", "response_data", "error_code",
                                   "error_message", "metadata"}
    BY DEF Names, RpcResponseProto, F
  <1> QED
    BY <1>1, <1>4, <1>5

LEMMA ArgumentsProto ==
    ASSUME NEW method
    PROVE  GetRequestPrototype(method) = << F(1, "a", "int32"), F(2, "b", "int32") >>
  BY DEF GetRequestPrototype, AddRequest, SubRequest, MultiRequest, DivideRequest

LEMMA TwoNumbers ==
    ASSUME NEW M, M = << F(1, "a", "int32"), F(2, "b", "int32") >>
    PROVE  /\ IsProto(M) /\ DOMAIN M = 1..2 /\ Names(M) = {"a", "b"}
           /\ M[1].name = "a" /\ M[2].name = "b"
           /\ M[1].type = "int32" /\ M[2].type = "int32"
  <1>1. Len(M) = 2 /\ DOMAIN M = 1..2
    OBVIOUS
  <1>2. /\ M[1].name = "a" /\ M[2].name = "b" /\ M[1].num = 1 /\ M[2].num = 2
        /\ M[1].type = "int32" /\ M[2].type = "int32"
    BY DEF F
  <1>3. \A j \in DOMAIN M : j = 1 \/ j = 2
    BY <1>1
  <1> QED
    BY <1>1, <1>2, <1>3 DEF IsProto, Names

(* A new message has the default of each field. *)
LEMMA NewFields ==
    ASSUME NEW M, IsProto(M)
    PROVE  \E g : /\ New(M) = [fields |-> g, unknown |-> <<>>]
                  /\ g = [name \in Names(M) |-> g[name]]
                  /\ \A j \in DOMAIN M : g[M[j].name] = Default(M[j].type)
  <1>1. PICK g : g = [name \in Names(M) |-> Default(FieldOf(M, name).type)]
    OBVIOUS
  <1>2. New(M) = [fields |-> g, unknown |-> <<>>]
    BY <1>1 DEF New
  <1>3. ASSUME NEW j \in DOMAIN M PROVE g[M[j].name] = Default(M[j].type)
    <2>1. M[j].name \in Names(M)
      BY DEF Names
    <2>2. (CHOOSE k \in DOMAIN M : M[k].name = M[j].name) = j
      BY DEF IsProto
    <2>3. FieldOf(M, M[j].name) = M[j]
      BY <2>2 DEF FieldOf
    <2> QED
      BY <1>1, <2>1, <2>3
  <1>4. g = [name \in Names(M) |-> g[name]]
    BY <1>1
  <1> QED
    BY <1>2, <1>3, <1>4

LEMMA RequestMessage ==
    ASSUME NEW M, M = RpcRequestProto, NEW request, NEW m, m = createRequestProto(request)
    PROVE  /\ Suits(M, m) /\ Content(M, m, 1) = request.request_id
           /\ Content(M, m, 2) = request.service_name /\ Content(M, m, 3) = request.method_name
           /\ Content(M, m, 4) = "" /\ Content(M, m, 5) = request.request_data
  <1>1. M = RpcRequestProto
    OBVIOUS
  <1>2. /\ M[1].name = "request_id" /\ M[2].name = "service_name" /\ M[3].name = "method_name"
        /\ M[4].name = "client_id" /\ M[5].name = "request_data" /\ M[6].name = "timeout_ms"
        /\ M[7].name = "metadata"
    BY <1>1 DEF RpcRequestProto, F
  <1>3. /\ M[1].type = "uint64" /\ M[2].type = "string" /\ M[3].type = "string"
        /\ M[4].type = "string" /\ M[5].type = "bytes" /\ M[6].type = "int32"
        /\ M[7].type = "map"
    BY <1>1 DEF RpcRequestProto, F
  <1>0. IsProto(M) /\ DOMAIN M = 1..7
    BY <1>1, RequestProto
  <1>4. PICK g : /\ New(M) = [fields |-> g, unknown |-> <<>>] /\ g = [name \in Names(M) |-> g[name]]
                 /\ \A j \in DOMAIN M : g[M[j].name] = Default(M[j].type)
    BY <1>0, NewFields
  <1>5. PICK h : h = [g EXCEPT !.request_id = request.request_id,
                               !.service_name = request.service_name,
                               !.method_name = request.method_name,
                               !.request_data = request.request_data]
    OBVIOUS
  <1>6. m.fields = h /\ m.unknown = <<>>
    BY <1>1, <1>4, <1>5 DEF createRequestProto
  <1>7. /\ "request_id" \in Names(M) /\ "service_name" \in Names(M) /\ "method_name" \in Names(M)
        /\ "client_id" \in Names(M) /\ "request_data" \in Names(M) /\ "timeout_ms" \in Names(M)
        /\ "metadata" \in Names(M)
    BY <1>1, RequestProto
  <1>8. /\ h["request_id"] = request.request_id /\ h["service_name"] = request.service_name
        /\ h["method_name"] = request.method_name /\ h["client_id"] = g["client_id"]
        /\ h["request_data"] = request.request_data /\ h["timeout_ms"] = g["timeout_ms"]
        /\ h["metadata"] = g["metadata"]
    BY <1>4, <1>5, <1>7
  <1>9. /\ Default("string") = "" /\ Default("int32") = 0 /\ Default("map") = NoMetadata
    BY DEF Default
  <1>10. g["client_id"] = "" /\ g["timeout_ms"] = 0 /\ g["metadata"] = NoMetadata
    <2>1. /\ g[M[4].name] = Default(M[4].type) /\ g[M[6].name] = Default(M[6].type)
          /\ g[M[7].name] = Default(M[7].type)
      BY <1>0, <1>4
    <2> QED
      BY ZenonT(60), <1>2, <1>3, <1>9, <2>1
  <1>11. /\ Content(M, m, 1) = request.request_id /\ Content(M, m, 2) = request.service_name
         /\ Content(M, m, 3) = request.method_name /\ Content(M, m, 4) = ""
         /\ Content(M, m, 5) = request.request_data /\ Content(M, m, 6) = 0
         /\ Content(M, m, 7) = NoMetadata
    BY ZenonT(60), <1>2, <1>6, <1>8, <1>10 DEF Content
  <1>12. 0 \in Int32
    BY Widths DEF Int32
  <1>13. ASSUME NEW j \in 1..7 PROVE Fits(M[j].type, Content(M, m, j))
    <2>1. \/ M[j].type \notin {"int32", "bool", "map"}
          \/ M[j].type = "int32" /\ Content(M, m, j) = 0
          \/ M[j].type = "map" /\ Content(M, m, j) = NoMetadata
      <3>1. j = 1 \/ j = 2 \/ j = 3 \/ j = 4 \/ j = 5 \/ j = 6 \/ j = 7
        OBVIOUS
      <3> QED
        BY <1>3, <1>11, <3>1
    <2> QED
      BY <1>12, <2>1 DEF Fits
  <1> QED
    BY <1>1, <1>6, <1>11, <1>13, RequestProto DEF Suits

Responds(M, m, response) ==
    /\ Suits(M, m) /\ Content(M, m, 2) = response.success
    /\ Content(M, m, 3) = response.response_data
    /\ Content(M, m, 5) = IF response.success THEN "" ELSE response.error_message

LEMMA ResponseMessage ==
    ASSUME NEW M, M = RpcResponseProto,
           NEW response, response.success \in BOOLEAN, NEW m, m = createResponseProto(response)
    PROVE  Responds(M, m, response)
  <1>1. M = RpcResponseProto
    OBVIOUS
  <1>2. /\ M[1].name = "request_id" /\ M[2].name = "success" /\ M[3].name = "response_data"
        /\ M[4].name = "error_code" /\ M[5].name = "error_message" /\ M[6].name = "metadata"
    BY <1>1 DEF RpcResponseProto, F
  <1>3. /\ M[1].type = "uint64" /\ M[2].type = "bool" /\ M[3].type = "bytes"
        /\ M[4].type = "int32" /\ M[5].type = "string" /\ M[6].type = "map"
    BY <1>1 DEF RpcResponseProto, F
  <1>0. IsProto(M) /\ DOMAIN M = 1..6
    BY <1>1, ResponseProto
  <1>4. PICK g : /\ New(M) = [fields |-> g, unknown |-> <<>>] /\ g = [name \in Names(M) |-> g[name]]
                 /\ \A j \in DOMAIN M : g[M[j].name] = Default(M[j].type)
    BY <1>0, NewFields
  <1>5. PICK h : h = [g EXCEPT !.request_id = response.request_id,
                               !.success = response.success,
                               !.response_data = response.response_data]
    OBVIOUS
  <1>6. PICK proto : /\ proto = [New(M) EXCEPT !.fields.request_id = response.request_id,
                                               !.fields.success = response.success,
                                               !.fields.response_data = response.response_data]
                     /\ m = IF response.success THEN proto
                            ELSE [proto EXCEPT !.fields.error_code = Signed(SERVER_ERROR),
                                               !.fields.error_message = response.error_message]
    BY <1>1 DEF createResponseProto
  <1>7. proto.fields = h /\ proto.unknown = <<>> /\ DOMAIN proto = {"fields", "unknown"}
    <2>1. PICK x : x = [fields |-> g, unknown |-> <<>>]
      OBVIOUS
    <2>2. proto = [x EXCEPT !.fields.request_id = response.request_id,
                            !.fields.success = response.success,
                            !.fields.response_data = response.response_data]
      BY <1>4, <1>6, <2>1
    <2>3. DOMAIN proto = {"fields", "unknown"}
      BY <2>1, <2>2
    <2>4. proto.fields = h
      BY <1>5, <2>1, <2>2
    <2>5. proto.unknown = <<>>
      BY <2>1, <2>2
    <2> QED
      BY <2>3, <2>4, <2>5
  <1>8. PICK e : e = IF response.success THEN h
                     ELSE [h EXCEPT !.error_code = Signed(SERVER_ERROR),
                                    !.error_message = response.error_message]
    OBVIOUS
  <1>9. m.fields = e /\ m.unknown = <<>>
    <2>1. CASE response.success
      <3>1. m = proto /\ e = h
        BY <1>6, <1>8, <2>1
      <3> QED
        BY <1>7, <3>1
    <2>2. CASE ~response.success
      <3>1. /\ m = [proto EXCEPT !.fields.error_code = Signed(SERVER_ERROR),
                                 !.fields.error_message = response.error_message]
            /\ e = [h EXCEPT !.error_code = Signed(SERVER_ERROR),
                             !.error_message = response.error_message]
        BY <1>6, <1>8, <2>2
      <3> QED
        BY <1>7, <3>1
    <2> QED
      BY <2>1, <2>2
  <1>10. /\ "request_id" \in Names(M) /\ "success" \in Names(M) /\ "response_data" \in Names(M)
         /\ "error_code" \in Names(M) /\ "error_message" \in Names(M) /\ "metadata" \in Names(M)
    BY <1>1, ResponseProto
  <1>11. /\ h = [name \in Names(M) |-> h[name]]
         /\ h["request_id"] = response.request_id /\ h["success"] = response.success
         /\ h["response_data"] = response.response_data /\ h["error_code"] = g["error_code"]
         /\ h["error_message"] = g["error_message"] /\ h["metadata"] = g["metadata"]
    BY <1>4, <1>5, <1>10
  <1>12. Default("string") = "" /\ Default("int32") = 0 /\ Default("map") = NoMetadata
    BY DEF Default
  <1>13. g["error_message"] = "" /\ g["error_code"] = 0 /\ g["metadata"] = NoMetadata
    <2>1. /\ g[M[5].name] = Default(M[5].type) /\ g[M[4].name] = Default(M[4].type)
          /\ g[M[6].name] = Default(M[6].type)
      BY <1>0, <1>4
    <2> QED
      BY ZenonT(60), <1>2, <1>3, <1>12, <2>1
  <1>14. /\ e["success"] = response.success /\ e["response_data"] = response.response_data
         /\ e["metadata"] = NoMetadata
         /\ e["error_code"] = IF response.success THEN 0 ELSE Signed(SERVER_ERROR)
         /\ e["error_message"] = IF response.success THEN "" ELSE response.error_message
    <2>1. CASE response.success
      BY <1>8, <1>11, <1>13, <2>1
    <2>2. CASE ~response.success
      BY <1>8, <1>10, <1>11, <1>13, <2>2
    <2> QED
      BY <2>1, <2>2
  <1>15. /\ Content(M, m, 2) = response.success /\ Content(M, m, 3) = response.response_data
         /\ Content(M, m, 4) = e["error_code"]
         /\ Content(M, m, 5) = e["error_message"] /\ Content(M, m, 6) = NoMetadata
    BY <1>2, <1>9, <1>14 DEF Content
  <1>16. e["error_code"] \in Int32
    <2>1. 0 \in Int32
      BY Widths DEF Int32
    <2>2. Signed(SERVER_ERROR) \in Int32
      <3>1. 8 % W32 \in Int
        BY Widths
      <3> QED
        BY <3>1, SignedType DEF SERVER_ERROR
    <2> QED
      BY <1>14, <2>1, <2>2
  <1>17. ASSUME NEW j \in 1..6 PROVE Fits(M[j].type, Content(M, m, j))
    <2>1. \/ M[j].type \notin {"int32", "bool", "map"}
          \/ M[j].type = "int32" /\ Content(M, m, j) = e["error_code"]
          \/ M[j].type = "bool" /\ Content(M, m, j) = response.success
          \/ M[j].type = "map" /\ Content(M, m, j) = NoMetadata
      <3>1. j = 1 \/ j = 2 \/ j = 3 \/ j = 4 \/ j = 5 \/ j = 6
        OBVIOUS
      <3> QED
        BY <1>3, <1>15, <3>1, Zenon
    <2> QED
      BY <1>16, <2>1 DEF Fits
  <1>18. Suits(M, m)
    BY <1>0, <1>9, <1>17 DEF Suits
  <1> QED
    BY <1>14, <1>15, <1>18, Zenon DEF Responds

LEMMA ArgumentsMessages ==
    ASSUME NEW call, call.a \in Int32, call.b \in Int32,
           NEW M, M = GetRequestPrototype(call.method), NEW m, m = ArgumentsMessage(call)
    PROVE  /\ IsProto(M) /\ DOMAIN M = 1..2 /\ Suits(M, m) /\ Speaks(M, m)
           /\ M[1].name = "a" /\ M[2].name = "b" /\ M[1].type = "int32" /\ M[2].type = "int32"
           /\ Content(M, m, 1) = call.a /\ Content(M, m, 2) = call.b
  <1>1. /\ IsProto(M) /\ DOMAIN M = 1..2 /\ Names(M) = {"a", "b"}
        /\ M[1].name = "a" /\ M[2].name = "b" /\ M[1].type = "int32" /\ M[2].type = "int32"
    BY ArgumentsProto, TwoNumbers
  <1>2. PICK g : New(M) = [fields |-> g, unknown |-> <<>>] /\ g = [name \in Names(M) |-> g[name]]
    BY <1>1, NewFields
  <1>3. m.fields = [g EXCEPT !.a = call.a, !.b = call.b] /\ m.unknown = <<>>
    BY <1>2 DEF ArgumentsMessage
  <1>4. m.fields["a"] = call.a /\ m.fields["b"] = call.b
    BY <1>1, <1>2, <1>3
  <1>5. Content(M, m, 1) = call.a /\ Content(M, m, 2) = call.b
    BY <1>1, <1>4 DEF Content
  <1>6. \A j \in 1..2 : j = 1 \/ j = 2
    OBVIOUS
  <1>7. Suits(M, m) /\ Speaks(M, m)
    BY <1>1, <1>3, <1>5, <1>6 DEF Suits, Speaks, Fits
  <1> QED
    BY <1>1, <1>5, <1>7

(* The calculator's answers, which have one field. *)
LEMMA OneField ==
    ASSUME NEW name, NEW type, type \in {"int32", "double"}, NEW v, Fits(type, v),
           NEW M, M = << F(1, name, type) >>, NEW m, m = With(M, name, v)
    PROVE  /\ IsProto(M) /\ DOMAIN M = 1..1 /\ M[1].name = name /\ M[1].type = type
           /\ Suits(M, m) /\ Speaks(M, m) /\ Content(M, m, 1) = v
  <1>1. Len(M) = 1 /\ DOMAIN M = 1..1
    OBVIOUS
  <1>2. M[1].name = name /\ M[1].type = type /\ M[1].num = 1
    BY DEF F
  <1>3. \A j \in 1..1 : j = 1
    OBVIOUS
  <1>4. IsProto(M)
    BY <1>1, <1>3 DEF IsProto
  <1>5. PICK g : New(M) = [fields |-> g, unknown |-> <<>>] /\ g = [n \in Names(M) |-> g[n]]
    BY <1>4, NewFields
  <1>6. name \in Names(M)
    BY <1>1, <1>2 DEF Names
  <1>7. m.fields = [g EXCEPT ![name] = v] /\ m.unknown = <<>>
    BY <1>5 DEF With
  <1>8. m.fields[name] = v
    BY <1>5, <1>6, <1>7
  <1>9. Content(M, m, 1) = v
    BY <1>2, <1>8 DEF Content
  <1>10. Suits(M, m)
    BY <1>1, <1>2, <1>3, <1>7, <1>9 DEF Suits
  <1>11. Speaks(M, m)
    BY <1>1, <1>2, <1>3 DEF Speaks
  <1> QED
    BY <1>1, <1>2, <1>4, <1>9, <1>10, <1>11

(* x is an answer to the call. *)
Answering(M, x, call) ==
    /\ IsProto(M) /\ 1 \in DOMAIN M /\ M[1].type # "map"
    /\ Suits(M, x) /\ Speaks(M, x) /\ Content(M, x, 1) \in Answers(call)

LEMMA StoredType ==
    ASSUME NEW n, NEW r \in Stored(n)
    PROVE  r \in Int32
  <1>1. CASE n \in Int32
    BY <1>1 DEF Stored
  <1>2. CASE n \notin Int32
    BY <1>2 DEF Stored
  <1> QED
    BY <1>1, <1>2

(* The method computes the answer. *)
LEMMA MethodAnswers ==
    ASSUME NEW call, call.method \in Methods,
           NEW message, message.fields["a"] = call.a, message.fields["b"] = call.b,
           NEW x \in CallMethod(call.method, message),
           NEW M, M = GetResponsePrototype(call.method)
    PROVE  Answering(M, x, call)
  <1> DEFINE q == message.fields
  <1>1. q.a = call.a /\ q.b = call.b
    OBVIOUS
  <1> HIDE DEF q
  <1>2. ASSUME NEW name, NEW type, type \in {"int32", "double"}, NEW v, Fits(type, v),
               M = << F(1, name, type) >>, x = With(M, name, v), v \in Answers(call)
        PROVE  Answering(M, x, call)
    <2>1. /\ IsProto(M) /\ DOMAIN M = 1..1 /\ M[1].type = type
          /\ Suits(M, x) /\ Speaks(M, x) /\ Content(M, x, 1) = v
      BY <1>2, OneField
    <2> QED
      BY <1>2, <2>1 DEF Answering
  <1>3. CASE call.method = "Add"
    <2>1. M = << F(1, "result", "int32") >> /\ M = AddResponse
      BY <1>3 DEF GetResponsePrototype, AddResponse
    <2>2. x \in Add(q)
      BY <1>3 DEF CallMethod, q
    <2>3. PICK r \in Stored(q.a + q.b) : x = With(M, "result", r)
      BY <2>1, <2>2 DEF Add
    <2>4. r \in Answers(call)
      BY <1>1, <1>3, <2>3 DEF Answers, Stored
    <2>5. Fits("int32", r)
      BY <2>3, StoredType DEF Fits
    <2> QED
      BY <1>2, <2>1, <2>3, <2>4, <2>5
  <1>4. CASE call.method = "Sub"
    <2>1. M = << F(1, "response", "int32") >> /\ M = SubResponse
      BY <1>4 DEF GetResponsePrototype, SubResponse
    <2>2. x \in Sub(q)
      BY <1>4 DEF CallMethod, q
    <2>3. PICK r \in Stored(q.a - q.b) : x = With(M, "response", r)
      BY <2>1, <2>2 DEF Sub
    <2>4. r \in Answers(call)
      BY <1>1, <1>4, <2>3 DEF Answers, Stored
    <2>5. Fits("int32", r)
      BY <2>3, StoredType DEF Fits
    <2> QED
      BY <1>2, <2>1, <2>3, <2>4, <2>5
  <1>5. CASE call.method = "Mul"
    <2>1. M = << F(1, "response", "int32") >> /\ M = MultiResponse
      BY <1>5 DEF GetResponsePrototype, MultiResponse
    <2>2. x \in Mul(q)
      BY <1>5 DEF CallMethod, q
    <2>3. PICK r \in Stored(q.a * q.b) : x = With(M, "response", r)
      BY <2>1, <2>2 DEF Mul
    <2>4. r \in Answers(call)
      BY <1>1, <1>5, <2>3 DEF Answers, Stored
    <2>5. Fits("int32", r)
      BY <2>3, StoredType DEF Fits
    <2> QED
      BY <1>2, <2>1, <2>3, <2>4, <2>5
  <1>6. CASE call.method = "Div"
    <2>1. M = << F(1, "result", "double") >> /\ M = DivideResponse
      BY <1>6 DEF GetResponsePrototype, DivideResponse
    <2>2. x \in Div(q)
      BY <1>6 DEF CallMethod, q
    <2>3. x = With(M, "result", Quotient(q.a, q.b))
      BY <2>1, <2>2 DEF Div
    <2>4. Quotient(q.a, q.b) \in Answers(call)
      BY <1>1, <1>6 DEF Answers
    <2>5. Fits("double", Quotient(q.a, q.b))
      BY DEF Fits
    <2> QED
      BY <1>2, <2>1, <2>3, <2>4, <2>5
  <1> QED
    BY <1>3, <1>4, <1>5, <1>6 DEF Methods

-----------------------------------------------------------------------------
(* A call on its way *)

(* What the server reads from the request of a call. *)
AsRead(call, request) ==
    /\ request.service_name = call.service /\ request.method_name = call.method
    /\ request.request_data = Arguments(call) \o call.more_arguments

LEMMA CallTyped ==
    ASSUME NEW k \in DOMAIN Calls, NEW call, call = Calls[k]
    PROVE  /\ call.a \in Int32 /\ call.b \in Int32
           /\ Repeats(GetRequestPrototype(call.method), ArgumentsMessage(call),
                      call.more_arguments)
           /\ \A id \in Ids : Repeats(RpcRequestProto, createRequestProto(Request(call, id)),
                                      call.more_fields)
  BY CallsAssumption

LEMMA RequestHeard ==
    ASSUME NEW k \in DOMAIN Calls, NEW call, call = Calls[k], NEW id \in Ids,
           NEW data, data = RequestOf(call, id), NEW request \in parseRequest(data)
    PROVE  /\ data # <<>>
           /\ request.ok => AsRead(call, request.message)
           /\ ~request.ok => \/ ~Sound(call.more_fields)
                             \/ call.method \notin Methods \/ call.service \in NotUtf8
  <1>1. PICK m : m = createRequestProto(Request(call, id))
    OBVIOUS
  <1>2. PICK M : M = RpcRequestProto
    OBVIOUS
  <1>3. /\ Suits(M, m) /\ Content(M, m, 1) = id /\ Content(M, m, 2) = call.service
        /\ Content(M, m, 3) = call.method /\ Content(M, m, 4) = ""
        /\ Content(M, m, 5) = Arguments(call) \o call.more_arguments
    <2>1. PICK sent : sent = Request(call, id)
      OBVIOUS
    <2>2. /\ Suits(M, m) /\ Content(M, m, 1) = sent.request_id
          /\ Content(M, m, 2) = sent.service_name /\ Content(M, m, 3) = sent.method_name
          /\ Content(M, m, 4) = "" /\ Content(M, m, 5) = sent.request_data
      BY <1>1, <1>2, <2>1, RequestMessage
    <2>3. /\ sent.request_id = id /\ sent.service_name = call.service
          /\ sent.method_name = call.method
          /\ sent.request_data = Arguments(call) \o call.more_arguments
      BY <2>1 DEF Request
    <2> QED
      BY <2>2, <2>3
  <1>4. IsProto(M) /\ DOMAIN M = 1..7
    BY <1>2, RequestProto
  <1>5. /\ M[1].name = "request_id" /\ M[2].name = "service_name" /\ M[3].name = "method_name"
        /\ M[4].name = "client_id" /\ M[5].name = "request_data"
        /\ M[1].type = "uint64" /\ M[2].type = "string" /\ M[3].type = "string"
        /\ M[4].type = "string" /\ M[5].type = "bytes" /\ M[6].type = "int32"
        /\ M[7].type = "map"
    BY <1>2 DEF RpcRequestProto, F
  <1>6. Sent(data, M, m, call.more_fields)
    BY <1>1, <1>2, <1>3, <1>4, CallTyped DEF Sent, RequestOf, serializeRequest
  <1>7. data # <<>>
    <2>1. id # Default("uint64")
      BY IdsAssumption DEF Default
    <2>2. IsSet(M[1], Content(M, m, 1))
      BY <1>3, <1>5, <2>1 DEF IsSet
    <2> QED
      BY <1>4, <1>5, <1>6, <2>2, SetNotEmpty
  <1>8. PICK p : p = ParseFromArray(M, data)
    OBVIOUS
  <1>9. request = IF p.ok THEN Parsed(fromRequestProto(p.message.fields)) ELSE Failure
    BY <1>2, <1>7, <1>8 DEF parseRequest
  <1>10. CASE p.ok
    <2>1. /\ p.message.fields["service_name"] = call.service
          /\ p.message.fields["method_name"] = call.method
          /\ p.message.fields["request_data"] = Arguments(call) \o call.more_arguments
      <3>1. \A j \in DOMAIN M : M[j].type # "map" =>
                p.message.fields[M[j].name] = Content(M, m, j)
        BY <1>6, <1>8, <1>10, ParsedBack
      <3>2. /\ p.message.fields[M[2].name] = Content(M, m, 2)
            /\ p.message.fields[M[3].name] = Content(M, m, 3)
            /\ p.message.fields[M[5].name] = Content(M, m, 5)
        BY <1>4, <1>5, <3>1
      <3> QED
        BY <1>3, <1>5, <3>2
    <2>2. PICK fields : fields = p.message.fields
      OBVIOUS
    <2>3. request = Parsed(fromRequestProto(fields))
      BY <1>9, <1>10, <2>2
    <2>4. /\ request.ok = TRUE
          /\ request.message.service_name = fields["service_name"]
          /\ request.message.method_name = fields["method_name"]
          /\ request.message.request_data = fields["request_data"]
      BY <2>3 DEF Parsed, fromRequestProto
    <2>5. AsRead(call, request.message)
      BY <2>1, <2>2, <2>4 DEF AsRead
    <2> QED
      BY <1>7, <2>4, <2>5
  <1>11. CASE ~p.ok
    <2>1. request.ok = FALSE
      BY <1>9, <1>11 DEF Failure
    <2>2. ~Speaks(M, m) \/ ~Sound(call.more_fields)
      BY <1>6, <1>8, <1>11, ParsedBack
    <2>3. ASSUME ~Speaks(M, m) PROVE call.method \notin Methods \/ call.service \in NotUtf8
      <3>1. PICK j \in 1..7 : M[j].type = "string" /\ Content(M, m, j) \in NotUtf8
        BY <1>4, <2>3 DEF Speaks
      <3>2. j = 2 \/ j = 3 \/ j = 4
        <4>1. j = 1 \/ j = 2 \/ j = 3 \/ j = 4 \/ j = 5 \/ j = 6 \/ j = 7
          OBVIOUS
        <4> QED
          BY <1>5, <3>1, <4>1
      <3>3. call.service \in NotUtf8 \/ call.method \in NotUtf8 \/ "" \in NotUtf8
        BY <1>3, <3>1, <3>2
      <3> QED
        BY <3>3, NamesAssumption
    <2> QED
      BY <1>7, <2>1, <2>2, <2>3
  <1> QED
    BY <1>10, <1>11

LEMMA ArgumentsHeard ==
    ASSUME NEW k \in DOMAIN Calls, NEW call, call = Calls[k],
           NEW p, p = ParseFromArray(GetRequestPrototype(call.method),
                                     Arguments(call) \o call.more_arguments)
    PROVE  /\ p.ok => p.message.fields["a"] = call.a /\ p.message.fields["b"] = call.b
           /\ ~p.ok => ~Sound(call.more_arguments)
  <1>1. PICK m : m = ArgumentsMessage(call)
    OBVIOUS
  <1>2. PICK M : M = GetRequestPrototype(call.method)
    OBVIOUS
  <1>3. /\ IsProto(M) /\ DOMAIN M = 1..2 /\ Suits(M, m) /\ Speaks(M, m)
        /\ M[1].name = "a" /\ M[2].name = "b" /\ M[1].type = "int32" /\ M[2].type = "int32"
        /\ Content(M, m, 1) = call.a /\ Content(M, m, 2) = call.b
    BY <1>1, <1>2, CallTyped, ArgumentsMessages
  <1>4. PICK data : data = Arguments(call) \o call.more_arguments
    OBVIOUS
  <1>5. Sent(data, M, m, call.more_arguments)
    BY <1>1, <1>2, <1>3, <1>4, CallTyped DEF Sent, Arguments
  <1>6. p = ParseFromArray(M, data)
    BY <1>2, <1>4
  <1>7. ASSUME p.ok PROVE p.message.fields["a"] = call.a /\ p.message.fields["b"] = call.b
    <2>1. \A j \in DOMAIN M : M[j].type # "map" =>
              p.message.fields[M[j].name] = Content(M, m, j)
      BY <1>5, <1>6, <1>7, ParsedBack
    <2>2. /\ p.message.fields[M[1].name] = Content(M, m, 1)
          /\ p.message.fields[M[2].name] = Content(M, m, 2)
      BY <1>3, <2>1
    <2> QED
      BY <1>3, <2>2
  <1>8. Sound(call.more_arguments) => p.ok
    BY <1>3, <1>5, <1>6, ParsedBack
  <1> QED
    BY <1>7, <1>8

(* An error response has a text. *)
Worded(response) ==
    /\ response.success \in BOOLEAN
    /\ ~response.success => response.error_message # "" /\ response.error_message \notin NotUtf8

LEMMA ResponseHeard ==
    ASSUME NEW response, Worded(response),
           NEW data, data = SerializeToString(RpcResponseProto, createResponseProto(response)),
           NEW heard \in parseResponse(data)
    PROVE  /\ data # <<>> /\ heard.ok
           /\ heard.message.success = response.success
           /\ heard.message.response_data = response.response_data
  <1>1. PICK m : m = createResponseProto(response)
    OBVIOUS
  <1>2. PICK M : M = RpcResponseProto
    OBVIOUS
  <1>3. /\ Suits(M, m) /\ Content(M, m, 2) = response.success
        /\ Content(M, m, 3) = response.response_data
        /\ Content(M, m, 5) = IF response.success THEN "" ELSE response.error_message
    <2>1. response.success \in BOOLEAN
      BY DEF Worded
    <2>2. Responds(M, m, response)
      BY <1>1, <1>2, <2>1, ResponseMessage
    <2> QED
      BY <2>2, Zenon DEF Responds
  <1>4. IsProto(M) /\ DOMAIN M = 1..6
    BY <1>2, ResponseProto
  <1>5. /\ M[2].name = "success" /\ M[3].name = "response_data" /\ M[5].name = "error_message"
        /\ M[1].type = "uint64" /\ M[2].type = "bool" /\ M[3].type = "bytes"
        /\ M[4].type = "int32" /\ M[5].type = "string" /\ M[6].type = "map"
    BY <1>2 DEF RpcResponseProto, F
  <1>6. Sent(data, M, m, <<>>) /\ Sound(<<>>)
    BY <1>1, <1>2, <1>3, <1>4, SentPlain
  <1>7. data # <<>>
    <2>1. CASE response.success
      <3>1. Content(M, m, 2) # Default("bool")
        <4>1. Default("bool") = FALSE
          BY DEF Default
        <4> QED
          BY <1>3, <2>1, <4>1, Zenon
      <3>2. IsSet(M[2], Content(M, m, 2))
        BY <1>5, <3>1 DEF IsSet
      <3> QED
        BY <1>4, <1>5, <1>6, <3>2, SetNotEmpty
    <2>2. CASE ~response.success
      <3>1. Content(M, m, 5) # Default("string")
        BY <1>3, <2>2 DEF Default, Worded
      <3>2. IsSet(M[5], Content(M, m, 5))
        BY <1>5, <3>1 DEF IsSet
      <3> QED
        BY <1>4, <1>5, <1>6, <3>2, SetNotEmpty
    <2> QED
      BY <2>1, <2>2
  <1>8. Speaks(M, m)
    <2> SUFFICES ASSUME NEW j \in 1..6, M[j].type = "string" PROVE Content(M, m, j) \notin NotUtf8
      BY <1>4 DEF Speaks
    <2>1. j = 5
      <3>1. j = 1 \/ j = 2 \/ j = 3 \/ j = 4 \/ j = 5 \/ j = 6
        OBVIOUS
      <3> QED
        BY <1>5, <3>1
    <2>2. "" \notin NotUtf8
      BY NamesAssumption
    <2> QED
      BY <1>3, <2>1, <2>2 DEF Worded
  <1>9. PICK p : p = ParseFromArray(M, data)
    OBVIOUS
  <1>10. p.ok /\ \A j \in DOMAIN M : M[j].type # "map" =>
                    p.message.fields[M[j].name] = Content(M, m, j)
    BY <1>6, <1>8, <1>9, ParsedBack
  <1>11. heard = Parsed(fromResponseProto(p.message.fields))
    BY <1>2, <1>7, <1>9, <1>10 DEF parseResponse
  <1>12. PICK fields : fields = p.message.fields
    OBVIOUS
  <1>13. fields["success"] = response.success /\ fields["response_data"] = response.response_data
    <2>1. /\ fields[M[2].name] = Content(M, m, 2)
          /\ fields[M[3].name] = Content(M, m, 3)
      BY <1>4, <1>5, <1>10, <1>12
    <2> QED
      BY <1>3, <1>5, <2>1
  <1>14. /\ heard.ok = TRUE
         /\ heard.message.success = fields["success"]
         /\ heard.message.response_data = fields["response_data"]
    BY <1>11, <1>12 DEF Parsed, fromResponseProto
  <1> QED
    BY <1>7, <1>13, <1>14

LEMMA ResultHeard ==
    ASSUME NEW call, NEW M, NEW x, Answering(M, x, call),
           NEW p, p = ParseFromArray(M, SerializeToString(M, x))
    PROVE  p.ok /\ p.message.fields[M[1].name] \in Answers(call)
  <1>1. /\ IsProto(M) /\ 1 \in DOMAIN M /\ M[1].type # "map"
        /\ Suits(M, x) /\ Speaks(M, x) /\ Content(M, x, 1) \in Answers(call)
    BY DEF Answering
  <1>2. PICK data : data = SerializeToString(M, x)
    OBVIOUS
  <1>3. Sent(data, M, x, <<>>) /\ Sound(<<>>)
    BY <1>1, <1>2, SentPlain
  <1>4. p.ok /\ p.message.fields[M[1].name] = Content(M, x, 1)
    BY <1>1, <1>2, <1>3, ParsedBack
  <1> QED
    BY <1>1, <1>4

(* From nothing a parser makes a new message. *)
LEMMA NothingHeard ==
    ASSUME NEW M
    PROVE  ParseFromArray(M, <<>>) = Parsed(New(M))
  <1>1. DOMAIN <<>> = {} /\ <<>> \in Seq({}) /\ Len(<<>>) = 0
    OBVIOUS
  <1>2. \A f : At(f, <<>>) = {}
    BY <1>1 DEF At
  <1>3. Readable(M, <<>>)
    BY <1>1, <1>2 DEF Readable
  <1>4. ASSUME NEW f PROVE Value(f, <<>>) = Default(f.type)
    <2>1. CASE f.type = "map"
      <3>1. Keys(f, <<>>) = {}
        BY <1>2 DEF Keys
      <3>2. Default("map") = <<>>
        BY DEF Default, NoMetadata
      <3>3. Value(f, <<>>) = <<>>
        BY <2>1, <3>1 DEF Value
      <3> QED
        BY <2>1, <3>2, <3>3
    <2>2. CASE f.type # "map"
      BY <1>2, <2>2 DEF Value
    <2> QED
      BY <2>1, <2>2
  <1>5. [name \in Names(M) |-> Value(FieldOf(M, name), <<>>)] = New(M).fields
    BY <1>4 DEF New
  <1>6. ElementsAt(<<>>, Unknown(M, <<>>)) = <<>>
    <2>1. PICK t : t = ElementsAt(<<>>, Unknown(M, <<>>))
      OBVIOUS
    <2>2. Taken(t, {}, <<>>, Unknown(M, <<>>), 0)
      BY <1>1, <2>1, ElementsTaken
    <2>3. t \in Seq({})
      BY <2>2 DEF Taken
    <2> QED
      BY <2>1, <2>3
  <1>7. New(M) = [fields |-> New(M).fields, unknown |-> <<>>]
    BY DEF New
  <1> QED
    BY <1>3, <1>5, <1>6, <1>7 DEF ParseFromArray

(* Where a call is, and what it has become there. *)
AsSent(call, up) == \E id \in Ids : up = <<RequestOf(call, id)>>

AsExecuted(call, h) ==
    /\ AsRead(call, h.request) /\ call.method \in Methods
    /\ h.message.fields["a"] = call.a /\ h.message.fields["b"] = call.b

Carried(response) == <<SerializeToString(RpcResponseProto, createResponseProto(response))>>

Success(call, down) ==
    \E response, x :
        /\ response.success = TRUE
        /\ response.response_data = SerializeToString(GetResponsePrototype(call.method), x)
        /\ Answering(GetResponsePrototype(call.method), x, call)
        /\ down = Carried(response)

(* What a call may fail for. *)
Excuse(call, missing) ==
    \/ missing \/ call.method \notin Methods
    \/ ~Sound(call.more_fields) \/ ~Sound(call.more_arguments)

Refusal(call, missing, down) == Excuse(call, missing) /\ down = Carried(ErrorResponse)

Underway(call, cl, h, up, down, registered) ==
    /\ cl.missing \/ call.service \in registered
    /\ up # <<>> => AsSent(call, up)
    /\ h.at = "look up" => AsRead(call, h.request)
    /\ h.at = "execute" => AsExecuted(call, h)
    /\ down # <<>> => Success(call, down) \/ Refusal(call, cl.missing, down)

Fulfilled(call, got) ==
    got.ok /\ got.message.fields[GetResponsePrototype(call.method)[1].name] \in Answers(call)

Failed(call, missing, got) ==
    got = Parsed(New(GetResponsePrototype(call.method))) /\ Excuse(call, missing)

Done(call, cl) ==
    /\ cl.success => Fulfilled(call, cl.got)
    /\ ~cl.success => Failed(call, cl.missing, cl.got)

Course(cl, h, up, down, registered) ==
    /\ cl.at # "idle" => cl.call \in DOMAIN Calls
    /\ cl.at = "waiting" => Underway(Calls[cl.call], cl, h, up, down, registered)
    /\ cl.at = "returned" => Done(Calls[cl.call], cl)

Registered == {name \in DOMAIN services : services[name] # Unregistered}
Named == DOMAIN services = {NameOf[o] : o \in Objects}

Following(c) == Course(caller[c], handler[c], toServer[c], toClient[c], Registered)
Faithful == Named /\ \A c \in Callers : Following(c)

LEMMA FaithfulInit == Init => Faithful
  <1> SUFFICES ASSUME Init PROVE Faithful
    OBVIOUS
  <1>1. Named
    BY DEF Init, Named
  <1>2. ASSUME NEW c \in Callers PROVE Following(c)
    <2>1. caller[c].at = "idle"
      BY DEF Init, Idle
    <2> QED BY <2>1 DEF Following, Course
  <1> QED BY <1>1, <1>2 DEF Faithful

(* Only what belongs to client c changes. *)
LEMMA OneFollowing ==
    ASSUME Faithful, NEW c \in Callers, UNCHANGED services, Following(c)',
           \A d \in Callers \ {c} : /\ caller'[d] = caller[d] /\ handler'[d] = handler[d]
                                    /\ toServer'[d] = toServer[d] /\ toClient'[d] = toClient[d]
    PROVE  Faithful'
  <1>1. Named' /\ Registered' = Registered
    BY DEF Faithful, Named, Registered
  <1>2. ASSUME NEW d \in Callers \ {c} PROVE Following(d)'
    <2>1. Following(d)
      BY DEF Faithful
    <2> QED BY <1>1, <2>1 DEF Following
  <1> QED BY <1>1, <1>2 DEF Faithful

LEMMA FaithfulSend ==
    ASSUME Orderly, Faithful, NEW c \in Callers, NEW k \in DOMAIN Calls, NEW id \in Ids,
           SendRequest(c, k, id)
    PROVE  Faithful'
  <1>1. Nowhere(c)
    BY DEF Orderly, Somewhere, OnTheWay, AtWork, SendRequest
  <1>2. PICK call : call = Calls[k]
    OBVIOUS
  <1>3. PICK r : /\ r = [at |-> "waiting", call |-> k, missing |-> ~IsRegistered(call.service)]
                 /\ caller' = [caller EXCEPT ![c] = r]
    BY <1>2 DEF SendRequest
  <1>4. PICK data : data = RequestOf(call, id)
    OBVIOUS
  <1>5. toServer' = [toServer EXCEPT ![c] = toServer[c] \o encode(data)]
    BY <1>2, <1>4 DEF SendRequest, Requests
  <1>6. encode(data) = <<>> \/ encode(data) = <<data>>
    BY DEF encode
  <1>7. toServer[c] \o encode(data) = encode(data)
    BY <1>1, <1>6 DEF Nowhere
  <1>8. /\ caller'[c] = r /\ toServer'[c] = encode(data)
        /\ handler'[c] = Free /\ toClient'[c] = <<>> /\ UNCHANGED services
        /\ \A d \in Callers \ {c} : /\ caller'[d] = caller[d] /\ handler'[d] = handler[d]
                                    /\ toServer'[d] = toServer[d] /\ toClient'[d] = toClient[d]
    BY <1>1, <1>3, <1>5, <1>7 DEF Orderly, Maps, Nowhere, SendRequest
  <1>9. r.missing \/ call.service \in Registered
    <2>1. IsRegistered(call.service) => call.service \in Registered
      BY DEF IsRegistered, Registered
    <2>2. r.missing = ~IsRegistered(call.service)
      BY <1>3
    <2> QED BY <2>1, <2>2, Zenon
  <1>10. encode(data) # <<>> => AsSent(call, encode(data))
    BY <1>4, <1>6 DEF AsSent
  <1>11. Underway(call, r, Free, encode(data), <<>>, Registered)
    BY <1>9, <1>10 DEF Underway, Free
  <1>12. r.at = "waiting" /\ r.call = k
    BY <1>3
  <1>13. Course(r, Free, encode(data), <<>>, Registered)
    BY <1>2, <1>11, <1>12 DEF Course
  <1>14. Registered' = Registered
    BY <1>8 DEF Registered
  <1>15. Following(c)'
    BY <1>8, <1>13, <1>14 DEF Following
  <1> QED BY <1>8, <1>15, OneFollowing

(* A worker answers with an error for which there is a reason, or with a   *)
(* success.                                                                *)
LEMMA FaithfulAnswered ==
    ASSUME Orderly, Faithful, NEW c \in Callers, InHand(c),
           NEW response, Worded(response),
           sendResponse(c, response), handler' = [handler EXCEPT ![c] = Free],
           NEW call, call = Calls[caller[c].call],
           Success(call, Carried(response)) \/ Refusal(call, caller[c].missing, Carried(response))
    PROVE  Faithful'
  <1>1. PICK data : data = SerializeToString(RpcResponseProto, createResponseProto(response))
    OBVIOUS
  <1>2. toClient' = [toClient EXCEPT ![c] = toClient[c] \o encode(data)]
    BY <1>1 DEF sendResponse, serializeResponse
  <1>3. data # <<>>
    <2>1. PICK heard : heard \in parseResponse(data)
      BY DEF parseResponse
    <2> QED BY <1>1, <2>1, ResponseHeard
  <1>4. encode(data) = <<data>> /\ Carried(response) = <<data>>
    BY <1>1, <1>3 DEF encode, Carried
  <1>5. toClient[c] \o <<data>> = <<data>>
    BY DEF InHand
  <1>6. /\ toClient'[c] = <<data>> /\ handler'[c] = Free /\ toServer'[c] = <<>>
        /\ caller'[c] = caller[c] /\ UNCHANGED services
        /\ \A d \in Callers \ {c} : /\ caller'[d] = caller[d] /\ handler'[d] = handler[d]
                                    /\ toServer'[d] = toServer[d] /\ toClient'[d] = toClient[d]
    BY <1>2, <1>4, <1>5 DEF Orderly, Maps, InHand
  <1>7. PICK cl : cl = caller[c] /\ cl.at = "waiting"
    BY DEF InHand
  <1>8. Course(cl, handler[c], toServer[c], toClient[c], Registered)
    BY <1>7 DEF Faithful, Following
  <1>9. cl.call \in DOMAIN Calls /\ (cl.missing \/ call.service \in Registered)
    BY <1>7, <1>8, Zenon DEF Course, Underway
  <1>10. Success(call, <<data>>) \/ Refusal(call, cl.missing, <<data>>)
    BY <1>4, <1>7
  <1>11. Free.at = "free"
    BY DEF Free
  <1>12. Underway(call, cl, Free, <<>>, <<data>>, Registered)
    BY <1>9, <1>10, <1>11 DEF Underway
  <1>13. Course(cl, Free, <<>>, <<data>>, Registered)
    BY <1>7, <1>9, <1>12 DEF Course
  <1>14. Registered' = Registered
    BY <1>6 DEF Registered
  <1>15. Following(c)'
    BY <1>6, <1>7, <1>13, <1>14 DEF Following
  <1> QED BY <1>6, <1>15, OneFollowing

LEMMA FaithfulRefused ==
    ASSUME Orderly, Faithful, NEW c \in Callers, InHand(c), Refuse(c),
           NEW call, call = Calls[caller[c].call], Excuse(call, caller[c].missing)
    PROVE  Faithful'
  <1>1. PICK response : response = ErrorResponse
    OBVIOUS
  <1>2. response.success = FALSE /\ response.error_message = "error"
    BY <1>1 DEF ErrorResponse
  <1>3. Worded(response)
    BY <1>2, NamesAssumption DEF Worded
  <1>4. Refusal(call, caller[c].missing, Carried(response))
    BY <1>1 DEF Refusal
  <1>5. sendResponse(c, response) /\ handler' = [handler EXCEPT ![c] = Free]
    BY <1>1 DEF Refuse
  <1> QED BY <1>3, <1>4, <1>5, FaithfulAnswered

(* A worker goes on with its request. *)
LEMMA FaithfulWork ==
    ASSUME Orderly, Faithful, NEW c \in Callers, InHand(c), UNCHANGED toClient,
           NEW h, handler' = [handler EXCEPT ![c] = h],
           NEW call, call = Calls[caller[c].call],
           \/ h.at = "look up" /\ AsRead(call, h.request)
           \/ h.at = "execute" /\ AsExecuted(call, h)
    PROVE  Faithful'
  <1>1. /\ toClient'[c] = <<>> /\ handler'[c] = h /\ toServer'[c] = <<>>
        /\ caller'[c] = caller[c] /\ UNCHANGED services
        /\ \A d \in Callers \ {c} : /\ caller'[d] = caller[d] /\ handler'[d] = handler[d]
                                    /\ toServer'[d] = toServer[d] /\ toClient'[d] = toClient[d]
    BY DEF Orderly, Maps, InHand
  <1>2. PICK cl : cl = caller[c] /\ cl.at = "waiting"
    BY DEF InHand
  <1>3. Course(cl, handler[c], toServer[c], toClient[c], Registered)
    BY <1>2 DEF Faithful, Following
  <1>4. cl.call \in DOMAIN Calls /\ (cl.missing \/ call.service \in Registered)
    BY <1>2, <1>3, Zenon DEF Course, Underway
  <1>5. Underway(call, cl, h, <<>>, <<>>, Registered)
    BY <1>4 DEF Underway
  <1>6. Course(cl, h, <<>>, <<>>, Registered)
    BY <1>2, <1>4, <1>5 DEF Course
  <1>7. Registered' = Registered
    BY <1>1 DEF Registered
  <1>8. Following(c)'
    BY <1>1, <1>2, <1>6, <1>7 DEF Following
  <1> QED BY <1>1, <1>8, OneFollowing

(* The call of a client whose request or answer is in hand. *)
LEMMA CourseOf ==
    ASSUME Faithful, NEW c \in Callers, caller[c].at = "waiting",
           NEW call, call = Calls[caller[c].call]
    PROVE  /\ caller[c].call \in DOMAIN Calls
           /\ Underway(call, caller[c], handler[c], toServer[c], toClient[c], Registered)
  BY DEF Faithful, Following, Course

LEMMA FaithfulHandle ==
    ASSUME Orderly, Faithful, NEW c \in Callers, HandleRpcRequest(c)
    PROVE  Faithful'
  <1>1. toServer[c] # <<>>
    BY DEF HandleRpcRequest
  <1>2. OnTheWay(c)
    BY <1>1 DEF Orderly, Somewhere, Nowhere, AtWork
  <1>3. Single(toServer[c]) /\ toClient[c] = <<>> /\ caller[c].at = "waiting"
    BY <1>1, <1>2 DEF OnTheWay
  <1>4. toServer' = [toServer EXCEPT ![c] = Tail(toServer[c])] /\ Tail(toServer[c]) = <<>>
    BY <1>3, SingleOne DEF HandleRpcRequest
  <1>5. InHand(c)
    BY <1>2, <1>3, <1>4 DEF Orderly, Maps, InHand, OnTheWay, HandleRpcRequest
  <1>6. PICK call : call = Calls[caller[c].call]
    OBVIOUS
  <1>7. /\ caller[c].call \in DOMAIN Calls
        /\ Underway(call, caller[c], handler[c], toServer[c], toClient[c], Registered)
    BY <1>3, <1>6, CourseOf
  <1>8. PICK id \in Ids : toServer[c] = <<RequestOf(call, id)>>
    BY <1>1, <1>7 DEF Underway, AsSent
  <1>9. PICK data : data = RequestOf(call, id) /\ Head(toServer[c]) = data
    BY <1>8
  <1>10. PICK request \in parseRequest(data) :
          IF request.ok
          THEN /\ handler' = [handler EXCEPT ![c] = [at |-> "look up", request |-> request.message]]
               /\ UNCHANGED toClient
          ELSE Refuse(c)
    BY <1>9 DEF HandleRpcRequest
  <1>11. /\ request.ok => AsRead(call, request.message)
         /\ ~request.ok => \/ ~Sound(call.more_fields)
                           \/ call.method \notin Methods \/ call.service \in NotUtf8
    BY <1>6, <1>7, <1>9, RequestHeard, Zenon
  <1>12. CASE request.ok
    <2>1. PICK h : h = [at |-> "look up", request |-> request.message]
      OBVIOUS
    <2>2. h.at = "look up" /\ AsRead(call, h.request)
      BY <1>11, <1>12, <2>1
    <2>3. handler' = [handler EXCEPT ![c] = h] /\ UNCHANGED toClient
      BY <1>10, <1>12, <2>1
    <2> QED BY <1>5, <1>6, <2>2, <2>3, FaithfulWork
  <1>13. CASE ~request.ok
    <2>1. call.service \in NotUtf8 => call.service \notin Registered
      BY NamesAssumption DEF Faithful, Named, Registered
    <2>2. caller[c].missing \/ call.service \in Registered
      BY <1>7, Zenon DEF Underway
    <2>3. Excuse(call, caller[c].missing)
      BY <1>11, <1>13, <2>1, <2>2, Zenon DEF Excuse
    <2>4. Refuse(c)
      BY <1>10, <1>13
    <2> QED BY <1>5, <1>6, <2>3, <2>4, FaithfulRefused, Zenon
  <1> QED BY <1>12, <1>13

LEMMA FaithfulCall ==
    ASSUME Orderly, Faithful, NEW c \in Callers, CallServiceMethod(c)
    PROVE  Faithful'
  <1>1. InHand(c) /\ handler[c].at = "look up"
    BY WorkInHand DEF CallServiceMethod
  <1>2. PICK call : call = Calls[caller[c].call]
    OBVIOUS
  <1>3. /\ caller[c].call \in DOMAIN Calls
        /\ Underway(call, caller[c], handler[c], toServer[c], toClient[c], Registered)
    BY <1>1, <1>2, CourseOf DEF InHand
  <1>4. PICK request : request = handler[c].request
    OBVIOUS
  <1>5. AsRead(call, request)
    BY <1>1, <1>3, <1>4 DEF Underway
  <1>6. /\ request.service_name = call.service /\ request.method_name = call.method
        /\ request.request_data = Arguments(call) \o call.more_arguments
    BY <1>5 DEF AsRead
  <1>7. PICK parsed :
            /\ parsed = ParseFromArray(GetRequestPrototype(call.method),
                                       Arguments(call) \o call.more_arguments)
            /\ IF IsRegistered(call.service) /\ call.method \in Methods /\ parsed.ok
               THEN /\ handler' = [handler EXCEPT ![c] =
                          [at |-> "execute", object |-> services[call.service],
                           request |-> request, message |-> parsed.message]]
                    /\ UNCHANGED toClient
               ELSE Refuse(c)
    BY <1>4, <1>6 DEF CallServiceMethod
  <1>8. /\ parsed.ok => /\ parsed.message.fields["a"] = call.a
                        /\ parsed.message.fields["b"] = call.b
        /\ ~parsed.ok => ~Sound(call.more_arguments)
    BY <1>2, <1>3, <1>7, ArgumentsHeard
  <1>9. CASE IsRegistered(call.service) /\ call.method \in Methods /\ parsed.ok
    <2>1. PICK h : h = [at |-> "execute", object |-> services[call.service],
                        request |-> request, message |-> parsed.message]
      OBVIOUS
    <2>2. handler' = [handler EXCEPT ![c] = h] /\ UNCHANGED toClient
      BY <1>7, <1>9, <2>1
    <2>3. h.at = "execute" /\ h.request = request /\ h.message = parsed.message
      BY <2>1
    <2>4. AsExecuted(call, h)
      BY <1>5, <1>8, <1>9, <2>3 DEF AsExecuted
    <2> QED BY <1>1, <1>2, <2>2, <2>3, <2>4, FaithfulWork
  <1>10. CASE ~(IsRegistered(call.service) /\ call.method \in Methods /\ parsed.ok)
    <2>1. Refuse(c)
      BY <1>7, <1>10, Zenon
    <2>2. ~IsRegistered(call.service) => call.service \notin Registered
      BY DEF IsRegistered, Registered
    <2>3. caller[c].missing \/ call.service \in Registered
      BY <1>3, Zenon DEF Underway
    <2>4. Excuse(call, caller[c].missing)
      BY <1>8, <1>10, <2>2, <2>3, Zenon DEF Excuse
    <2> QED BY <1>1, <1>2, <2>1, <2>4, FaithfulRefused, Zenon
  <1> QED BY <1>9, <1>10

LEMMA FaithfulExecute ==
    ASSUME Orderly, Faithful, NEW c \in Callers, Execute(c)
    PROVE  Faithful'
  <1>1. InHand(c) /\ handler[c].at = "execute"
    BY WorkInHand DEF Execute
  <1>2. PICK call : call = Calls[caller[c].call]
    OBVIOUS
  <1>3. /\ caller[c].call \in DOMAIN Calls
        /\ Underway(call, caller[c], handler[c], toServer[c], toClient[c], Registered)
    BY <1>1, <1>2, CourseOf DEF InHand
  <1>4. AsExecuted(call, handler[c])
    BY <1>1, <1>3 DEF Underway
  <1>5. PICK message : message = handler[c].message
    OBVIOUS
  <1>6. /\ call.method \in Methods /\ handler[c].request.method_name = call.method
        /\ message.fields["a"] = call.a /\ message.fields["b"] = call.b
    BY <1>4, <1>5 DEF AsExecuted, AsRead
  <1>7. PICK x \in CallMethod(call.method, message) :
            sendResponse(c, [request_id |-> handler[c].request.request_id, success |-> TRUE,
                             error_message |-> "",
                             response_data |->
                                 SerializeToString(GetResponsePrototype(call.method), x)])
    BY <1>5, <1>6 DEF Execute
  <1>8. PICK response :
            response = [request_id |-> handler[c].request.request_id, success |-> TRUE,
                        error_message |-> "",
                        response_data |-> SerializeToString(GetResponsePrototype(call.method), x)]
    OBVIOUS
  <1>9. /\ response.success = TRUE
        /\ response.response_data = SerializeToString(GetResponsePrototype(call.method), x)
    BY <1>8
  <1>10. sendResponse(c, response)
    BY <1>7, <1>8
  <1>11. Answering(GetResponsePrototype(call.method), x, call)
    BY <1>6, <1>7, MethodAnswers
  <1>12. Success(call, Carried(response))
    BY <1>9, <1>11, Zenon DEF Success
  <1>13. Worded(response)
    BY <1>9 DEF Worded
  <1>14. handler' = [handler EXCEPT ![c] = Free]
    BY DEF Execute
  <1> QED BY <1>1, <1>2, <1>10, <1>12, <1>13, <1>14, FaithfulAnswered

LEMMA FaithfulReceive ==
    ASSUME Orderly, Faithful, NEW c \in Callers, ReceiveResponse(c)
    PROVE  Faithful'
  <1>1. toClient[c] # <<>> /\ UNCHANGED services
    BY DEF ReceiveResponse
  <1>2. OnTheWay(c)
    BY <1>1 DEF Orderly, Somewhere, Nowhere, AtWork
  <1>3. caller[c].at = "waiting"
    BY <1>2 DEF OnTheWay
  <1>4. PICK call : call = Calls[caller[c].call]
    OBVIOUS
  <1>5. /\ caller[c].call \in DOMAIN Calls
        /\ Underway(call, caller[c], handler[c], toServer[c], toClient[c], Registered)
    BY <1>3, <1>4, CourseOf
  <1>6. Success(call, toClient[c]) \/ Refusal(call, caller[c].missing, toClient[c])
    BY <1>1, <1>5 DEF Underway
  <1>7. PICK M : M = GetResponsePrototype(call.method)
    OBVIOUS
  <1>8. PICK heard \in parseResponse(Head(toClient[c])) :
          \E got \in {IF heard.ok THEN ParseFromArray(M, heard.message.response_data)
                      ELSE Failure} :
             caller' = [caller EXCEPT ![c] =
                           [at |-> "returned", call |-> caller[c].call,
                            missing |-> caller[c].missing,
                            success |-> heard.ok /\ heard.message.success, got |-> got]]
    BY <1>4, <1>7 DEF ReceiveResponse
  <1>9. PICK got :
          /\ got = IF heard.ok THEN ParseFromArray(M, heard.message.response_data) ELSE Failure
          /\ caller' = [caller EXCEPT ![c] =
                           [at |-> "returned", call |-> caller[c].call,
                            missing |-> caller[c].missing,
                            success |-> heard.ok /\ heard.message.success, got |-> got]]
    BY <1>8
  <1>10. PICK r : /\ r = [at |-> "returned", call |-> caller[c].call,
                          missing |-> caller[c].missing,
                          success |-> heard.ok /\ heard.message.success, got |-> got]
                  /\ caller' = [caller EXCEPT ![c] = r]
    BY <1>9
  <1>11. /\ r.at = "returned" /\ r.call = caller[c].call /\ r.missing = caller[c].missing
         /\ r.got = got
    BY <1>10
  <1>12. r.success = (heard.ok /\ heard.message.success)
    BY <1>10, Zenon
  <1>13. Done(call, r)
    <2>1. CASE Success(call, toClient[c])
      <3>1. PICK response, x :
              /\ response.success = TRUE
              /\ response.response_data = SerializeToString(M, x)
              /\ Answering(M, x, call) /\ toClient[c] = Carried(response)
        BY <1>7, <2>1 DEF Success
      <3>2. PICK data : data = SerializeToString(RpcResponseProto, createResponseProto(response))
        OBVIOUS
      <3>3. Head(toClient[c]) = data
        BY <3>1, <3>2 DEF Carried
      <3>4. Worded(response)
        BY <3>1 DEF Worded
      <3>5. /\ heard.ok /\ heard.message.success = response.success
            /\ heard.message.response_data = response.response_data
        <4>1. heard \in parseResponse(data)
          BY <1>8, <3>3
        <4> QED BY <3>2, <3>4, <4>1, ResponseHeard
      <3>6. got = ParseFromArray(M, SerializeToString(M, x))
        BY <1>9, <3>1, <3>5, Zenon
      <3>7. got.ok /\ got.message.fields[M[1].name] \in Answers(call)
        BY <3>1, <3>6, ResultHeard
      <3>8. r.success
        BY <1>12, <3>1, <3>5, Zenon
      <3>9. Fulfilled(call, r.got)
        BY <1>7, <1>11, <3>7 DEF Fulfilled
      <3> QED BY <3>8, <3>9, Zenon DEF Done
    <2>2. CASE Refusal(call, caller[c].missing, toClient[c])
      <3>1. PICK response : response = ErrorResponse
        OBVIOUS
      <3>2. /\ response.success = FALSE /\ response.error_message = "error"
            /\ response.response_data = <<>>
        BY <3>1 DEF ErrorResponse
      <3>3. Excuse(call, caller[c].missing) /\ toClient[c] = Carried(response)
        BY <2>2, <3>1 DEF Refusal
      <3>4. PICK data : data = SerializeToString(RpcResponseProto, createResponseProto(response))
        OBVIOUS
      <3>5. Head(toClient[c]) = data
        BY <3>3, <3>4 DEF Carried
      <3>6. Worded(response)
        BY <3>2, NamesAssumption DEF Worded
      <3>7. /\ heard.ok /\ heard.message.success = response.success
            /\ heard.message.response_data = response.response_data
        <4>1. heard \in parseResponse(data)
          BY <1>8, <3>5
        <4> QED BY <3>4, <3>6, <4>1, ResponseHeard
      <3>8. got = ParseFromArray(M, <<>>)
        BY <1>9, <3>2, <3>7, Zenon
      <3>9. got = Parsed(New(M))
        BY <3>8, NothingHeard
      <3>10. ~r.success
        BY <1>12, <3>2, <3>7, Zenon
      <3>11. Failed(call, r.missing, r.got)
        BY <1>7, <1>11, <3>3, <3>9, Zenon DEF Failed
      <3> QED BY <3>10, <3>11, Zenon DEF Done
    <2> QED BY <1>6, <2>1, <2>2
  <1>14. /\ caller'[c] = r
         /\ \A d \in Callers \ {c} : /\ caller'[d] = caller[d] /\ handler'[d] = handler[d]
                                     /\ toServer'[d] = toServer[d] /\ toClient'[d] = toClient[d]
    BY <1>10 DEF Orderly, Maps, ReceiveResponse
  <1>15. Following(c)'
    <2>1. PICK h, up, down, names :
              h = handler'[c] /\ up = toServer'[c] /\ down = toClient'[c] /\ names = Registered'
      OBVIOUS
    <2>2. Course(r, h, up, down, names)
      BY <1>4, <1>5, <1>11, <1>13 DEF Course
    <2> QED BY <1>14, <2>1, <2>2 DEF Following
  <1> QED BY <1>1, <1>14, <1>15, OneFollowing

(* A registration gives no call a reason to fail; a removal does, and the  *)
(* calls under way remember it.                                            *)
LEMMA FaithfulChange ==
    ASSUME Orderly, Faithful, NEW name \in DOMAIN services, NEW object, Change(name, object)
    PROVE  Faithful'
  <1>1. /\ services' = [services EXCEPT ![name] = object]
        /\ UNCHANGED <<handler, toServer, toClient>>
    BY DEF Change
  <1>2. Named'
    BY <1>1 DEF Faithful, Named
  <1>3. ASSUME NEW c \in Callers PROVE Following(c)'
    <2>1. PICK cl, h, up, down :
            cl = caller[c] /\ h = handler[c] /\ up = toServer[c] /\ down = toClient[c]
      OBVIOUS
    <2>2. Course(cl, h, up, down, Registered)
      BY <2>1 DEF Faithful, Following
    <2>3. PICK call : call = Calls[cl.call]
      OBVIOUS
    <2>4. caller'[c] = IF cl.at = "waiting" /\ object = Unregistered /\ call.service = name
                       THEN [cl EXCEPT !.missing = TRUE] ELSE cl
      BY <2>1, <2>3 DEF Change
    <2>5. CASE cl.at = "waiting"
      <3>1. Underway(call, cl, h, up, down, Registered) /\ cl.call \in DOMAIN Calls
        BY <2>2, <2>3, <2>5 DEF Course
      <3>2. PICK ncl : ncl = caller'[c]
        OBVIOUS
      <3>3. ncl.at = cl.at /\ ncl.call = cl.call
        BY <2>4, <3>2
      <3>4. cl.missing => ncl.missing
        <4>1. CASE object = Unregistered /\ call.service = name
          BY <2>4, <2>5, <3>2, <4>1
        <4>2. CASE ~(object = Unregistered /\ call.service = name)
          BY <2>4, <3>2, <4>2
        <4> QED BY <4>1, <4>2
      <3>5. ncl.missing \/ call.service \in Registered'
        <4>1. CASE object = Unregistered /\ call.service = name
          BY <2>4, <2>5, <3>2, <4>1
        <4>2. CASE ~(object = Unregistered /\ call.service = name)
          <5>1. ncl = cl
            BY <2>4, <3>2, <4>2
          <5>2. call.service \in Registered => call.service \in Registered'
            BY <1>1, <4>2 DEF Registered, Orderly, Maps
          <5> QED BY <3>1, <5>1, <5>2, Zenon DEF Underway
        <4> QED BY <4>1, <4>2
      <3>6. Excuse(call, cl.missing) => Excuse(call, ncl.missing)
        BY <3>4, Zenon DEF Excuse
      <3>7. Underway(call, ncl, h, up, down, Registered')
        BY <3>1, <3>5, <3>6, Zenon DEF Underway, Refusal
      <3>8. Course(ncl, h, up, down, Registered')
        BY <2>3, <2>5, <3>1, <3>3, <3>7 DEF Course
      <3> QED BY <1>1, <2>1, <3>2, <3>8 DEF Following
    <2>6. CASE cl.at # "waiting"
      <3>1. caller'[c] = cl
        BY <2>4, <2>6
      <3>2. Course(cl, h, up, down, Registered')
        BY <2>2, <2>6 DEF Course
      <3> QED BY <1>1, <2>1, <3>1, <3>2 DEF Following
    <2> QED BY <2>5, <2>6
  <1> QED BY <1>2, <1>3 DEF Faithful

LEMMA FaithfulStep == Orderly /\ Faithful /\ [Next]_vars => Faithful'
  <1> SUFFICES ASSUME Orderly, Faithful, [Next]_vars PROVE Faithful'
    OBVIOUS
  <1>1. ASSUME NEW c \in Callers, Answer(c) PROVE Faithful'
    BY <1>1, FaithfulHandle, FaithfulCall, FaithfulExecute, FaithfulReceive DEF Answer
  <1>2. ASSUME NEW c \in Callers, NEW k \in DOMAIN Calls, NEW id \in Ids, SendRequest(c, k, id)
        PROVE  Faithful'
    BY <1>2, FaithfulSend
  <1>3. ASSUME NEW o \in Objects, RegisterService(o) PROVE Faithful'
    <2>1. NameOf[o] \in DOMAIN services
      BY DEF Faithful, Named
    <2> QED BY <1>3, <2>1, FaithfulChange DEF RegisterService
  <1>4. ASSUME NEW name \in DOMAIN services, UnregisterService(name) PROVE Faithful'
    BY <1>4, FaithfulChange DEF UnregisterService
  <1>5. CASE UNCHANGED vars
    <2>1. UNCHANGED <<services, caller, handler, toServer, toClient>>
      BY <1>5 DEF vars
    <2>2. Named' /\ Registered' = Registered
      BY <2>1 DEF Faithful, Named, Registered
    <2>3. ASSUME NEW c \in Callers PROVE Following(c)'
      BY <2>1, <2>2 DEF Faithful, Following
    <2> QED BY <2>2, <2>3 DEF Faithful
  <1> QED BY <1>1, <1>2, <1>3, <1>4, <1>5 DEF Next

LEMMA FaithfulAlways == Spec => []Faithful
  <1>1. Init => Orderly /\ Faithful
    BY OrderlyInit, FaithfulInit
  <1>2. (Orderly /\ Faithful) /\ [Next]_vars => (Orderly /\ Faithful)'
    BY OrderlyStep, FaithfulStep
  <1> QED BY <1>1, <1>2, PTL DEF Spec

(* What a client reads from an answer that reports success is the result   *)
(* of its method for its arguments, whatever a client of a newer version   *)
(* has added to its request: the fields with default values that neither   *)
(* encoding writes, and the sign in 64 bits, come back                     *)
(* (rpc_protocol_helper.cpp:9-129, rpc_server.cpp:322-356).                *)
THEOREM DispatchResultsAreExact == Spec => []ResultsAreExact
  <1>1. Faithful => ResultsAreExact
    <2> SUFFICES ASSUME Faithful, NEW c \in Callers,
                        caller[c].at = "returned" /\ caller[c].success
                 PROVE  LET call == Calls[caller[c].call]
                            field == GetResponsePrototype(call.method)[1].name
                        IN  /\ caller[c].got.ok
                            /\ caller[c].got.message.fields[field] \in Answers(call)
      BY DEF ResultsAreExact
    <2>1. Done(Calls[caller[c].call], caller[c])
      BY DEF Faithful, Following, Course
    <2>2. Fulfilled(Calls[caller[c].call], caller[c].got)
      BY <2>1 DEF Done
    <2> QED BY <2>2 DEF Fulfilled
  <1> QED BY <1>1, FaithfulAlways, PTL

(* A call fails only if its service was not registered at some time while  *)
(* it was under way, its method does not exist or its request cannot be    *)
(* read, and then the caller's response is all zeros (the catch clause of  *)
(* handleRpcRequest, rpc_server.cpp:249-258).                              *)
THEOREM DispatchFailsForAReason == Spec => []FailsForAReason
  <1>1. Faithful => FailsForAReason
    <2> SUFFICES ASSUME Faithful, NEW c \in Callers,
                        caller[c].at = "returned" /\ ~caller[c].success
                 PROVE  LET call == Calls[caller[c].call]
                        IN  /\ caller[c].got = Parsed(New(GetResponsePrototype(call.method)))
                            /\ \/ caller[c].missing
                               \/ call.method \notin Methods
                               \/ ~Sound(call.more_fields) \/ ~Sound(call.more_arguments)
      BY DEF FailsForAReason
    <2>1. Done(Calls[caller[c].call], caller[c])
      BY DEF Faithful, Following, Course
    <2>2. Failed(Calls[caller[c].call], caller[c].missing, caller[c].got)
      BY <2>1 DEF Done
    <2> QED BY <2>2 DEF Failed, Excuse
  <1> QED BY <1>1, FaithfulAlways, PTL
=============================================================================
