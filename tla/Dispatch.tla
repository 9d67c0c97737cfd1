------------------------------- MODULE Dispatch -------------------------------
(***************************************************************************)
(* What becomes of a call between the client's callMethod and the service: *)
(* the request is wrapped, framed, parsed, looked up among the registered  *)
(* services and executed by one of the server's workers, and the answer    *)
(* goes back the same way (rpc_protocol_helper.cpp, frame_codec.cpp,       *)
(* handleRpcRequest and callServiceMethod of rpc_server.cpp,               *)
(* calculator_service.cpp), while the application registers and            *)
(* unregisters services.  Connections and timeouts are in RpcClient and    *)
(* ServerConnections: here what is sent arrives.                           *)
(***************************************************************************)
EXTENDS Protobuf

CONSTANTS
    Callers,      \* clients, each with a connection of its own
    Objects,      \* service objects of the server's application
    NameOf,       \* GetDescriptor()->name() of each
    Calls,        \* calls, a sequence
    CallsOf,      \* which of them each client may make
    Ids,          \* request ids: milliseconds of a clock, never 0
    Registering,  \* methods that register a service themselves
    MaxChanges    \* bound on registrations and unregistrations

ASSUME IdsAssumption == Ids \subseteq 1 .. W64 - 1

VARIABLES
    services,   \* services_: the object registered under each name
    caller,     \* the clients: where they are, their call, what it returned
    handler,    \* the worker that handles the request of each client
    toServer,   \* frames on the way
    toClient,
    changes     \* registrations and unregistrations so far

vars == <<services, caller, handler, toServer, toClient, changes>>

-----------------------------------------------------------------------------
(* CalculatorService, and the service of the application that derives from *)
(* it                                                                      *)

Methods == {"Add", "Sub", "Mul", "Div"}      \* FindMethodByName

(* The names in the source, and the text of what it throws, are UTF-8. *)
ASSUME NamesAssumption ==
    NotUtf8 \cap ({NameOf[o] : o \in Objects} \cup Methods \cup {"", "error"}) = {}

GetRequestPrototype(method) ==
    CASE method = "Sub" -> SubRequest
      [] method = "Mul" -> MultiRequest
      [] method = "Div" -> DivideRequest
      [] OTHER -> AddRequest

GetResponsePrototype(method) ==
    CASE method = "Sub" -> SubResponse
      [] method = "Mul" -> MultiResponse
      [] method = "Div" -> DivideResponse
      [] OTHER -> AddResponse

(* An int32_t that overflows is undefined: it may become anything. *)
Stored(n) == IF n \in Int32 THEN {n} ELSE Int32

With(M, field, v) == [New(M) EXCEPT !.fields[field] = v]

Add(q) == {With(AddResponse, "result", r) : r \in Stored(q.a + q.b)}
Sub(q) == {With(SubResponse, "response", r) : r \in Stored(q.a - q.b)}
Mul(q) == {With(MultiResponse, "response", r) : r \in Stored(q.a * q.b)}

(* The division of two doubles, as IEEE 754 has it. *)
Quotient(a, b) ==
    CASE b = 0 /\ a = 0 -> <<"nan", 0, 0>>
      [] b = 0 /\ a # 0 -> <<"infinite", IF a > 0 THEN 1 ELSE -1, 0>>
      [] b # 0 /\ a = 0 -> IF b > 0 THEN ZeroDouble ELSE MinusZero
      [] OTHER -> <<"number", a, b>>

(* The -1.0 that is set when b is 0 is overwritten. *)
Div(q) == {With(DivideResponse, "result", Quotient(q.a, q.b))}

CallMethod(method, request) ==
    CASE method = "Add" -> Add(request.fields)
      [] method = "Sub" -> Sub(request.fields)
      [] method = "Mul" -> Mul(request.fields)
      [] method = "Div" -> Div(request.fields)

-----------------------------------------------------------------------------
(* RpcProtocolHelper *)

createRequestProto(request) ==
    [New(RpcRequestProto) EXCEPT
        !.fields.request_id = request.request_id,
        !.fields.service_name = request.service_name,
        !.fields.method_name = request.method_name,
        !.fields.request_data = request.request_data]

serializeRequest(request) == SerializeToString(RpcRequestProto, createRequestProto(request))

fromRequestProto(proto) ==
    [request_id |-> proto.request_id, service_name |-> proto.service_name,
     method_name |-> proto.method_name, request_data |-> proto.request_data]

(* What a parser or a serializer yields is given as a set of one element,  *)
(* which TLC evaluates once.                                               *)
parseRequest(data) ==
    {IF data # <<>> /\ p.ok THEN Parsed(fromRequestProto(p.message.fields)) ELSE Failure :
        p \in {ParseFromArray(RpcRequestProto, data)}}

SERVER_ERROR == 8 % W32      \* of the enumeration, in the width of the instance

(* Faulty variant, used only to test the properties: no code for an error.  *)
createResponseProtoBare(response) ==
    [New(RpcResponseProto) EXCEPT !.fields.request_id = response.request_id,
                                  !.fields.success = response.success,
                                  !.fields.response_data = response.response_data]

createResponseProto(response) ==
    LET proto == [New(RpcResponseProto) EXCEPT
                    !.fields.request_id = response.request_id,
                    !.fields.success = response.success,
                    !.fields.response_data = response.response_data]
    IN  IF response.success THEN proto
        ELSE [proto EXCEPT !.fields.error_code = Signed(SERVER_ERROR),
                           !.fields.error_message = response.error_message]

serializeResponse(response) ==
    {SerializeToString(RpcResponseProto, proto) : proto \in {createResponseProto(response)}}

fromResponseProto(proto) ==
    [request_id |-> proto.request_id, success |-> proto.success,
     error_message |-> proto.error_message, response_data |-> proto.response_data]

parseResponse(data) ==
    {IF data # <<>> /\ p.ok THEN Parsed(fromResponseProto(p.message.fields)) ELSE Failure :
        p \in {ParseFromArray(RpcResponseProto, data)}}

(* FrameCodec::encode: the frames it adds to the stream. *)
encode(message) == IF message = <<>> THEN <<>> ELSE <<message>>

-----------------------------------------------------------------------------
Unregistered == "unregistered"
Free == [at |-> "free"]
Idle == [at |-> "idle"]

Init ==
    /\ services \in [{NameOf[o] : o \in Objects} -> {Unregistered}]
    /\ caller = [c \in Callers |-> Idle]
    /\ handler = [c \in Callers |-> Free]
    /\ toServer = [c \in Callers |-> <<>>]
    /\ toClient = [c \in Callers |-> <<>>]
    /\ changes = 0

IsRegistered(name) == name \in DOMAIN services /\ services[name] # Unregistered

-----------------------------------------------------------------------------
(* The client *)

ArgumentsMessage(call) ==
    [New(GetRequestPrototype(call.method)) EXCEPT !.fields.a = call.a, !.fields.b = call.b]

Arguments(call) == SerializeToString(GetRequestPrototype(call.method), ArgumentsMessage(call))

(* What the stub sends is followed by what a client of another version, or *)
(* one that was built from another .proto, adds to it.                     *)
Request(call, id) ==
    [request_id |-> id, service_name |-> call.service, method_name |-> call.method,
     request_data |-> Arguments(call) \o call.more_arguments]

RequestOf(call, id) == serializeRequest(Request(call, id)) \o call.more_fields

(* A field that is written again says the same, and metadata is UTF-8. *)
Repeats(M, m, more) ==
    /\ more \in Seq(Range(more))
    /\ \A j \in DOMAIN M : \A k \in At(M[j], more) :
          IF M[j].type = "map" THEN Utf8(M[j], more[k].content)
          ELSE Decoded(M[j].type, more[k].content) = m.fields[M[j].name]

ASSUME CallsAssumption ==
    \A k \in DOMAIN Calls :
        LET call == Calls[k]
        IN  /\ call.a \in Int32 /\ call.b \in Int32
            /\ Repeats(GetRequestPrototype(call.method), ArgumentsMessage(call),
                       call.more_arguments)
            /\ \A id \in Ids :
                  Repeats(RpcRequestProto, createRequestProto(Request(call, id)),
                          call.more_fields)

Requests == [k \in DOMAIN Calls |-> [id \in Ids |-> RequestOf(Calls[k], id)]]

SendRequest(c, k, id) ==
    /\ k \in CallsOf[c]
    /\ caller[c].at \in {"idle", "returned"}
    /\ caller' = [caller EXCEPT ![c] = [at |-> "waiting", call |-> k,
                                        missing |-> ~IsRegistered(Calls[k].service)]]
    /\ toServer' = [toServer EXCEPT ![c] = @ \o encode(Requests[k][id])]
    /\ UNCHANGED <<services, handler, toClient, changes>>

(* parseResponse, and callMethod's ParseFromArray into the response of its *)
(* caller; it looks at success to print a line, and returns true.          *)
ReceiveResponse(c) ==
    /\ toClient[c] # <<>>
    /\ \E response \in parseResponse(Head(toClient[c])) :
          \E got \in {IF response.ok
                      THEN ParseFromArray(GetResponsePrototype(Calls[caller[c].call].method),
                                          response.message.response_data)
                      ELSE Failure} :
             caller' = [caller EXCEPT ![c] =
                           [at |-> "returned", call |-> @.call, missing |-> @.missing,
                            success |-> response.ok /\ response.message.success, got |-> got]]
    /\ toClient' = [toClient EXCEPT ![c] = Tail(@)]
    /\ UNCHANGED <<services, handler, toServer, changes>>

-----------------------------------------------------------------------------
(* The server *)

sendResponse(c, response) ==
    \E data \in serializeResponse(response) :
        toClient' = [toClient EXCEPT ![c] = @ \o encode(data)]

(* The catch clause of handleRpcRequest. *)
ErrorResponse ==
    [request_id |-> 0, success |-> FALSE, error_message |-> "error", response_data |-> <<>>]

Refuse(c) ==
    /\ sendResponse(c, ErrorResponse)
    /\ handler' = [handler EXCEPT ![c] = Free]

(* A worker takes the message and parses it. *)
HandleRpcRequest(c) ==
    /\ handler[c].at = "free" /\ toServer[c] # <<>>
    /\ toServer' = [toServer EXCEPT ![c] = Tail(@)]
    /\ \E request \in parseRequest(Head(toServer[c])) :
          IF request.ok
          THEN /\ handler' = [handler EXCEPT ![c] = [at |-> "look up", request |-> request.message]]
               /\ UNCHANGED toClient
          ELSE Refuse(c)
    /\ UNCHANGED <<services, caller, changes>>

(* Who holds services_mutex_ shared: callServiceMethod, until it returns.  *)
(* Faulty variant, used only to test the properties: not while the method  *)
(* runs.                                                                   *)
ReadersNone == {}
Readers == {c \in Callers : handler[c].at = "execute"}

(* callServiceMethod, up to the call; the lock is free for readers, since  *)
(* a writer holds it for one step.                                         *)
CallServiceMethod(c) ==
    /\ handler[c].at = "look up"
    /\ \E request \in {handler[c].request} :
          \E parsed \in {ParseFromArray(GetRequestPrototype(request.method_name),
                                        request.request_data)} :
             IF IsRegistered(request.service_name) /\ request.method_name \in Methods /\ parsed.ok
             THEN /\ handler' = [handler EXCEPT ![c] =
                        [at |-> "execute", object |-> services[request.service_name],
                         request |-> request, message |-> parsed.message]]
                  /\ UNCHANGED toClient
             ELSE Refuse(c)
    /\ UNCHANGED <<services, caller, toServer, changes>>

(* The method runs, and the answer is sent after the lock is released.  A  *)
(* method that registers a service waits for the lock that its own caller  *)
(* holds.                                                                  *)
Execute(c) ==
    /\ handler[c].at = "execute"
    /\ handler[c].request.method_name \notin Registering
    /\ \E response \in CallMethod(handler[c].request.method_name, handler[c].message) :
          \E data \in {SerializeToString(GetResponsePrototype(handler[c].request.method_name),
                                         response)} :
             sendResponse(c, [request_id |-> handler[c].request.request_id, success |-> TRUE,
                              error_message |-> "", response_data |-> data])
    /\ handler' = [handler EXCEPT ![c] = Free]
    /\ UNCHANGED <<services, caller, toServer, changes>>

(* The application's registerService and unregisterService, and what they  *)
(* mean to the calls in progress.                                          *)
Change(name, object) ==
    /\ Readers = {}
    /\ changes < MaxChanges
    /\ changes' = changes + 1
    /\ services' = [services EXCEPT ![name] = object]
    /\ caller' = [c \in Callers |->
                    IF /\ caller[c].at = "waiting" /\ object = Unregistered
                       /\ Calls[caller[c].call].service = name
                    THEN [caller[c] EXCEPT !.missing = TRUE] ELSE caller[c]]
    /\ UNCHANGED <<handler, toServer, toClient>>

RegisterService(o) == Change(NameOf[o], o)
UnregisterService(name) == IsRegistered(name) /\ Change(name, Unregistered)

Answer(c) ==
    HandleRpcRequest(c) \/ CallServiceMethod(c) \/ Execute(c) \/ ReceiveResponse(c)

Next ==
    \/ \E c \in Callers :
          \/ \E k \in DOMAIN Calls, id \in Ids : SendRequest(c, k, id)
          \/ Answer(c)
    \/ \E o \in Objects : RegisterService(o)
    \/ \E name \in DOMAIN services : UnregisterService(name)

(* Workers take what was submitted and go on, and so do clients that have  *)
(* an answer.                                                              *)
Spec == Init /\ [][Next]_vars /\ \A c \in Callers : WF_vars(Answer(c))

-----------------------------------------------------------------------------
(* Properties *)

TypeOK ==
    /\ \A name \in DOMAIN services : services[name] \in Objects \cup {Unregistered}
    /\ \A c \in Callers :
          /\ caller[c].at \in {"idle", "waiting", "returned"}
          /\ handler[c].at \in {"free", "look up", "execute"}
          /\ caller[c].at # "waiting" => handler[c] = Free /\ toServer[c] = <<>>
          /\ Len(toServer[c]) + Len(toClient[c]) <= 1

(* Exact results, computed without any message. *)
Answers(call) ==
    LET exact == CASE call.method = "Add" -> call.a + call.b
                   [] call.method = "Sub" -> call.a - call.b
                   [] OTHER -> call.a * call.b
    IN  IF call.method = "Div" THEN {Quotient(call.a, call.b)}
        ELSE IF exact \in Int32 THEN {exact} ELSE Int32

(* What a client reads from an answer that reports success is the result   *)
(* of its method for its arguments, through two nested encodings that drop *)
(* every field with its default value, and whatever a newer client added.  *)
ResultsAreExact ==
    \A c \in Callers :
        caller[c].at = "returned" /\ caller[c].success =>
            LET call == Calls[caller[c].call]
                field == GetResponsePrototype(call.method)[1].name
            IN  caller[c].got.ok /\ caller[c].got.message.fields[field] \in Answers(call)

Sound(records) == \A k \in DOMAIN records : records[k].type # "end"

(* A call fails only if its service was not registered at some time while  *)
(* it was under way, its method does not exist, or its request cannot be   *)
(* read; and then the client's response has no result (it is all zeros).   *)
FailsForAReason ==
    \A c \in Callers :
        caller[c].at = "returned" /\ ~caller[c].success =>
            LET call == Calls[caller[c].call]
            IN  /\ caller[c].got = Parsed(New(GetResponsePrototype(call.method)))
                /\ \/ caller[c].missing
                   \/ call.method \notin Methods
                   \/ ~Sound(call.more_fields) \/ ~Sound(call.more_arguments)

(* A service whose unregisterService has returned, or that was replaced,   *)
(* may be deleted: no worker is executing it.  services_ holds plain       *)
(* pointers, and only the lock that callServiceMethod keeps protects them  *)
(* (rpc_server.cpp:324).                                                   *)
NoCallAfterRemoval ==
    \A c \in Callers :
        handler[c].at = "execute" =>
            services[handler[c].request.service_name] = handler[c].object

(* Every request gets its answer, if no method registers services: no      *)
(* request and no failure leads to an empty message, which encode would    *)
(* not send.                                                               *)
EveryCallAnswered ==
    \A c \in Callers : caller[c].at = "waiting" ~> caller[c].at = "returned"

(* unregisterService gets the lock although calls overlap. *)
RemovalReturns ==
    \A o \in Objects : []<>(Readers = {} \/ services[NameOf[o]] # o)
=============================================================================
