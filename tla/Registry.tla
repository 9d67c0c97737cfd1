------------------------------- MODULE Registry -------------------------------
(***************************************************************************)
(* How RpcServers register their services in ZooKeeper, and how clients    *)
(* discover them (src/src/core/rpc_server.cpp, zookeeper_registry.cpp).    *)
(*                                                                         *)
(* Of each server process the model has the thread that calls start() and  *)
(* stop(), "main", the heartbeat thread, and a thread of the application   *)
(* that registers and unregisters services, "app".  ZooKeeper keeps an     *)
(* ephemeral, numbered node per registration, until it is deleted or the   *)
(* session that made it ends.                                              *)
(***************************************************************************)
EXTENDS Naturals, FiniteSets

CONSTANTS
    Servers, Services,
    Port,         \* the port each server is configured with
    Faults,       \* among "late", "loss" and "expire"
    Overlap,      \* the application thread calls while start() or stop() runs
    RestartSoon,  \* a crashed server may come back before its session ends
    MaxStarts, MaxCalls, MaxFaults    \* bounds on what happens how often

ASSUME FaultsAssumption == Faults \subseteq {"late", "loss", "expire"}
ASSUME BoundsAssumption == MaxStarts \in Nat /\ MaxCalls \in Nat

VARIABLES
    nodes,     \* the children of the services' paths
    sessions,  \* the sessions ZooKeeper keeps alive
    srv,       \* each server's fields and whether its process lives
    th,        \* what the two threads of each server do
    disturbed, \* its registry has lost the connection, or never had one
    reader,    \* a client in discoverService
    seen,      \* which instances were registered during that call
    count      \* starts, calls and faults so far

vars == <<nodes, sessions, srv, th, disturbed, reader, seen, count>>

zk == <<nodes, sessions>>

Threads == {"main", "app"}

(* registerToRegistry assigns "127.0.0.1" to config_.host: the condition   *)
(* of its ?: is a string, which is true.  What is left of an id is the     *)
(* port.                                                                   *)
Id(s) == Port[s]

NoSession == <<>>
NoNode == <<>>
Idle == [op |-> "none", at |-> "idle", todo |-> {}, node |-> NoNode]
Process(services) ==
    [up |-> TRUE, running |-> FALSE, registry |-> NoSession, connected |-> FALSE,
     heartbeat |-> "off", services |-> services]
NoReader == [at |-> "idle", todo |-> {}, got |-> {}]

Init ==
    /\ nodes = {}
    /\ sessions = {}
    /\ srv \in [Servers -> {Process(S) : S \in SUBSET Services}]
    /\ th = [s \in Servers |-> [t \in Threads |-> Idle]]
    /\ disturbed = [s \in Servers |-> FALSE]
    /\ reader = NoReader
    /\ seen = [must |-> {}, may |-> {}]
    /\ count = [starts |-> 0, calls |-> 0, faults |-> 0]

Fault(kind) == kind \in Faults /\ count.faults < MaxFaults
Counted(what) == count' = [count EXCEPT ![what] = @ + 1]

(* Who holds services_mutex_: start() and stop() for their whole loop. *)
SharedHeld(s) == th[s]["main"].at \in {"create", "find", "delete"}
MainIdle(s) == th[s]["main"] = Idle
AppIdle(s) == th[s]["app"] = Idle

To(s, t, at) == th' = [th EXCEPT ![s][t].at = at]

(* The loop goes on with the other services, and after the last one the    *)
(* call returns, erases the service in unregisterService, or starts the    *)
(* heartbeat thread in start().                                            *)
After(s, t, svc) ==
    LET rest == th[s][t].todo \ {svc}
        first == IF th[s][t].op \in {"start", "register"} THEN "create" ELSE "find"
    IN  th' = [th EXCEPT ![s][t] =
                  IF rest # {} THEN [@ EXCEPT !.at = first, !.todo = rest, !.node = NoNode]
                  ELSE CASE @.op = "unregister" -> [@ EXCEPT !.at = "erase", !.node = NoNode]
                         [] @.op = "start" -> [@ EXCEPT !.at = "heartbeat", !.todo = {}]
                         [] OTHER -> Idle]

-----------------------------------------------------------------------------
(* RpcServer::start *)

StartCall(s) ==
    /\ srv[s].up /\ ~srv[s].running
    /\ MainIdle(s) /\ (Overlap \/ AppIdle(s))
    /\ count.starts < MaxStarts
    /\ srv' = [srv EXCEPT ![s].running = TRUE]
    /\ th' = [th EXCEPT ![s]["main"] = [Idle EXCEPT !.op = "start", !.at = "connect"]]
    /\ Counted("starts")
    /\ UNCHANGED <<zk, disturbed, reader>>

(* initializeRegistry: a new ZooKeeperRegistry waits for its connection,   *)
(* for 5 s, and is used whether it has got one or not; the former one is   *)
(* destroyed and closes its session.                                       *)
Connect(s, connected) ==
    /\ th[s]["main"].at = "connect"
    /\ connected \/ Fault("late")
    /\ LET new == <<s, count.starts>>
           old == srv[s].registry
       IN  /\ srv' = [srv EXCEPT ![s].registry = new, ![s].connected = connected]
           /\ sessions' = (sessions \ {old}) \cup {new}
           /\ nodes' = {n \in nodes : n.session # old}
    /\ disturbed' = [disturbed EXCEPT ![s] = ~connected]
    /\ count' = IF connected THEN count ELSE [count EXCEPT !.faults = @ + 1]
    /\ To(s, "main", "lock")
    /\ UNCHANGED reader

(* The loop over services_, under the shared lock. *)
StartLoop(s) ==
    /\ th[s]["main"].at = "lock"
    /\ th' = [th EXCEPT ![s]["main"].at = IF srv[s].services = {} THEN "heartbeat" ELSE "create",
                        ![s]["main"].todo = srv[s].services]
    /\ UNCHANGED <<zk, srv, disturbed, reader, count>>

HeartbeatStarts(s) ==
    /\ th[s]["main"].at = "heartbeat"
    /\ srv' = [srv EXCEPT ![s].heartbeat = "on"]
    /\ th' = [th EXCEPT ![s]["main"] = Idle]
    /\ UNCHANGED <<zk, disturbed, reader, count>>

(* registerToRegistry: one zoo_create, never repeated. *)

Usable(s) == srv[s].connected /\ srv[s].registry \in sessions

SameName(n, s, svc) == n.svc = svc /\ n.id = Id(s)

(* Faulty variant, used only to test the properties: a node outlives its    *)
(* session.                                                                *)
NodePersistent(s, svc) ==
    [svc |-> svc, id |-> Id(s), server |-> s, session |-> NoSession, number |-> 1]

Node(s, svc) ==
    [svc |-> svc, id |-> Id(s), server |-> s, session |-> srv[s].registry,
     number |-> CHOOSE k \in 1 .. Cardinality(nodes) + 1 :
                    \A n \in nodes : SameName(n, s, svc) => n.number # k]

Create(s, t, svc) ==
    /\ th[s][t].at = "create" /\ svc \in th[s][t].todo
    /\ Usable(s)
    /\ nodes' = nodes \cup {Node(s, svc)}
    /\ After(s, t, svc)
    /\ UNCHANGED <<sessions, srv, disturbed, reader, count>>

(* It fails without a session, or with the connection, and then the node   *)
(* may have been created or not.                                           *)
CreateFails(s, t, svc) ==
    /\ th[s][t].at = "create" /\ svc \in th[s][t].todo
    /\ \/ /\ ~Usable(s)
          /\ UNCHANGED <<nodes, count>>
       \/ /\ Usable(s) /\ Fault("loss")
          /\ nodes' \in {nodes, nodes \cup {Node(s, svc)}}
          /\ Counted("faults")
    /\ disturbed' = [disturbed EXCEPT ![s] = TRUE]
    /\ After(s, t, svc)
    /\ UNCHANGED <<sessions, srv, reader>>

-----------------------------------------------------------------------------
(* RpcServer::stop *)

(* Faulty variant, used only to test the properties: heartbeat_running_ is  *)
(* not cleared.                                                            *)
HeartbeatLeft(s) == srv[s].heartbeat
HeartbeatTold(s) == IF srv[s].heartbeat = "on" THEN "ending" ELSE "off"

StopCall(s) ==
    /\ srv[s].up /\ srv[s].running
    /\ MainIdle(s) /\ (Overlap \/ AppIdle(s))
    /\ srv' = [srv EXCEPT ![s].running = FALSE, ![s].heartbeat = HeartbeatTold(s)]
    /\ th' = [th EXCEPT ![s]["main"] = [Idle EXCEPT !.op = "stop", !.at = "join"]]
    /\ UNCHANGED <<zk, disturbed, reader, count>>

(* heartbeatLoop: sendHeartbeat only tells whether connected_ is set, so a *)
(* round changes nothing; the thread ends after the round in which it      *)
(* finds heartbeat_running_ false.                                         *)
HeartbeatEnds(s) ==
    /\ srv[s].heartbeat = "ending"
    /\ srv' = [srv EXCEPT ![s].heartbeat = "off"]
    /\ UNCHANGED <<zk, th, disturbed, reader, count>>

(* The rest of stop(), the TCP server, is ServerConnections. *)
StopLoop(s) ==
    /\ th[s]["main"].at = "join" /\ srv[s].heartbeat = "off"
    /\ th' = [th EXCEPT ![s]["main"] =
                 IF srv[s].services = {} THEN Idle
                 ELSE [@ EXCEPT !.at = "find", !.todo = srv[s].services]]
    /\ UNCHANGED <<zk, srv, disturbed, reader, count>>

(* unregisterFromRegistry, deleteServiceInstanceNode: the first child that *)
(* says the id, whoever made it.                                           *)

(* Faulty variant, used only to test the properties: any child of the path.*)
MatchesService(n, s, svc) == n.svc = svc
Matches(n, s, svc) == SameName(n, s, svc)

Find(s, t, svc) ==
    /\ th[s][t].at = "find" /\ svc \in th[s][t].todo
    /\ Usable(s)
    /\ LET found == {n \in nodes : Matches(n, s, svc)}
       IN  \/ /\ found = {}
              /\ After(s, t, svc)
           \/ \E n \in found : th' = [th EXCEPT ![s][t].at = "delete", ![s][t].node = n]
    /\ UNCHANGED <<zk, srv, disturbed, reader, count>>

Delete(s, t) ==
    /\ th[s][t].at = "delete"
    /\ Usable(s)
    /\ nodes' = nodes \ {th[s][t].node}
    /\ After(s, t, th[s][t].node.svc)
    /\ UNCHANGED <<sessions, srv, disturbed, reader, count>>

FindOrDeleteFails(s, t, svc) ==
    /\ \/ th[s][t].at = "find" /\ svc \in th[s][t].todo
       \/ th[s][t].at = "delete" /\ svc = th[s][t].node.svc
    /\ \/ /\ ~Usable(s)
          /\ UNCHANGED <<nodes, count>>
       \/ /\ Usable(s) /\ Fault("loss")
          /\ nodes' \in {nodes, nodes \ {th[s][t].node}}
          /\ Counted("faults")
    /\ disturbed' = [disturbed EXCEPT ![s] = TRUE]
    /\ After(s, t, svc)
    /\ UNCHANGED <<sessions, srv, reader>>

-----------------------------------------------------------------------------
(* RpcServer::registerService and unregisterService, of the running server *)
(* or before start().                                                      *)

CanCall(s) ==
    /\ srv[s].up /\ AppIdle(s) /\ (Overlap \/ MainIdle(s))
    /\ count.calls < MaxCalls

RegisterCall(s, svc) ==
    /\ CanCall(s) /\ ~SharedHeld(s)
    /\ svc \notin srv[s].services
    /\ srv' = [srv EXCEPT ![s].services = @ \cup {svc}]
    /\ th' = [th EXCEPT ![s]["app"] =
                 [Idle EXCEPT !.op = "register", !.at = "test", !.todo = {svc}]]
    /\ Counted("calls")
    /\ UNCHANGED <<zk, disturbed, reader>>

(* The lock has been released: running_ and registry_ are read afterwards. *)
RegisterTest(s) ==
    /\ th[s]["app"].at = "test"
    /\ th' = [th EXCEPT ![s]["app"] =
                 IF srv[s].running /\ srv[s].registry # NoSession
                 THEN [@ EXCEPT !.at = "create"] ELSE Idle]
    /\ UNCHANGED <<zk, srv, disturbed, reader, count>>

(* Faulty variant, used only to test the properties: only locally. *)
FirstUnregisterLocal(s) == "erase"
FirstUnregister(s) == IF srv[s].registry # NoSession THEN "find" ELSE "erase"

UnregisterCall(s, svc) ==
    /\ CanCall(s)
    /\ svc \in srv[s].services
    /\ th' = [th EXCEPT ![s]["app"] =
                 [Idle EXCEPT !.op = "unregister", !.at = FirstUnregister(s), !.todo = {svc}]]
    /\ Counted("calls")
    /\ UNCHANGED <<zk, srv, disturbed, reader>>

Erase(s) ==
    /\ th[s]["app"].at = "erase" /\ ~SharedHeld(s)
    /\ srv' = [srv EXCEPT ![s].services = @ \ th[s]["app"].todo]
    /\ th' = [th EXCEPT ![s]["app"] = Idle]
    /\ UNCHANGED <<zk, disturbed, reader, count>>

-----------------------------------------------------------------------------
(* Processes, connections and sessions *)

Crash(s) ==
    /\ srv[s].up
    /\ srv' = [srv EXCEPT ![s] = [Process({}) EXCEPT !.up = FALSE]]
    /\ th' = [th EXCEPT ![s] = [t \in Threads |-> Idle]]
    /\ UNCHANGED <<zk, disturbed, reader, count>>

OfServer(s) == {ss \in sessions : ss[1] = s}

Boot(s, services) ==
    /\ ~srv[s].up
    /\ RestartSoon \/ OfServer(s) = {}
    /\ count.starts < MaxStarts
    /\ srv' = [srv EXCEPT ![s] = Process(services)]
    /\ UNCHANGED <<zk, th, disturbed, reader, count>>

(* A session ends when its client is not heard of for session_timeout_. *)
Expire(ss) ==
    /\ ss \in sessions
    /\ LET gone == srv[ss[1]].registry # ss
       IN  /\ gone \/ Fault("expire")
           /\ count' = IF gone THEN count ELSE [count EXCEPT !.faults = @ + 1]
           /\ disturbed' = IF gone THEN disturbed ELSE [disturbed EXCEPT ![ss[1]] = TRUE]
    /\ sessions' = sessions \ {ss}
    /\ nodes' = {n \in nodes : n.session # ss}
    /\ UNCHANGED <<srv, th, reader>>

(* connectionWatcher: connected, late, or told of the end of the session.  *)
(* Nothing is registered again.                                            *)
ConnectionWatcher(s) ==
    /\ srv[s].registry # NoSession
    /\ srv[s].connected # (srv[s].registry \in sessions)
    /\ srv' = [srv EXCEPT ![s].connected = ~@]
    /\ UNCHANGED <<zk, th, disturbed, reader, count>>

-----------------------------------------------------------------------------
(* discoverService: the children first, then one zoo_get after the other.  *)

Discover(svc) ==
    /\ reader.at = "idle"
    /\ reader' = [at |-> svc, todo |-> {n \in nodes : n.svc = svc}, got |-> {}]
    /\ UNCHANGED <<zk, srv, th, disturbed, count>>

(* A child that has gone meanwhile is left out. *)
Got(n) == {n} \cap nodes

Get(n) ==
    /\ n \in reader.todo
    /\ reader' = [reader EXCEPT !.todo = @ \ {n}, !.got = @ \cup Got(n)]
    /\ UNCHANGED <<zk, srv, th, disturbed, count>>

DiscoverReturns ==
    /\ reader.at # "idle" /\ reader.todo = {}
    /\ reader' = NoReader
    /\ UNCHANGED <<zk, srv, th, disturbed, count>>

-----------------------------------------------------------------------------
(* The service is offered by s, and nothing about that is under way. *)
Offers(s, svc) ==
    /\ srv[s].running /\ svc \in srv[s].services
    /\ MainIdle(s) /\ AppIdle(s) /\ ~disturbed[s]

(* The service may still, or already, be registered by s. *)
MayOffer(s, svc) ==
    \/ srv[s].running /\ svc \in srv[s].services
    \/ ~MainIdle(s) \/ ~AppIdle(s) \/ disturbed[s]
    \/ \E n \in nodes : n.server = s /\ n.session # srv[s].registry

(* Of the service that reader asks for: the servers that offered it all    *)
(* the time since the call began, and those that may have at some time.    *)
Must == {s \in Servers : \E svc \in Services : reader.at = svc /\ Offers(s, svc)}
May == {s \in Servers : \E svc \in Services : reader.at = svc /\ MayOffer(s, svc)}

Observe ==
    seen' = IF reader.at = "idle" THEN [must |-> Must', may |-> May']
            ELSE [must |-> seen.must \cap Must', may |-> seen.may \cup May']

Run(s) ==
    \/ \E c \in BOOLEAN : Connect(s, c)
    \/ StartLoop(s) \/ HeartbeatStarts(s) \/ StopLoop(s) \/ HeartbeatEnds(s)
    \/ RegisterTest(s) \/ Erase(s)
    \/ \E t \in Threads :
          \/ Delete(s, t)
          \/ \E svc \in Services :
                Create(s, t, svc) \/ CreateFails(s, t, svc)
                \/ Find(s, t, svc) \/ FindOrDeleteFails(s, t, svc)

CallOf(s) ==
    \/ StartCall(s) \/ StopCall(s)
    \/ \E svc \in Services : RegisterCall(s, svc) \/ UnregisterCall(s, svc)

ZooKeeper ==
    \/ \E ss \in sessions : Expire(ss)
    \/ \E s \in Servers : ConnectionWatcher(s)

Client ==
    \/ \E svc \in Services : Discover(svc)
    \/ \E n \in reader.todo : Get(n)
    \/ DiscoverReturns

Step ==
    \/ \E s \in Servers :
          \/ Run(s) \/ CallOf(s) \/ Crash(s)
          \/ \E S \in SUBSET Services : Boot(s, S)
    \/ ZooKeeper
    \/ Client

Next == Step /\ Observe

(* Threads go on with the call they are in, and ZooKeeper ends the session *)
(* of a client that is gone.                                               *)
Spec ==
    /\ Init /\ [][Next]_vars
    /\ \A s \in Servers : WF_vars(Run(s) /\ Observe)
    /\ WF_vars((\E ss \in sessions : srv[ss[1]].registry # ss /\ Expire(ss)) /\ Observe)

-----------------------------------------------------------------------------
(* Properties *)

TypeOK ==
    /\ \A n \in nodes : n.svc \in Services /\ n.server \in Servers
    /\ \A n \in nodes : n.session \in sessions
    /\ sessions \subseteq Servers \X (1..MaxStarts)
    /\ \A s \in Servers : /\ srv[s].services \subseteq Services
                          /\ srv[s].heartbeat \in {"off", "on", "ending"}
                          /\ srv[s].connected => srv[s].registry # NoSession
    /\ count.starts \in 0..MaxStarts /\ count.calls \in 0..MaxCalls

Registrations(s, svc) ==
    {n \in nodes : n.svc = svc /\ n.id = Id(s) /\ n.session = srv[s].registry}

(* A server that has started and keeps its connection is listed, once, for *)
(* every service it offers: whether the service was registered before      *)
(* start() or later, and whatever the other servers and earlier processes  *)
(* of this one do (rpc_server.cpp:54-62,119; zookeeper_registry.cpp:262).  *)
ListedOnce ==
    \A s \in Servers, svc \in Services :
        Offers(s, svc) => Cardinality(Registrations(s, svc)) = 1

(* After stop(), or unregisterService, it is not listed any more though    *)
(* the registry object and its session live on (rpc_server.cpp:83-89).     *)
Withdrawn ==
    \A s \in Servers, svc \in Services :
        /\ srv[s].up /\ MainIdle(s) /\ AppIdle(s) /\ ~disturbed[s]
        /\ ~(srv[s].running /\ svc \in srv[s].services)
        => Registrations(s, svc) = {}

(* What discoverService is about to return: each server that offered the   *)
(* service since the call began, and none that did not at any time, though *)
(* the list and the data are read one by one (zookeeper_registry.cpp:321). *)
DiscoversOffers ==
    reader.at # "idle" /\ reader.todo = {} =>
        /\ \A s \in seen.must : \E n \in reader.got : n.id = Id(s)
        /\ \A n \in reader.got : n.server \in seen.may

(* Of a process that has crashed nothing stays listed. *)
CrashedDisappears ==
    \A s \in Servers :
        ~srv[s].up ~> (srv[s].up \/ \A n \in nodes : n.server # s)

(* start(), stop(), which joins the heartbeat thread, and the application's *)
(* calls return: as there are finitely many, each server comes to rest.    *)
CallsReturn == \A s \in Servers : []<>(MainIdle(s) /\ AppIdle(s))

(* A running server is listed again when its connection is back.           *)
ComesBack ==
    \A s \in Servers, svc \in Services :
        []<>(\/ ~(srv[s].running /\ svc \in srv[s].services)
             \/ ~(MainIdle(s) /\ AppIdle(s))
             \/ Registrations(s, svc) # {})
=============================================================================
