---------------------------- MODULE RegistryProofs ----------------------------
(***************************************************************************)
(* Theorems about Registry, for any number of servers and services and any *)
(* number of starts, calls, crashes and faults.                            *)
(*                                                                         *)
(* Types and Sane hold always.  What is listed is proved for servers that  *)
(* are Apart, for the reasons that the runs overlap and same_port of the   *)
(* README show: the code keeps a server's calls from meeting, and one      *)
(* server's nodes from another's, only when the application does.          *)
(***************************************************************************)
EXTENDS Registry, FiniteSetTheorems, TLAPS

(* Every server has a port of its own, its application makes one call at   *)
(* a time, and a crashed server comes back when its session has ended.     *)
Apart ==
    /\ \A s, u \in Servers : Port[s] = Port[u] => s = u
    /\ ~Overlap /\ ~RestartSoon

-----------------------------------------------------------------------------
(* Types *)

Names == Servers \X (1 .. MaxStarts)

Processes ==
    [up : BOOLEAN, running : BOOLEAN, registry : {NoSession} \cup Names, connected : BOOLEAN,
     heartbeat : {"off", "on", "ending"}, services : SUBSET Services]

IsCall(r) ==
    /\ r = [op |-> r.op, at |-> r.at, todo |-> r.todo, node |-> r.node]
    /\ r.todo \subseteq Services

ServersTyped ==
    /\ srv \in [Servers -> Processes]
    /\ \A s \in Servers : srv[s].connected => srv[s].registry # NoSession

ThreadsTyped ==
    /\ th = [s \in Servers |-> [t \in Threads |-> th[s][t]]]
    /\ \A s \in Servers, t \in Threads : IsCall(th[s][t])

CountTyped ==
    /\ count \in [starts : 0 .. MaxStarts, calls : 0 .. MaxCalls, faults : Nat]
    /\ \A s \in Servers : th[s]["main"].at = "connect" => count.starts > 0

ZooKeeperTyped ==
    /\ sessions \subseteq Names
    /\ disturbed \in [Servers -> BOOLEAN]
    /\ \A n \in nodes : n.svc \in Services /\ n.server \in Servers /\ n.session \in sessions

Types == ServersTyped /\ ThreadsTyped /\ CountTyped /\ ZooKeeperTyped

-----------------------------------------------------------------------------
(* The calls of one server: p is its process, m the call that is in        *)
(* progress in its thread main, and a the one in the thread app.           *)

Main(s) == th[s]["main"]
App(s) == th[s]["app"]

MainCall(p, m) ==
    /\ m.op \in {"none", "start", "stop"}
    /\ m.op = "none" => m = Idle
    /\ m.op = "start" => p.running /\ m.at \in {"connect", "lock", "create", "heartbeat"}
    /\ m.op = "stop" => ~p.running /\ m.at \in {"join", "find", "delete"}
    /\ m.todo \subseteq p.services
    /\ m.at = "heartbeat" => m.todo = {}

AppCall(p, a) ==
    /\ a.op \in {"none", "register", "unregister"}
    /\ a.op = "none" => a = Idle
    /\ a.op = "register" => a.at \in {"test", "create"}
    /\ a.op = "unregister" => a.at \in {"find", "delete", "erase"}
    /\ a.op # "none" => \E svc \in p.services : a.todo = {svc}
    /\ a.at = "create" => p.running

(* The node that a call is about to delete is its server's. *)
Deleting(s, c) ==
    /\ c.at \in {"join", "find"} => c.node = NoNode
    /\ c.at = "delete" => c.node.svc \in c.todo /\ c.node.server = s

(* A process that is not there does nothing; one that runs has a registry. *)
Living(s, p, m, a) ==
    /\ ~p.up => m = Idle /\ a = Idle /\ ~p.running /\ p.registry = NoSession
    /\ p.running => p.registry # NoSession \/ m.at = "connect"
    /\ p.registry # NoSession => p.registry[1] = s

(* The application makes one call at a time. *)
Orderly(s, p, m, a) ==
    /\ m = Idle \/ a = Idle
    /\ MainCall(p, m) /\ AppCall(p, a)
    /\ Deleting(s, m) /\ Deleting(s, a)
    /\ Living(s, p, m, a)

(* The only session left of a server that is up is that of its registry. *)
OneSession(s) == srv[s].up => \A ss \in OfServer(s) : ss = srv[s].registry

Sane == \A s \in Servers : Orderly(s, srv[s], Main(s), App(s)) /\ OneSession(s)

-----------------------------------------------------------------------------
(* The nodes *)

Owned ==
    \A n \in nodes : n # NoNode /\ n.id = Id(n.server) /\ n.session[1] = n.server

Own(s, svc) == {n \in nodes : n.server = s /\ n.svc = svc}

(* What is listed of a server, whatever it is doing. *)
Listed(p, m, a) ==
    IF m.op = "start"
    THEN IF m.at \in {"connect", "lock"} THEN {} ELSE p.services \ m.todo
    ELSE IF m.op = "stop"
    THEN IF m.at = "join" THEN p.services ELSE m.todo
    ELSE IF ~p.running THEN {}
    ELSE IF a.op = "register" \/ a.at = "erase" THEN p.services \ a.todo
    ELSE p.services

Undisturbed(s) == srv[s].up /\ ~disturbed[s] /\ Main(s).at # "connect"

(* It is listed once for each of these services, and for no other. *)
Exactly(s, services) ==
    \A svc \in Services :
        IF svc \in services THEN \E n \in nodes : Own(s, svc) = {n} ELSE Own(s, svc) = {}

Registered(s) ==
    Undisturbed(s) =>
        /\ Exactly(s, Listed(srv[s], Main(s), App(s)))
        /\ \A t \in Threads : th[s][t].at = "delete" => th[s][t].node \in nodes

Listing == Owned /\ \A s \in Servers : Registered(s)

(* A call of discoverService. *)
Reading ==
    reader.at # "idle" =>
        /\ \A n \in reader.todo \cup reader.got : n.server \in seen.may
        /\ seen.must \subseteq Must
        /\ \A s \in seen.must : \E n \in nodes :
              n.server = s /\ n.svc = reader.at /\ n \in reader.todo \cup reader.got

-----------------------------------------------------------------------------
(* How the steps change the threads *)

(* Only thread t of server s does something. *)
OnlyCall(s, t) ==
    \A u \in Servers, v \in Threads : <<u, v>> # <<s, t>> => th'[u][v] = th[u][v]

CallBecomes(s, t, c) == th'[s][t] = c /\ OnlyCall(s, t) /\ ThreadsTyped'

LEMMA CallShape ==
    ASSUME ThreadsTyped, NEW s \in Servers, NEW t \in Threads, NEW c, IsCall(c),
           th' = [th EXCEPT ![s][t] = c]
    PROVE  CallBecomes(s, t, c)
<1>1. PICK f : f = [u \in Servers |-> [v \in Threads |-> th[u][v]]]
  OBVIOUS
<1>2. th = f
  BY <1>1 DEF ThreadsTyped
<1>3. th' = [f EXCEPT ![s][t] = c]
  BY <1>2
<1>4. \A u \in Servers, v \in Threads :
          th'[u][v] = IF u = s /\ v = t THEN c ELSE f[u][v]
  BY <1>1, <1>3
<1>5. th' = [u \in Servers |-> [v \in Threads |-> th'[u][v]]]
  BY <1>1, <1>3
<1>6. \A u \in Servers, v \in Threads : IsCall(th'[u][v])
  <2> SUFFICES ASSUME NEW u \in Servers, NEW v \in Threads
               PROVE  IsCall(th'[u][v])
    OBVIOUS
  <2>1. th'[u][v] = IF u = s /\ v = t THEN c ELSE th[u][v]
    BY <1>2, <1>4
  <2>2. IsCall(th[u][v])
    BY DEF ThreadsTyped
  <2>3. CASE u = s /\ v = t
    BY <2>1, <2>3
  <2>4. CASE ~(u = s /\ v = t)
    BY <2>1, <2>2, <2>4
  <2> QED
    BY <2>3, <2>4
<1>7. th'[s][t] = c /\ OnlyCall(s, t)
  BY <1>2, <1>4 DEF OnlyCall
<1> QED
  BY <1>5, <1>6, <1>7 DEF CallBecomes, ThreadsTyped

First(op) == IF op \in {"start", "register"} THEN "create" ELSE "find"

(* What the thread is at when it has done with a service. *)
Done(c, svc) ==
    LET rest == c.todo \ {svc}
    IN  IF rest # {}
        THEN [op |-> c.op, at |-> First(c.op), todo |-> rest, node |-> NoNode]
        ELSE CASE c.op = "unregister" ->
                     [op |-> c.op, at |-> "erase", todo |-> c.todo, node |-> NoNode]
               [] c.op = "start" ->
                     [op |-> c.op, at |-> "heartbeat", todo |-> {}, node |-> c.node]
               [] OTHER -> Idle

LEMMA AfterEffect ==
    ASSUME ThreadsTyped, NEW s \in Servers, NEW t \in Threads, NEW svc, After(s, t, svc)
    PROVE  CallBecomes(s, t, Done(th[s][t], svc))
<1>1. PICK c : c = th[s][t]
  OBVIOUS
<1> DEFINE rest == c.todo \ {svc}
<1>2. c = [op |-> c.op, at |-> c.at, todo |-> c.todo, node |-> c.node] /\ c.todo \subseteq Services
  BY <1>1 DEF ThreadsTyped, IsCall
<1>3. \E e : e = Done(c, svc) /\ th' = [th EXCEPT ![s][t] = e]
  <2>1. CASE rest # {}
    <3>1. PICK e : e = [c EXCEPT !.at = First(c.op), !.todo = rest, !.node = NoNode]
      OBVIOUS
    <3>2. th' = [th EXCEPT ![s][t] = e]
      BY <2>1, <3>1, <1>1 DEF After, First
    <3>3. e = [op |-> c.op, at |-> First(c.op), todo |-> rest, node |-> NoNode]
      BY <1>2, <3>1
    <3>4. e = Done(c, svc)
      BY <2>1, <3>3 DEF Done
    <3> QED
      BY <3>2, <3>4
  <2>2. CASE rest = {} /\ c.op = "unregister"
    <3>1. PICK e : e = [c EXCEPT !.at = "erase", !.node = NoNode]
      OBVIOUS
    <3>2. th' = [th EXCEPT ![s][t] = e]
      BY <2>2, <3>1, <1>1 DEF After, First
    <3>3. e = [op |-> c.op, at |-> "erase", todo |-> c.todo, node |-> NoNode]
      BY <1>2, <3>1
    <3>4. e = Done(c, svc)
      BY <2>2, <3>3 DEF Done
    <3> QED
      BY <3>2, <3>4
  <2>3. CASE rest = {} /\ c.op = "start"
    <3>1. PICK e : e = [c EXCEPT !.at = "heartbeat", !.todo = {}]
      OBVIOUS
    <3>2. th' = [th EXCEPT ![s][t] = e]
      BY <2>3, <3>1, <1>1 DEF After, First
    <3>3. e = [op |-> c.op, at |-> "heartbeat", todo |-> {}, node |-> c.node]
      BY <1>2, <3>1
    <3>4. e = Done(c, svc)
      BY <2>3, <3>3 DEF Done
    <3> QED
      BY <3>2, <3>4
  <2>4. CASE rest = {} /\ c.op # "unregister" /\ c.op # "start"
    <3>1. th' = [th EXCEPT ![s][t] = Idle]
      BY <2>4, <1>1 DEF After
    <3>2. Idle = Done(c, svc)
      BY <2>4 DEF Done
    <3> QED
      BY <3>1, <3>2
  <2> QED
    BY <2>1, <2>2, <2>3, <2>4
<1>4. IsCall(Done(c, svc))
  BY <1>2 DEF Done, IsCall, Idle
<1> QED
  BY <1>1, <1>3, <1>4, CallShape

LEMMA StartCallCall ==
    ASSUME Types, NEW s \in Servers, StartCall(s)
    PROVE  CallBecomes(s, "main", [Idle EXCEPT !.op = "start", !.at = "connect"])
<1>1. PICK m : m = [Idle EXCEPT !.op = "start", !.at = "connect"]
  OBVIOUS
<1>2. th' = [th EXCEPT ![s]["main"] = m]
  BY <1>1 DEF StartCall
<1>3. IsCall(m)
  BY <1>1 DEF IsCall, Idle
<1>4. "main" \in Threads
  BY DEF Threads
<1> QED
  BY <1>1, <1>2, <1>3, <1>4, CallShape DEF Types

LEMMA ConnectCall ==
    ASSUME Types, NEW s \in Servers, NEW c \in BOOLEAN, Connect(s, c)
    PROVE  CallBecomes(s, "main", [Main(s) EXCEPT !.at = "lock"])
<1>1. PICK o : o = Main(s)
  OBVIOUS
<1>2. PICK m : m = [o EXCEPT !.at = "lock"]
  OBVIOUS
<1>3. th' = [th EXCEPT ![s]["main"] = m]
  BY <1>1, <1>2 DEF Connect, Main, To
<1>4. o = [op |-> o.op, at |-> o.at, todo |-> o.todo, node |-> o.node] /\ o.todo \subseteq Services
  BY <1>1 DEF Types, ThreadsTyped, IsCall, Threads, Main
<1>5. IsCall(m)
  BY <1>2, <1>4 DEF IsCall
<1>6. "main" \in Threads
  BY DEF Threads
<1> QED
  BY <1>1, <1>2, <1>3, <1>5, <1>6, CallShape DEF Types

LEMMA StartLoopCall ==
    ASSUME Types, NEW s \in Servers, StartLoop(s)
    PROVE  CallBecomes(s, "main", [Main(s) EXCEPT
           !.at = IF srv[s].services = {} THEN "heartbeat" ELSE "create",
           !.todo = srv[s].services])
<1>1. PICK o : o = Main(s)
  OBVIOUS
<1>2. PICK m : m = [o EXCEPT
           !.at = IF srv[s].services = {} THEN "heartbeat" ELSE "create",
           !.todo = srv[s].services]
  OBVIOUS
<1>3. th' = [th EXCEPT ![s]["main"] = m]
  BY <1>1, <1>2 DEF StartLoop, Main
<1>4. o = [op |-> o.op, at |-> o.at, todo |-> o.todo, node |-> o.node] /\ o.todo \subseteq Services
  BY <1>1 DEF Types, ThreadsTyped, IsCall, Threads, Main
<1>5. IsCall(m)
  BY <1>2, <1>4 DEF IsCall, Types, ServersTyped, Processes
<1>6. "main" \in Threads
  BY DEF Threads
<1> QED
  BY <1>1, <1>2, <1>3, <1>5, <1>6, CallShape DEF Types

LEMMA HeartbeatStartsCall ==
    ASSUME Types, NEW s \in Servers, HeartbeatStarts(s)
    PROVE  CallBecomes(s, "main", Idle)
<1>1. PICK m : m = Idle
  OBVIOUS
<1>2. th' = [th EXCEPT ![s]["main"] = m]
  BY <1>1 DEF HeartbeatStarts
<1>3. IsCall(m)
  BY <1>1 DEF IsCall, Idle
<1>4. "main" \in Threads
  BY DEF Threads
<1> QED
  BY <1>1, <1>2, <1>3, <1>4, CallShape DEF Types

LEMMA StopCallCall ==
    ASSUME Types, NEW s \in Servers, StopCall(s)
    PROVE  CallBecomes(s, "main", [Idle EXCEPT !.op = "stop", !.at = "join"])
<1>1. PICK m : m = [Idle EXCEPT !.op = "stop", !.at = "join"]
  OBVIOUS
<1>2. th' = [th EXCEPT ![s]["main"] = m]
  BY <1>1 DEF StopCall
<1>3. IsCall(m)
  BY <1>1 DEF IsCall, Idle
<1>4. "main" \in Threads
  BY DEF Threads
<1> QED
  BY <1>1, <1>2, <1>3, <1>4, CallShape DEF Types

LEMMA StopLoopCall ==
    ASSUME Types, NEW s \in Servers, StopLoop(s)
    PROVE  CallBecomes(s, "main", IF srv[s].services = {} THEN Idle
           ELSE [Main(s) EXCEPT !.at = "find", !.todo = srv[s].services])
<1>1. PICK o : o = Main(s)
  OBVIOUS
<1>2. PICK m : m = IF srv[s].services = {} THEN Idle
           ELSE [o EXCEPT !.at = "find", !.todo = srv[s].services]
  OBVIOUS
<1>3. th' = [th EXCEPT ![s]["main"] = m]
  BY <1>1, <1>2 DEF StopLoop, Main
<1>4. o = [op |-> o.op, at |-> o.at, todo |-> o.todo, node |-> o.node] /\ o.todo \subseteq Services
  BY <1>1 DEF Types, ThreadsTyped, IsCall, Threads, Main
<1>5. IsCall(m)
  BY <1>2, <1>4 DEF IsCall, Idle, Types, ServersTyped, Processes
<1>6. "main" \in Threads
  BY DEF Threads
<1> QED
  BY <1>1, <1>2, <1>3, <1>5, <1>6, CallShape DEF Types

LEMMA RegisterCallCall ==
    ASSUME Types, NEW s \in Servers, NEW svc \in Services, RegisterCall(s, svc)
    PROVE  CallBecomes(s, "app", [Idle EXCEPT !.op = "register", !.at = "test", !.todo = {svc}])
<1>1. PICK m : m = [Idle EXCEPT !.op = "register", !.at = "test", !.todo = {svc}]
  OBVIOUS
<1>2. th' = [th EXCEPT ![s]["app"] = m]
  BY <1>1 DEF RegisterCall
<1>3. IsCall(m)
  BY <1>1 DEF IsCall, Idle
<1>4. "app" \in Threads
  BY DEF Threads
<1> QED
  BY <1>1, <1>2, <1>3, <1>4, CallShape DEF Types

LEMMA RegisterTestCall ==
    ASSUME Types, NEW s \in Servers, RegisterTest(s)
    PROVE  CallBecomes(s, "app", IF srv[s].running /\ srv[s].registry # NoSession
           THEN [App(s) EXCEPT !.at = "create"] ELSE Idle)
<1>1. PICK o : o = App(s)
  OBVIOUS
<1>2. PICK m : m = IF srv[s].running /\ srv[s].registry # NoSession
           THEN [o EXCEPT !.at = "create"] ELSE Idle
  OBVIOUS
<1>3. th' = [th EXCEPT ![s]["app"] = m]
  BY <1>1, <1>2 DEF RegisterTest, App
<1>4. o = [op |-> o.op, at |-> o.at, todo |-> o.todo, node |-> o.node] /\ o.todo \subseteq Services
  BY <1>1 DEF Types, ThreadsTyped, IsCall, Threads, App
<1>5. IsCall(m)
  BY <1>2, <1>4 DEF IsCall, Idle
<1>6. "app" \in Threads
  BY DEF Threads
<1> QED
  BY <1>1, <1>2, <1>3, <1>5, <1>6, CallShape DEF Types

LEMMA UnregisterCallCall ==
    ASSUME Types, NEW s \in Servers, NEW svc \in Services, UnregisterCall(s, svc)
    PROVE  CallBecomes(s, "app", [Idle EXCEPT !.op = "unregister", !.at = FirstUnregister(s), !.todo = {svc}])
<1>1. PICK m : m = [Idle EXCEPT !.op = "unregister", !.at = FirstUnregister(s), !.todo = {svc}]
  OBVIOUS
<1>2. th' = [th EXCEPT ![s]["app"] = m]
  BY <1>1 DEF UnregisterCall
<1>3. IsCall(m)
  BY <1>1 DEF IsCall, Idle
<1>4. "app" \in Threads
  BY DEF Threads
<1> QED
  BY <1>1, <1>2, <1>3, <1>4, CallShape DEF Types

LEMMA EraseCall ==
    ASSUME Types, NEW s \in Servers, Erase(s)
    PROVE  CallBecomes(s, "app", Idle)
<1>1. PICK m : m = Idle
  OBVIOUS
<1>2. th' = [th EXCEPT ![s]["app"] = m]
  BY <1>1 DEF Erase
<1>3. IsCall(m)
  BY <1>1 DEF IsCall, Idle
<1>4. "app" \in Threads
  BY DEF Threads
<1> QED
  BY <1>1, <1>2, <1>3, <1>4, CallShape DEF Types

(* A node that Find has found is kept for Delete. *)
Found(c, n) == [op |-> c.op, at |-> "delete", todo |-> c.todo, node |-> n]

LEMMA FindCall ==
    ASSUME ThreadsTyped, NEW s \in Servers, NEW t \in Threads, NEW n,
           th' = [th EXCEPT ![s][t].at = "delete", ![s][t].node = n]
    PROVE  CallBecomes(s, t, Found(th[s][t], n))
<1>1. PICK o : o = th[s][t]
  OBVIOUS
<1>2. o = [op |-> o.op, at |-> o.at, todo |-> o.todo, node |-> o.node] /\ o.todo \subseteq Services
  BY <1>1 DEF ThreadsTyped, IsCall
<1>3. PICK m : m = [o EXCEPT !.at = "delete", !.node = n]
  OBVIOUS
<1>4. m = Found(o, n)
  BY <1>2, <1>3 DEF Found
<1>5. th' = [th EXCEPT ![s][t] = m]
  BY <1>1, <1>3
<1>6. IsCall(m)
  BY <1>2, <1>4 DEF IsCall, Found
<1> QED
  BY <1>1, <1>4, <1>5, <1>6, CallShape

-----------------------------------------------------------------------------
(* How the steps change the servers *)

OnlyServer(s) == \A u \in Servers : u # s => srv'[u] = srv[u]

ServerBecomes(s, p) == srv'[s] = p /\ OnlyServer(s) /\ ServersTyped'

LEMMA ServersShape ==
    ASSUME ServersTyped, NEW s \in Servers, NEW p \in Processes,
           p.connected => p.registry # NoSession, srv' = [srv EXCEPT ![s] = p]
    PROVE  ServerBecomes(s, p)
<1>1. srv \in [Servers -> Processes]
  BY DEF ServersTyped
<1>2. \A u \in Servers : srv'[u] = IF u = s THEN p ELSE srv[u]
  BY <1>1
<1>3. srv' \in [Servers -> Processes]
  BY <1>1
<1> QED
  BY <1>2, <1>3 DEF ServerBecomes, OnlyServer, ServersTyped

LEMMA StartCallServer ==
    ASSUME ServersTyped, NEW s \in Servers, StartCall(s)
    PROVE  ServerBecomes(s, [srv[s] EXCEPT !.running = TRUE])
<1>1. PICK p : p = [srv[s] EXCEPT !.running = TRUE]
  OBVIOUS
<1>2. srv' = [srv EXCEPT ![s] = p]
  BY <1>1 DEF StartCall
<1>3. p \in Processes /\ (p.connected => p.registry # NoSession)
  BY <1>1 DEF ServersTyped, Processes
<1> QED
  BY <1>1, <1>2, <1>3, ServersShape

LEMMA ConnectServer ==
    ASSUME Types, NEW s \in Servers, NEW c \in BOOLEAN, Connect(s, c)
    PROVE  /\ <<s, count.starts>> \in Names
           /\ ServerBecomes(s, [srv[s] EXCEPT !.registry = <<s, count.starts>>, !.connected = c])
<1>1. PICK p : p = [srv[s] EXCEPT !.registry = <<s, count.starts>>, !.connected = c]
  OBVIOUS
<1>2. srv' = [srv EXCEPT ![s] = p]
  BY <1>1 DEF Connect
<1>3. count.starts \in 1 .. MaxStarts
  BY BoundsAssumption DEF Types, CountTyped, Connect
<1>4. <<s, count.starts>> \in Names /\ <<s, count.starts>> # NoSession
  BY <1>3 DEF Names, NoSession
<1>5. p \in Processes /\ (p.connected => p.registry # NoSession)
  BY <1>1, <1>4 DEF Types, ServersTyped, Processes
<1> QED
  BY <1>1, <1>2, <1>4, <1>5, ServersShape DEF Types

LEMMA HeartbeatStartsServer ==
    ASSUME ServersTyped, NEW s \in Servers, HeartbeatStarts(s)
    PROVE  ServerBecomes(s, [srv[s] EXCEPT !.heartbeat = "on"])
<1>1. PICK p : p = [srv[s] EXCEPT !.heartbeat = "on"]
  OBVIOUS
<1>2. srv' = [srv EXCEPT ![s] = p]
  BY <1>1 DEF HeartbeatStarts
<1>3. p \in Processes /\ (p.connected => p.registry # NoSession)
  BY <1>1 DEF ServersTyped, Processes
<1> QED
  BY <1>1, <1>2, <1>3, ServersShape

LEMMA StopCallServer ==
    ASSUME ServersTyped, NEW s \in Servers, StopCall(s)
    PROVE  ServerBecomes(s, [srv[s] EXCEPT !.running = FALSE, !.heartbeat = HeartbeatTold(s)])
<1>1. PICK p : p = [srv[s] EXCEPT !.running = FALSE, !.heartbeat = HeartbeatTold(s)]
  OBVIOUS
<1>2. srv' = [srv EXCEPT ![s] = p]
  BY <1>1 DEF StopCall
<1>3. p \in Processes /\ (p.connected => p.registry # NoSession)
  BY <1>1 DEF ServersTyped, Processes, HeartbeatTold
<1> QED
  BY <1>1, <1>2, <1>3, ServersShape

LEMMA HeartbeatEndsServer ==
    ASSUME ServersTyped, NEW s \in Servers, HeartbeatEnds(s)
    PROVE  ServerBecomes(s, [srv[s] EXCEPT !.heartbeat = "off"])
<1>1. PICK p : p = [srv[s] EXCEPT !.heartbeat = "off"]
  OBVIOUS
<1>2. srv' = [srv EXCEPT ![s] = p]
  BY <1>1 DEF HeartbeatEnds
<1>3. p \in Processes /\ (p.connected => p.registry # NoSession)
  BY <1>1 DEF ServersTyped, Processes
<1> QED
  BY <1>1, <1>2, <1>3, ServersShape

LEMMA RegisterCallServer ==
    ASSUME ServersTyped, NEW s \in Servers, NEW svc \in Services, RegisterCall(s, svc)
    PROVE  ServerBecomes(s, [srv[s] EXCEPT !.services = srv[s].services \cup {svc}])
<1>1. PICK p : p = [srv[s] EXCEPT !.services = srv[s].services \cup {svc}]
  OBVIOUS
<1>2. srv' = [srv EXCEPT ![s] = p]
  BY <1>1 DEF RegisterCall
<1>3. p \in Processes /\ (p.connected => p.registry # NoSession)
  BY <1>1 DEF ServersTyped, Processes
<1> QED
  BY <1>1, <1>2, <1>3, ServersShape

LEMMA EraseServer ==
    ASSUME ServersTyped, NEW s \in Servers, Erase(s)
    PROVE  ServerBecomes(s, [srv[s] EXCEPT !.services = srv[s].services \ App(s).todo])
<1>1. PICK p : p = [srv[s] EXCEPT !.services = srv[s].services \ App(s).todo]
  OBVIOUS
<1>2. srv' = [srv EXCEPT ![s] = p]
  BY <1>1 DEF Erase, App
<1>3. p \in Processes /\ (p.connected => p.registry # NoSession)
  BY <1>1 DEF ServersTyped, Processes
<1> QED
  BY <1>1, <1>2, <1>3, ServersShape

LEMMA WatcherServer ==
    ASSUME ServersTyped, NEW s \in Servers, ConnectionWatcher(s)
    PROVE  ServerBecomes(s, [srv[s] EXCEPT !.connected = ~srv[s].connected])
<1>1. PICK p : p = [srv[s] EXCEPT !.connected = ~srv[s].connected]
  OBVIOUS
<1>2. srv' = [srv EXCEPT ![s] = p]
  BY <1>1 DEF ConnectionWatcher
<1>3. p \in Processes /\ (p.connected => p.registry # NoSession)
  BY <1>1 DEF ServersTyped, Processes, ConnectionWatcher
<1> QED
  BY <1>1, <1>2, <1>3, ServersShape

LEMMA CrashServer ==
    ASSUME ServersTyped, NEW s \in Servers, Crash(s)
    PROVE  ServerBecomes(s, [Process({}) EXCEPT !.up = FALSE])
<1>1. PICK p : p = [Process({}) EXCEPT !.up = FALSE]
  OBVIOUS
<1>2. srv' = [srv EXCEPT ![s] = p]
  BY <1>1 DEF Crash
<1>3. p \in Processes /\ (p.connected => p.registry # NoSession)
  BY <1>1 DEF Process, Processes
<1> QED
  BY <1>1, <1>2, <1>3, ServersShape

LEMMA BootServer ==
    ASSUME ServersTyped, NEW s \in Servers, NEW S \in SUBSET Services, Boot(s, S)
    PROVE  ServerBecomes(s, Process(S))
<1>1. PICK p : p = Process(S)
  OBVIOUS
<1>2. srv' = [srv EXCEPT ![s] = p]
  BY <1>1 DEF Boot
<1>3. p \in Processes /\ (p.connected => p.registry # NoSession)
  BY <1>1 DEF Process, Processes
<1> QED
  BY <1>1, <1>2, <1>3, ServersShape

-----------------------------------------------------------------------------
(* Type correctness *)

LEMMA CountKept ==
    ASSUME Types, NEW s \in Servers, NEW t \in Threads, NEW c, CallBecomes(s, t, c),
           c.at # "connect", count' \in [starts : 0 .. MaxStarts, calls : 0 .. MaxCalls, faults : Nat],
           count'.starts = count.starts
    PROVE  CountTyped'
<1> SUFFICES ASSUME NEW u \in Servers, th'[u]["main"].at = "connect"
             PROVE  count'.starts > 0
  BY DEF CountTyped
<1>1. th'[u]["main"] = th[u]["main"]
  BY DEF CallBecomes, OnlyCall, Threads
<1> QED
  BY <1>1 DEF Types, CountTyped

LEMMA DoneAt ==
    ASSUME NEW c, NEW svc
    PROVE  /\ Done(c, svc).at \in {"create", "find", "erase", "heartbeat", "idle"}
           /\ Done(c, svc).at # "connect"
BY DEF Done, First, Idle

(* A fault is counted. *)
LEMMA FaultCounted ==
    ASSUME Types, Counted("faults")
    PROVE  /\ count' \in [starts : 0 .. MaxStarts, calls : 0 .. MaxCalls, faults : Nat]
           /\ count'.starts = count.starts
BY DEF Types, CountTyped, Counted

LEMMA NodeTyped ==
    ASSUME NEW s \in Servers, NEW svc \in Services, Usable(s)
    PROVE  LET n == Node(s, svc)
           IN  /\ n.svc = svc /\ n.server = s /\ n.id = Id(s)
               /\ n.session = srv[s].registry /\ n.session \in sessions
               /\ n # NoNode
<1>1. PICK k : Node(s, svc) = [svc |-> svc, id |-> Id(s), server |-> s,
                               session |-> srv[s].registry, number |-> k]
  BY DEF Node
<1>2. \A n : n = [svc |-> svc, id |-> Id(s), server |-> s,
                  session |-> srv[s].registry, number |-> k] =>
          n.svc = svc /\ n.server = s /\ n.id = Id(s) /\ n.session = srv[s].registry
  OBVIOUS
<1>3. DOMAIN [svc |-> svc, id |-> Id(s), server |-> s,
              session |-> srv[s].registry, number |-> k] # DOMAIN <<>>
  OBVIOUS
<1> QED
  BY <1>1, <1>2, <1>3 DEF Usable, NoNode

LEMMA RunTypes ==
    ASSUME Types, NEW s \in Servers, Run(s)
    PROVE  Types'
<1> USE DEF Threads
<1>1. ASSUME NEW c \in BOOLEAN, Connect(s, c)
      PROVE  Types'
  <2>1. ServersTyped'
    BY <1>1, ConnectServer DEF ServerBecomes
  <2>2. CallBecomes(s, "main", [Main(s) EXCEPT !.at = "lock"])
    BY <1>1, ConnectCall
  <2>3. IsCall(Main(s))
    BY DEF Types, ThreadsTyped, Main
  <2>4. [Main(s) EXCEPT !.at = "lock"].at # "connect"
    BY <2>3 DEF IsCall
  <2>5. /\ count' \in [starts : 0 .. MaxStarts, calls : 0 .. MaxCalls, faults : Nat]
        /\ count'.starts = count.starts
    BY <1>1 DEF Connect, Types, CountTyped
  <2>6. CountTyped'
    BY <2>2, <2>4, <2>5, CountKept
  <2>7. ZooKeeperTyped'
    BY <1>1, ConnectServer DEF Connect, Types, ZooKeeperTyped
  <2> QED
    BY <2>1, <2>2, <2>6, <2>7 DEF Types, CallBecomes
<1>2. ASSUME StartLoop(s)
      PROVE  Types'
  <2> DEFINE m == [Main(s) EXCEPT
                      !.at = IF srv[s].services = {} THEN "heartbeat" ELSE "create",
                      !.todo = srv[s].services]
  <2>1. CallBecomes(s, "main", m)
    BY <1>2, StartLoopCall
  <2>2. PICK o : o = Main(s)
    OBVIOUS
  <2>3. o = [op |-> o.op, at |-> o.at, todo |-> o.todo, node |-> o.node]
    BY <2>2 DEF Types, ThreadsTyped, IsCall, Main
  <2>4. m.at # "connect"
    BY <2>2, <2>3
  <2>5. ServersTyped' /\ ZooKeeperTyped' /\ count' = count
    BY <1>2 DEF StartLoop, Types, ServersTyped, ZooKeeperTyped, zk
  <2> HIDE DEF m
  <2>6. CountTyped'
    BY <2>1, <2>4, <2>5, CountKept DEF Types, CountTyped
  <2> QED
    BY <2>1, <2>5, <2>6 DEF Types, CallBecomes
<1>3. ASSUME HeartbeatStarts(s)
      PROVE  Types'
  <2>1. CallBecomes(s, "main", Idle) /\ Idle.at # "connect"
    BY <1>3, HeartbeatStartsCall DEF Idle
  <2>2. ServersTyped'
    BY <1>3, HeartbeatStartsServer DEF ServerBecomes, Types
  <2>3. ZooKeeperTyped' /\ count' = count
    BY <1>3 DEF HeartbeatStarts, Types, ZooKeeperTyped, zk
  <2>4. CountTyped'
    BY <2>1, <2>3, CountKept DEF Types, CountTyped
  <2> QED
    BY <2>1, <2>2, <2>3, <2>4 DEF Types, CallBecomes
<1>4. ASSUME StopLoop(s)
      PROVE  Types'
  <2> DEFINE m == IF srv[s].services = {} THEN Idle
                  ELSE [Main(s) EXCEPT !.at = "find", !.todo = srv[s].services]
  <2>1. CallBecomes(s, "main", m)
    BY <1>4, StopLoopCall
  <2>2. PICK o : o = Main(s)
    OBVIOUS
  <2>3. o = [op |-> o.op, at |-> o.at, todo |-> o.todo, node |-> o.node]
    BY <2>2 DEF Types, ThreadsTyped, IsCall, Main
  <2>4. m.at # "connect"
    BY <2>2, <2>3 DEF Idle
  <2>5. ServersTyped' /\ ZooKeeperTyped' /\ count' = count
    BY <1>4 DEF StopLoop, Types, ServersTyped, ZooKeeperTyped, zk
  <2> HIDE DEF m
  <2>6. CountTyped'
    BY <2>1, <2>4, <2>5, CountKept DEF Types, CountTyped
  <2> QED
    BY <2>1, <2>5, <2>6 DEF Types, CallBecomes
<1>5. ASSUME HeartbeatEnds(s)
      PROVE  Types'
  <2>1. ServersTyped'
    BY <1>5, HeartbeatEndsServer DEF ServerBecomes, Types
  <2> QED
    BY <1>5, <2>1 DEF HeartbeatEnds, Types, ThreadsTyped, CountTyped, ZooKeeperTyped, zk
<1>6. ASSUME RegisterTest(s)
      PROVE  Types'
  <2> DEFINE m == IF srv[s].running /\ srv[s].registry # NoSession
                  THEN [App(s) EXCEPT !.at = "create"] ELSE Idle
  <2>1. CallBecomes(s, "app", m)
    BY <1>6, RegisterTestCall
  <2>2. PICK o : o = App(s)
    OBVIOUS
  <2>3. o = [op |-> o.op, at |-> o.at, todo |-> o.todo, node |-> o.node]
    BY <2>2 DEF Types, ThreadsTyped, IsCall, App
  <2>4. m.at # "connect"
    BY <2>2, <2>3 DEF Idle
  <2>5. ServersTyped' /\ ZooKeeperTyped' /\ count' = count
    BY <1>6 DEF RegisterTest, Types, ServersTyped, ZooKeeperTyped, zk
  <2> HIDE DEF m
  <2>6. CountTyped'
    BY <2>1, <2>4, <2>5, CountKept DEF Types, CountTyped
  <2> QED
    BY <2>1, <2>5, <2>6 DEF Types, CallBecomes
<1>7. ASSUME Erase(s)
      PROVE  Types'
  <2>1. CallBecomes(s, "app", Idle) /\ Idle.at # "connect"
    BY <1>7, EraseCall DEF Idle
  <2>2. ServersTyped'
    BY <1>7, EraseServer DEF ServerBecomes, Types
  <2>3. ZooKeeperTyped' /\ count' = count
    BY <1>7 DEF Erase, Types, ZooKeeperTyped, zk
  <2>4. CountTyped'
    BY <2>1, <2>3, CountKept DEF Types, CountTyped
  <2> QED
    BY <2>1, <2>2, <2>3, <2>4 DEF Types, CallBecomes
<1>8. ASSUME NEW t \in Threads, NEW svc, After(s, t, svc), UNCHANGED <<sessions, srv>>,
             count' = count \/ Counted("faults"), ZooKeeperTyped'
      PROVE  Types'
  <2>1. CallBecomes(s, t, Done(th[s][t], svc)) /\ Done(th[s][t], svc).at # "connect"
    BY <1>8, AfterEffect, DoneAt DEF Types
  <2>2. /\ count' \in [starts : 0 .. MaxStarts, calls : 0 .. MaxCalls, faults : Nat]
        /\ count'.starts = count.starts
    BY <1>8, FaultCounted DEF Types, CountTyped
  <2>3. CountTyped'
    BY <2>1, <2>2, CountKept
  <2> QED
    BY <1>8, <2>1, <2>3 DEF Types, CallBecomes, ServersTyped
<1>9. ASSUME NEW t \in Threads, Delete(s, t)
      PROVE  Types'
  <2>1. ZooKeeperTyped'
    BY <1>9 DEF Delete, Types, ZooKeeperTyped
  <2> QED
    BY <1>8, <1>9, <2>1 DEF Delete
<1>10. ASSUME NEW t \in Threads, NEW svc \in Services, Create(s, t, svc)
       PROVE  Types'
  <2>1. ZooKeeperTyped'
    BY <1>10, NodeTyped DEF Create, Types, ZooKeeperTyped
  <2> QED
    BY <1>8, <1>10, <2>1 DEF Create
<1>11. ASSUME NEW t \in Threads, NEW svc \in Services, CreateFails(s, t, svc)
       PROVE  Types'
  <2>1. ZooKeeperTyped'
    BY <1>11, NodeTyped DEF CreateFails, Types, ZooKeeperTyped
  <2> QED
    BY <1>8, <1>11, <2>1 DEF CreateFails
<1>12. ASSUME NEW t \in Threads, NEW svc \in Services, FindOrDeleteFails(s, t, svc)
       PROVE  Types'
  <2>1. ZooKeeperTyped'
    BY <1>12 DEF FindOrDeleteFails, Types, ZooKeeperTyped
  <2> QED
    BY <1>8, <1>12, <2>1 DEF FindOrDeleteFails
<1>13. ASSUME NEW t \in Threads, NEW svc \in Services, Find(s, t, svc)
       PROVE  Types'
  <2>1. ZooKeeperTyped' /\ UNCHANGED <<sessions, srv>> /\ count' = count
    BY <1>13 DEF Find, Types, ZooKeeperTyped, zk
  <2>2. CASE After(s, t, svc)
    BY <1>8, <2>1, <2>2
  <2>3. CASE \E n \in nodes : th' = [th EXCEPT ![s][t].at = "delete", ![s][t].node = n]
    <3>1. PICK n \in nodes : th' = [th EXCEPT ![s][t].at = "delete", ![s][t].node = n]
      BY <2>3
    <3>2. CallBecomes(s, t, Found(th[s][t], n)) /\ Found(th[s][t], n).at # "connect"
      BY <3>1, FindCall DEF Types, Found
    <3>3. CountTyped'
      BY <2>1, <3>2, CountKept DEF Types, CountTyped
    <3> QED
      BY <2>1, <3>2, <3>3 DEF Types, CallBecomes, ServersTyped
  <2> QED
    BY <1>13, <2>2, <2>3 DEF Find
<1> QED
  BY <1>1, <1>2, <1>3, <1>4, <1>5, <1>6, <1>7, <1>9, <1>10, <1>11, <1>12, <1>13 DEF Run

LEMMA CallOfTypes ==
    ASSUME Types, NEW s \in Servers, CallOf(s)
    PROVE  Types'
<1> USE DEF Threads
<1>1. ASSUME StartCall(s)
      PROVE  Types'
  <2>1. CallBecomes(s, "main", [Idle EXCEPT !.op = "start", !.at = "connect"])
    BY <1>1, StartCallCall
  <2>2. ServersTyped'
    BY <1>1, StartCallServer DEF ServerBecomes, Types
  <2>3. /\ count' \in [starts : 0 .. MaxStarts, calls : 0 .. MaxCalls, faults : Nat]
        /\ count'.starts > 0
    BY <1>1, BoundsAssumption DEF StartCall, Counted, Types, CountTyped
  <2>4. ZooKeeperTyped'
    BY <1>1 DEF StartCall, Types, ZooKeeperTyped, zk
  <2> QED
    BY <2>1, <2>2, <2>3, <2>4 DEF Types, CountTyped, CallBecomes
<1>2. ASSUME StopCall(s)
      PROVE  Types'
  <2>1. /\ CallBecomes(s, "main", [Idle EXCEPT !.op = "stop", !.at = "join"])
        /\ [Idle EXCEPT !.op = "stop", !.at = "join"].at # "connect"
    BY <1>2, StopCallCall DEF Idle
  <2>2. ServersTyped'
    BY <1>2, StopCallServer DEF ServerBecomes, Types
  <2>3. ZooKeeperTyped' /\ count' = count
    BY <1>2 DEF StopCall, Types, ZooKeeperTyped, zk
  <2>4. CountTyped'
    BY <2>1, <2>3, CountKept DEF Types, CountTyped
  <2> QED
    BY <2>1, <2>2, <2>3, <2>4 DEF Types, CallBecomes
<1>3. Counted("calls") /\ count.calls < MaxCalls =>
          /\ count' \in [starts : 0 .. MaxStarts, calls : 0 .. MaxCalls, faults : Nat]
          /\ count'.starts = count.starts
  BY BoundsAssumption DEF Counted, Types, CountTyped
<1>4. ASSUME NEW svc \in Services, RegisterCall(s, svc)
      PROVE  Types'
  <2>1. /\ CallBecomes(s, "app", [Idle EXCEPT !.op = "register", !.at = "test", !.todo = {svc}])
        /\ [Idle EXCEPT !.op = "register", !.at = "test", !.todo = {svc}].at # "connect"
    BY <1>4, RegisterCallCall DEF Idle
  <2>2. ServersTyped'
    BY <1>4, RegisterCallServer DEF ServerBecomes, Types
  <2>3. ZooKeeperTyped'
    BY <1>4 DEF RegisterCall, Types, ZooKeeperTyped, zk
  <2>4. CountTyped'
    BY <1>3, <1>4, <2>1, CountKept DEF RegisterCall, CanCall
  <2> QED
    BY <2>1, <2>2, <2>3, <2>4 DEF Types, CallBecomes
<1>5. ASSUME NEW svc \in Services, UnregisterCall(s, svc)
      PROVE  Types'
  <2> DEFINE m == [Idle EXCEPT !.op = "unregister", !.at = FirstUnregister(s), !.todo = {svc}]
  <2>1. CallBecomes(s, "app", m) /\ m.at # "connect"
    BY <1>5, UnregisterCallCall DEF Idle, FirstUnregister
  <2>2. ServersTyped' /\ ZooKeeperTyped'
    BY <1>5 DEF UnregisterCall, Types, ServersTyped, ZooKeeperTyped, zk
  <2> HIDE DEF m
  <2>3. CountTyped'
    BY <1>3, <1>5, <2>1, CountKept DEF UnregisterCall, CanCall
  <2> QED
    BY <2>1, <2>2, <2>3 DEF Types, CallBecomes
<1> QED
  BY <1>1, <1>2, <1>4, <1>5 DEF CallOf

LEMMA CrashThreads ==
    ASSUME ThreadsTyped, NEW s \in Servers, Crash(s)
    PROVE  /\ \A t \in Threads : th'[s][t] = Idle
           /\ \A u \in Servers, t \in Threads : u # s => th'[u][t] = th[u][t]
           /\ ThreadsTyped'
<1>1. PICK f : f = [u \in Servers |-> [v \in Threads |-> th[u][v]]]
  OBVIOUS
<1>2. th = f
  BY <1>1 DEF ThreadsTyped
<1>3. th' = [f EXCEPT ![s] = [t \in Threads |-> Idle]]
  BY <1>2 DEF Crash
<1>4. \A u \in Servers, v \in Threads : th'[u][v] = IF u = s THEN Idle ELSE f[u][v]
  BY <1>1, <1>3
<1>5. th' = [u \in Servers |-> [v \in Threads |-> th'[u][v]]]
  BY <1>1, <1>3
<1>6. IsCall(Idle)
  BY DEF IsCall, Idle
<1>7. \A u \in Servers, v \in Threads : IsCall(th'[u][v])
  <2> SUFFICES ASSUME NEW u \in Servers, NEW v \in Threads
               PROVE  IsCall(th'[u][v])
    OBVIOUS
  <2>1. CASE u = s
    BY <1>4, <1>6, <2>1
  <2>2. CASE u # s
    <3>1. th'[u][v] = th[u][v]
      BY <1>2, <1>4, <2>2
    <3>2. IsCall(th[u][v])
      BY DEF ThreadsTyped
    <3> QED
      BY <3>1, <3>2
  <2> QED
    BY <2>1, <2>2
<1>8. \A t \in Threads : th'[s][t] = Idle
  BY <1>4
<1>9. \A u \in Servers, t \in Threads : u # s => th'[u][t] = th[u][t]
  BY <1>2, <1>4
<1> QED
  BY <1>5, <1>7, <1>8, <1>9 DEF ThreadsTyped

LEMMA OtherTypes ==
    ASSUME Types,
           \/ \E s \in Servers : Crash(s) \/ \E S \in SUBSET Services : Boot(s, S)
           \/ ZooKeeper \/ Client \/ UNCHANGED vars
    PROVE  Types'
<1> USE DEF Threads
<1>1. ASSUME NEW s \in Servers, Crash(s)
      PROVE  Types'
  <2>1. ServersTyped'
    BY <1>1, CrashServer DEF ServerBecomes, Types
  <2>2. ThreadsTyped' /\ ZooKeeperTyped' /\ count' = count
    BY <1>1, CrashThreads DEF Crash, Types, ZooKeeperTyped, zk
  <2>3. \A u \in Servers : th'[u]["main"].at = "connect" => th[u]["main"].at = "connect"
    BY <1>1, CrashThreads DEF Types, Idle
  <2> QED
    BY <2>1, <2>2, <2>3 DEF Types, CountTyped
<1>2. ASSUME NEW s \in Servers, NEW S \in SUBSET Services, Boot(s, S)
      PROVE  Types'
  <2>1. ServersTyped'
    BY <1>2, BootServer DEF ServerBecomes, Types
  <2> QED
    BY <1>2, <2>1 DEF Boot, Types, ThreadsTyped, CountTyped, ZooKeeperTyped, zk
<1>3. ASSUME NEW ss \in sessions, Expire(ss)
      PROVE  Types'
  <2>1. count' = count \/ count' = [count EXCEPT !.faults = @ + 1]
    BY <1>3 DEF Expire
  <2>2. /\ count' \in [starts : 0 .. MaxStarts, calls : 0 .. MaxCalls, faults : Nat]
        /\ count'.starts = count.starts
    BY <2>1 DEF Types, CountTyped
  <2>3. CountTyped'
    BY <1>3, <2>2 DEF Expire, Types, CountTyped
  <2>4. ZooKeeperTyped'
    BY <1>3 DEF Expire, Types, ZooKeeperTyped
  <2> QED
    BY <1>3, <2>3, <2>4 DEF Expire, Types, ServersTyped, ThreadsTyped
<1>4. ASSUME NEW s \in Servers, ConnectionWatcher(s)
      PROVE  Types'
  <2>1. ServersTyped'
    BY <1>4, WatcherServer DEF ServerBecomes, Types
  <2> QED
    BY <1>4, <2>1 DEF ConnectionWatcher, Types, ThreadsTyped, CountTyped, ZooKeeperTyped, zk
<1>5. ASSUME Client \/ UNCHANGED vars
      PROVE  Types'
  <2>1. UNCHANGED <<nodes, sessions, srv, th, disturbed, count>>
    BY <1>5 DEF Client, Discover, Get, DiscoverReturns, vars, zk
  <2> QED
    BY <2>1 DEF Types, ServersTyped, ThreadsTyped, CountTyped, ZooKeeperTyped
<1> QED
  BY <1>1, <1>2, <1>3, <1>4, <1>5 DEF ZooKeeper

LEMMA InitTypes ==
    ASSUME Init
    PROVE  Types
<1>1. ServersTyped
  <2>1. \A S \in SUBSET Services : Process(S) \in Processes /\ ~Process(S).connected
    BY DEF Process, Processes
  <2>2. srv \in [Servers -> {Process(S) : S \in SUBSET Services}]
    BY DEF Init
  <2> QED
    BY <2>1, <2>2 DEF ServersTyped
<1>2. ThreadsTyped
  <2>1. IsCall(Idle)
    BY DEF IsCall, Idle
  <2>2. th = [s \in Servers |-> [t \in Threads |-> Idle]]
    BY DEF Init
  <2>3. \A s \in Servers, t \in Threads : th[s][t] = Idle
    BY <2>2
  <2> QED
    BY <2>1, <2>2, <2>3 DEF ThreadsTyped
<1>3. CountTyped
  BY BoundsAssumption DEF Init, CountTyped, Threads, Idle
<1> QED
  BY <1>1, <1>2, <1>3 DEF Init, Types, ZooKeeperTyped

LEMMA StepTypes ==
    ASSUME Types, [Next]_vars
    PROVE  Types'
BY RunTypes, CallOfTypes, OtherTypes DEF Next, Step

(* Every reachable state has its types: services stay among Services, each *)
(* node belongs to a session that ZooKeeper still keeps, sessions are      *)
(* numbered within the bound, a registry that is connected exists          *)
(* (rpc_server.cpp:23-130, zookeeper_registry.cpp:23-320).                 *)
THEOREM RegistryType == Spec => []TypeOK
<1>1. Types => TypeOK
  BY DEF Types, ServersTyped, Processes, CountTyped, ZooKeeperTyped, TypeOK, Names
<1> QED
  BY <1>1, InitTypes, StepTypes, PTL DEF Spec

-----------------------------------------------------------------------------
(* One step of a server that makes one call at a time.  p, m and a are the *)
(* process and its two calls before the step.                              *)

LEMMA StartCallOrderly ==
    ASSUME NEW s \in Servers, NEW p \in Processes, NEW m, NEW a, IsCall(m), IsCall(a),
           Orderly(s, p, m, a), p.up, ~p.running, m = Idle, a = Idle
    PROVE  Orderly(s, [p EXCEPT !.running = TRUE], [Idle EXCEPT !.op = "start", !.at = "connect"], a)
BY DEF Orderly, MainCall, AppCall, Deleting, Living, Processes, IsCall, Idle

LEMMA ConnectOrderly ==
    ASSUME NEW s \in Servers, NEW p \in Processes, NEW m, NEW a, IsCall(m), IsCall(a),
           Orderly(s, p, m, a), m.at = "connect", NEW r, r # NoSession, r[1] = s, NEW c \in BOOLEAN
    PROVE  Orderly(s, [p EXCEPT !.registry = r, !.connected = c], [m EXCEPT !.at = "lock"], a)
BY DEF Orderly, MainCall, AppCall, Deleting, Living, Processes, IsCall, Idle

LEMMA StartLoopOrderly ==
    ASSUME NEW s \in Servers, NEW p \in Processes, NEW m, NEW a, IsCall(m), IsCall(a),
           Orderly(s, p, m, a), m.at = "lock"
    PROVE  Orderly(s, p, [m EXCEPT !.at = IF p.services = {} THEN "heartbeat" ELSE "create",
                                 !.todo = p.services], a)
BY DEF Orderly, MainCall, AppCall, Deleting, Living, Processes, IsCall, Idle

LEMMA HeartbeatStartsOrderly ==
    ASSUME NEW s \in Servers, NEW p \in Processes, NEW m, NEW a, IsCall(m), IsCall(a),
           Orderly(s, p, m, a), m.at = "heartbeat"
    PROVE  Orderly(s, [p EXCEPT !.heartbeat = "on"], Idle, a)
BY DEF Orderly, MainCall, AppCall, Deleting, Living, Processes, IsCall, Idle

LEMMA StopCallOrderly ==
    ASSUME NEW s \in Servers, NEW p \in Processes, NEW m, NEW a, IsCall(m), IsCall(a),
           Orderly(s, p, m, a), p.up, p.running, m = Idle, a = Idle, NEW h
    PROVE  Orderly(s, [p EXCEPT !.running = FALSE, !.heartbeat = h],
                      [Idle EXCEPT !.op = "stop", !.at = "join"], a)
BY DEF Orderly, MainCall, AppCall, Deleting, Living, Processes, IsCall, Idle

LEMMA HeartbeatEndsOrderly ==
    ASSUME NEW s \in Servers, NEW p \in Processes, NEW m, NEW a, IsCall(m), IsCall(a),
           Orderly(s, p, m, a), NEW h
    PROVE  Orderly(s, [p EXCEPT !.heartbeat = h], m, a)
BY DEF Orderly, MainCall, AppCall, Deleting, Living, Processes, IsCall, Idle

LEMMA WatcherOrderly ==
    ASSUME NEW s \in Servers, NEW p \in Processes, NEW m, NEW a, IsCall(m), IsCall(a),
           Orderly(s, p, m, a), NEW c \in BOOLEAN
    PROVE  Orderly(s, [p EXCEPT !.connected = c], m, a)
BY DEF Orderly, MainCall, AppCall, Deleting, Living, Processes, IsCall, Idle

LEMMA StopLoopOrderly ==
    ASSUME NEW s \in Servers, NEW p \in Processes, NEW m, NEW a, IsCall(m), IsCall(a),
           Orderly(s, p, m, a), m.at = "join"
    PROVE  Orderly(s, p, IF p.services = {} THEN Idle
                         ELSE [m EXCEPT !.at = "find", !.todo = p.services], a)
BY DEF Orderly, MainCall, AppCall, Deleting, Living, Processes, IsCall, Idle

LEMMA RegisterCallOrderly ==
    ASSUME NEW s \in Servers, NEW p \in Processes, NEW m, NEW a, IsCall(m), IsCall(a),
           Orderly(s, p, m, a), p.up, m = Idle, a = Idle, NEW svc \in Services
    PROVE  Orderly(s, [p EXCEPT !.services = p.services \cup {svc}], m,
                      [Idle EXCEPT !.op = "register", !.at = "test", !.todo = {svc}])
BY DEF Orderly, MainCall, AppCall, Deleting, Living, Processes, IsCall, Idle

LEMMA RegisterTestOrderly ==
    ASSUME NEW s \in Servers, NEW p \in Processes, NEW m, NEW a, IsCall(m), IsCall(a),
           Orderly(s, p, m, a), a.at = "test"
    PROVE  Orderly(s, p, m, IF p.running /\ p.registry # NoSession
                            THEN [a EXCEPT !.at = "create"] ELSE Idle)
BY DEF Orderly, MainCall, AppCall, Deleting, Living, Processes, IsCall, Idle

LEMMA UnregisterCallOrderly ==
    ASSUME NEW s \in Servers, NEW p \in Processes, NEW m, NEW a, IsCall(m), IsCall(a),
           Orderly(s, p, m, a), p.up, m = Idle, a = Idle,
           NEW svc \in p.services, NEW at \in {"find", "erase"}
    PROVE  Orderly(s, p, m, [Idle EXCEPT !.op = "unregister", !.at = at, !.todo = {svc}])
BY DEF Orderly, MainCall, AppCall, Deleting, Living, Processes, IsCall, Idle

LEMMA EraseOrderly ==
    ASSUME NEW s \in Servers, NEW p \in Processes, NEW m, NEW a, IsCall(m), IsCall(a),
           Orderly(s, p, m, a), a.at = "erase"
    PROVE  Orderly(s, [p EXCEPT !.services = p.services \ a.todo], m, Idle)
BY DEF Orderly, MainCall, AppCall, Deleting, Living, Processes, IsCall, Idle

LEMMA DoneMainOrderly ==
    ASSUME NEW s \in Servers, NEW p \in Processes, NEW m, NEW a, IsCall(m), IsCall(a),
           Orderly(s, p, m, a), m.at \in {"create", "find", "delete"}, NEW svc \in m.todo
    PROVE  Orderly(s, p, Done(m, svc), a)
BY DEF Orderly, MainCall, AppCall, Deleting, Living, Processes, IsCall, Idle, Done, First

LEMMA DoneAppOrderly ==
    ASSUME NEW s \in Servers, NEW p \in Processes, NEW m, NEW a, IsCall(m), IsCall(a),
           Orderly(s, p, m, a), a.at \in {"create", "find", "delete"}, NEW svc \in a.todo
    PROVE  Orderly(s, p, m, Done(a, svc))
BY DEF Orderly, MainCall, AppCall, Deleting, Living, Processes, IsCall, Idle, Done, First

LEMMA FoundMainOrderly ==
    ASSUME NEW s \in Servers, NEW p \in Processes, NEW m, NEW a, IsCall(m), IsCall(a),
           Orderly(s, p, m, a), m.at = "find", NEW n, n.server = s, n.svc \in m.todo
    PROVE  Orderly(s, p, Found(m, n), a)
BY DEF Orderly, MainCall, AppCall, Deleting, Living, Processes, IsCall, Idle, Found

LEMMA FoundAppOrderly ==
    ASSUME NEW s \in Servers, NEW p \in Processes, NEW m, NEW a, IsCall(m), IsCall(a),
           Orderly(s, p, m, a), a.at = "find", NEW n, n.server = s, n.svc \in a.todo
    PROVE  Orderly(s, p, m, Found(a, n))
BY DEF Orderly, MainCall, AppCall, Deleting, Living, Processes, IsCall, Idle, Found

-----------------------------------------------------------------------------
(* A server makes one call at a time *)

LEMMA ServerSane ==
    ASSUME Sane, NEW s \in Servers, OnlyServer(s),
           \A u \in Servers, t \in Threads : u # s => th'[u][t] = th[u][t],
           Orderly(s, srv'[s], th'[s]["main"], th'[s]["app"]),
           \A ss \in sessions' : ss[1] # s => ss \in sessions,
           srv'[s].up => \A ss \in sessions' : ss[1] = s => ss = srv'[s].registry
    PROVE  Sane'
<1> SUFFICES ASSUME NEW u \in Servers
             PROVE  /\ Orderly(u, srv'[u], th'[u]["main"], th'[u]["app"])
                    /\ srv'[u].up => \A ss \in sessions' : ss[1] = u => ss = srv'[u].registry
  BY DEF Sane, OneSession, OfServer, Main, App
<1>1. CASE u = s
  BY <1>1
<1>2. CASE u # s
  <2>1. srv'[u] = srv[u] /\ th'[u]["main"] = Main(u) /\ th'[u]["app"] = App(u)
    BY <1>2 DEF OnlyServer, Main, App, Threads
  <2>2. Orderly(u, srv[u], Main(u), App(u)) /\ OneSession(u)
    BY DEF Sane
  <2> QED
    BY <1>2, <2>1, <2>2 DEF OneSession, OfServer
<1> QED
  BY <1>1, <1>2

(* A step that leaves the sessions, and the server its registry. *)
LEMMA QuietSane ==
    ASSUME Sane, NEW s \in Servers, OnlyServer(s), sessions' = sessions,
           \A u \in Servers, t \in Threads : u # s => th'[u][t] = th[u][t],
           Orderly(s, srv'[s], th'[s]["main"], th'[s]["app"]),
           srv'[s].up => srv[s].up /\ srv'[s].registry = srv[s].registry
    PROVE  Sane'
<1>1. OneSession(s)
  BY DEF Sane
<1> QED
  BY <1>1, ServerSane DEF OneSession, OfServer

(* What is known of a server and of its calls before the step. *)
LEMMA Known ==
    ASSUME Types, Sane, NEW s \in Servers
    PROVE  /\ srv[s] \in Processes /\ IsCall(Main(s)) /\ IsCall(App(s))
           /\ Orderly(s, srv[s], Main(s), App(s))
BY DEF Types, ServersTyped, ThreadsTyped, Main, App, Threads, Sane

LEMMA OneMain ==
    ASSUME NEW s \in Servers, NEW c, CallBecomes(s, "main", c)
    PROVE  /\ th'[s]["main"] = c /\ th'[s]["app"] = App(s)
           /\ \A u \in Servers, t \in Threads : u # s => th'[u][t] = th[u][t]
BY DEF CallBecomes, OnlyCall, App, Threads

LEMMA OneApp ==
    ASSUME NEW s \in Servers, NEW c, CallBecomes(s, "app", c)
    PROVE  /\ th'[s]["app"] = c /\ th'[s]["main"] = Main(s)
           /\ \A u \in Servers, t \in Threads : u # s => th'[u][t] = th[u][t]
BY DEF CallBecomes, OnlyCall, Main, Threads

LEMMA CallsSane ==
    ASSUME Apart, Types, Sane, NEW s \in Servers, CallOf(s)
    PROVE  Sane'
<1> DEFINE p == srv[s]
           m == Main(s)
           a == App(s)
<1>1. p \in Processes /\ IsCall(m) /\ IsCall(a) /\ Orderly(s, p, m, a)
  BY Known
<1> HIDE DEF p, m, a
<1>2. ASSUME StartCall(s)
      PROVE  Sane'
  <2>1. PICK c1 : c1 = [Idle EXCEPT !.op = "start", !.at = "connect"]
    OBVIOUS
  <2>2. CallBecomes(s, "main", c1)
    BY <1>2, <2>1, StartCallCall DEF p, m, a
  <2>3. /\ th'[s]["main"] = c1 /\ th'[s]["app"] = a
        /\ \A u \in Servers, t \in Threads : u # s => th'[u][t] = th[u][t]
    BY <2>2, OneMain DEF m, a
  <2>4. PICK p1 : p1 = [p EXCEPT !.running = TRUE]
    OBVIOUS
  <2>5. srv'[s] = p1 /\ OnlyServer(s)
    BY <1>2, <2>4, StartCallServer DEF ServerBecomes, Types, p, a
  <2>6. Orderly(s, p1, c1, a)
    <3>1. p.up /\ ~p.running /\ m = Idle /\ a = Idle
      BY <1>2 DEF StartCall, CanCall, Apart, MainIdle, AppIdle, p, m, a, Main, App
    <3> QED
      BY <1>1, <3>1, <2>1, <2>4, StartCallOrderly
  <2>7. sessions' = sessions /\ (p1.up => p.up /\ p1.registry = p.registry)
    BY <1>1, <1>2, <2>4 DEF StartCall, zk, Processes
  <2> QED
    BY <2>3, <2>5, <2>6, <2>7, QuietSane DEF p
<1>3. ASSUME StopCall(s)
      PROVE  Sane'
  <2>1. PICK c1 : c1 = [Idle EXCEPT !.op = "stop", !.at = "join"]
    OBVIOUS
  <2>2. CallBecomes(s, "main", c1)
    BY <1>3, <2>1, StopCallCall DEF p, m, a
  <2>3. /\ th'[s]["main"] = c1 /\ th'[s]["app"] = a
        /\ \A u \in Servers, t \in Threads : u # s => th'[u][t] = th[u][t]
    BY <2>2, OneMain DEF m, a
  <2>4. PICK p1 : p1 = [p EXCEPT !.running = FALSE, !.heartbeat = HeartbeatTold(s)]
    OBVIOUS
  <2>5. srv'[s] = p1 /\ OnlyServer(s)
    BY <1>3, <2>4, StopCallServer DEF ServerBecomes, Types, p, a
  <2>6. Orderly(s, p1, c1, a)
    <3>1. p.up /\ p.running /\ m = Idle /\ a = Idle
      BY <1>3 DEF StopCall, CanCall, Apart, MainIdle, AppIdle, p, m, a, Main, App
    <3> QED
      BY <1>1, <3>1, <2>1, <2>4, StopCallOrderly
  <2>7. sessions' = sessions /\ (p1.up => p.up /\ p1.registry = p.registry)
    BY <1>1, <1>3, <2>4 DEF StopCall, zk, Processes
  <2> QED
    BY <2>3, <2>5, <2>6, <2>7, QuietSane DEF p
<1>4. ASSUME NEW svc \in Services, RegisterCall(s, svc)
      PROVE  Sane'
  <2>1. PICK c1 : c1 = [Idle EXCEPT !.op = "register", !.at = "test", !.todo = {svc}]
    OBVIOUS
  <2>2. CallBecomes(s, "app", c1)
    BY <1>4, <2>1, RegisterCallCall DEF p, m, a
  <2>3. /\ th'[s]["app"] = c1 /\ th'[s]["main"] = m
        /\ \A u \in Servers, t \in Threads : u # s => th'[u][t] = th[u][t]
    BY <2>2, OneApp DEF m, a
  <2>4. PICK p1 : p1 = [p EXCEPT !.services = p.services \cup {svc}]
    OBVIOUS
  <2>5. srv'[s] = p1 /\ OnlyServer(s)
    BY <1>4, <2>4, RegisterCallServer DEF ServerBecomes, Types, p, a
  <2>6. Orderly(s, p1, m, c1)
    <3>1. p.up /\ m = Idle /\ a = Idle
      BY <1>4 DEF RegisterCall, CanCall, Apart, MainIdle, AppIdle, p, m, a, Main, App
    <3> QED
      BY <1>1, <3>1, <2>1, <2>4, RegisterCallOrderly
  <2>7. sessions' = sessions /\ (p1.up => p.up /\ p1.registry = p.registry)
    BY <1>1, <1>4, <2>4 DEF RegisterCall, zk, Processes
  <2> QED
    BY <2>3, <2>5, <2>6, <2>7, QuietSane DEF p
<1>5. ASSUME NEW svc \in Services, UnregisterCall(s, svc)
      PROVE  Sane'
  <2>1. PICK c1 : c1 = [Idle EXCEPT !.op = "unregister", !.at = FirstUnregister(s), !.todo = {svc}]
    OBVIOUS
  <2>2. CallBecomes(s, "app", c1)
    BY <1>5, <2>1, UnregisterCallCall DEF p, m, a
  <2>3. /\ th'[s]["app"] = c1 /\ th'[s]["main"] = m
        /\ \A u \in Servers, t \in Threads : u # s => th'[u][t] = th[u][t]
    BY <2>2, OneApp DEF m, a
  <2>4. PICK p1 : p1 = p
    OBVIOUS
  <2>5. srv'[s] = p1 /\ OnlyServer(s)
    BY <1>5, <2>4 DEF UnregisterCall, OnlyServer, p
  <2>6. Orderly(s, p1, m, c1)
    <3>1. p.up /\ m = Idle /\ a = Idle /\ svc \in p.services
      BY <1>5 DEF UnregisterCall, CanCall, Apart, MainIdle, AppIdle, p, m, a, Main, App
    <3>2. FirstUnregister(s) \in {"find", "erase"}
      BY DEF FirstUnregister
    <3> QED
      BY <1>1, <3>1, <3>2, <2>1, <2>4, UnregisterCallOrderly
  <2>7. sessions' = sessions /\ (p1.up => p.up /\ p1.registry = p.registry)
    BY <1>1, <1>5, <2>4 DEF UnregisterCall, zk, Processes
  <2> QED
    BY <2>3, <2>5, <2>6, <2>7, QuietSane DEF p
<1> QED
  BY <1>2, <1>3, <1>4, <1>5 DEF CallOf

(* Servers that are apart never take each other's nodes for their own. *)
LEMMA SameNameOwn ==
    ASSUME Apart, Types, Owned, NEW s \in Servers, NEW svc, NEW n \in nodes
    PROVE  SameName(n, s, svc) <=> n.svc = svc /\ n.server = s
BY DEF Apart, Types, ZooKeeperTyped, Owned, SameName, Id

LEMMA RunSane ==
    ASSUME Apart, Types, Sane, Owned, NEW s \in Servers, Run(s)
    PROVE  Sane'
<1> DEFINE p == srv[s]
           m == Main(s)
           a == App(s)
<1>1. p \in Processes /\ IsCall(m) /\ IsCall(a) /\ Orderly(s, p, m, a)
  BY Known
<1> HIDE DEF p, m, a
<1>2. ASSUME NEW c \in BOOLEAN, Connect(s, c)
      PROVE  Sane'
  <2>1. PICK c1 : c1 = [m EXCEPT !.at = "lock"]
    OBVIOUS
  <2>2. CallBecomes(s, "main", c1)
    BY <1>2, <2>1, ConnectCall DEF p, m, a
  <2>3. /\ th'[s]["main"] = c1 /\ th'[s]["app"] = a
        /\ \A u \in Servers, t \in Threads : u # s => th'[u][t] = th[u][t]
    BY <2>2, OneMain DEF m, a
  <2>4. PICK p1 : p1 = [p EXCEPT !.registry = <<s, count.starts>>, !.connected = c]
    OBVIOUS
  <2>5. srv'[s] = p1 /\ OnlyServer(s)
    BY <1>2, <2>4, ConnectServer DEF ServerBecomes, Types, p, a
  <2>6. Orderly(s, p1, c1, a)
    <3>1. m.at = "connect"
      BY <1>2 DEF Connect, CanCall, Apart, MainIdle, AppIdle, p, m, a, Main, App
    <3>2. <<s, count.starts>> # NoSession /\ <<s, count.starts>>[1] = s
      BY DEF NoSession
    <3> QED
      BY <1>1, <3>1, <3>2, <2>1, <2>4, ConnectOrderly
  <2>7. /\ p1.registry = <<s, count.starts>> /\ p1.up = p.up
        /\ sessions' = (sessions \ {p.registry}) \cup {<<s, count.starts>>}
    BY <1>1, <1>2, <2>4 DEF Connect, Processes, p
  <2>8. \A ss \in sessions' : ss[1] # s => ss \in sessions
    BY <2>7
  <2>9. p1.up => \A ss \in sessions' : ss[1] = s => ss = p1.registry
    BY <2>7 DEF Sane, OneSession, OfServer, p
  <2> QED
    BY <2>3, <2>5, <2>6, <2>8, <2>9, ServerSane
<1>3. ASSUME StartLoop(s)
      PROVE  Sane'
  <2>1. PICK c1 : c1 = [m EXCEPT !.at = IF p.services = {} THEN "heartbeat" ELSE "create",
                           !.todo = p.services]
    OBVIOUS
  <2>2. CallBecomes(s, "main", c1)
    BY <1>3, <2>1, StartLoopCall DEF p, m, a
  <2>3. /\ th'[s]["main"] = c1 /\ th'[s]["app"] = a
        /\ \A u \in Servers, t \in Threads : u # s => th'[u][t] = th[u][t]
    BY <2>2, OneMain DEF m, a
  <2>4. PICK p1 : p1 = p
    OBVIOUS
  <2>5. srv'[s] = p1 /\ OnlyServer(s)
    BY <1>3, <2>4 DEF StartLoop, OnlyServer, p
  <2>6. Orderly(s, p1, c1, a)
    <3>1. m.at = "lock"
      BY <1>3 DEF StartLoop, CanCall, Apart, MainIdle, AppIdle, p, m, a, Main, App
    <3> QED
      BY <1>1, <3>1, <2>1, <2>4, StartLoopOrderly
  <2>7. sessions' = sessions /\ (p1.up => p.up /\ p1.registry = p.registry)
    BY <1>1, <1>3, <2>4 DEF StartLoop, zk, Processes
  <2> QED
    BY <2>3, <2>5, <2>6, <2>7, QuietSane DEF p
<1>4. ASSUME HeartbeatStarts(s)
      PROVE  Sane'
  <2>1. PICK c1 : c1 = Idle
    OBVIOUS
  <2>2. CallBecomes(s, "main", c1)
    BY <1>4, <2>1, HeartbeatStartsCall DEF p, m, a
  <2>3. /\ th'[s]["main"] = c1 /\ th'[s]["app"] = a
        /\ \A u \in Servers, t \in Threads : u # s => th'[u][t] = th[u][t]
    BY <2>2, OneMain DEF m, a
  <2>4. PICK p1 : p1 = [p EXCEPT !.heartbeat = "on"]
    OBVIOUS
  <2>5. srv'[s] = p1 /\ OnlyServer(s)
    BY <1>4, <2>4, HeartbeatStartsServer DEF ServerBecomes, Types, p, a
  <2>6. Orderly(s, p1, c1, a)
    <3>1. m.at = "heartbeat"
      BY <1>4 DEF HeartbeatStarts, CanCall, Apart, MainIdle, AppIdle, p, m, a, Main, App
    <3> QED
      BY <1>1, <3>1, <2>1, <2>4, HeartbeatStartsOrderly
  <2>7. sessions' = sessions /\ (p1.up => p.up /\ p1.registry = p.registry)
    BY <1>1, <1>4, <2>4 DEF HeartbeatStarts, zk, Processes
  <2> QED
    BY <2>3, <2>5, <2>6, <2>7, QuietSane DEF p
<1>5. ASSUME StopLoop(s)
      PROVE  Sane'
  <2>1. PICK c1 : c1 = IF p.services = {} THEN Idle
                       ELSE [m EXCEPT !.at = "find", !.todo = p.services]
    OBVIOUS
  <2>2. CallBecomes(s, "main", c1)
    BY <1>5, <2>1, StopLoopCall DEF p, m, a
  <2>3. /\ th'[s]["main"] = c1 /\ th'[s]["app"] = a
        /\ \A u \in Servers, t \in Threads : u # s => th'[u][t] = th[u][t]
    BY <2>2, OneMain DEF m, a
  <2>4. PICK p1 : p1 = p
    OBVIOUS
  <2>5. srv'[s] = p1 /\ OnlyServer(s)
    BY <1>5, <2>4 DEF StopLoop, OnlyServer, p
  <2>6. Orderly(s, p1, c1, a)
    <3>1. m.at = "join"
      BY <1>5 DEF StopLoop, CanCall, Apart, MainIdle, AppIdle, p, m, a, Main, App
    <3> QED
      BY <1>1, <3>1, <2>1, <2>4, StopLoopOrderly
  <2>7. sessions' = sessions /\ (p1.up => p.up /\ p1.registry = p.registry)
    BY <1>1, <1>5, <2>4 DEF StopLoop, zk, Processes
  <2> QED
    BY <2>3, <2>5, <2>6, <2>7, QuietSane DEF p
<1>6. ASSUME HeartbeatEnds(s)
      PROVE  Sane'
  <2>1. PICK p1 : p1 = [p EXCEPT !.heartbeat = "off"]
    OBVIOUS
  <2>2. srv'[s] = p1 /\ OnlyServer(s)
    BY <1>6, <2>1, HeartbeatEndsServer DEF ServerBecomes, Types, p
  <2>3. Orderly(s, p1, m, a)
    BY <1>1, <2>1, HeartbeatEndsOrderly
  <2>4. th' = th /\ sessions' = sessions /\ p1.up = p.up /\ p1.registry = p.registry
    BY <1>1, <1>6, <2>1 DEF HeartbeatEnds, zk, Processes
  <2> QED
    BY <2>2, <2>3, <2>4, QuietSane DEF p, m, a, Main, App
<1>7. ASSUME RegisterTest(s)
      PROVE  Sane'
  <2>1. PICK c1 : c1 = IF p.running /\ p.registry # NoSession
                       THEN [a EXCEPT !.at = "create"] ELSE Idle
    OBVIOUS
  <2>2. CallBecomes(s, "app", c1)
    BY <1>7, <2>1, RegisterTestCall DEF p, m, a
  <2>3. /\ th'[s]["app"] = c1 /\ th'[s]["main"] = m
        /\ \A u \in Servers, t \in Threads : u # s => th'[u][t] = th[u][t]
    BY <2>2, OneApp DEF m, a
  <2>4. PICK p1 : p1 = p
    OBVIOUS
  <2>5. srv'[s] = p1 /\ OnlyServer(s)
    BY <1>7, <2>4 DEF RegisterTest, OnlyServer, p
  <2>6. Orderly(s, p1, m, c1)
    <3>1. a.at = "test"
      BY <1>7 DEF RegisterTest, CanCall, Apart, MainIdle, AppIdle, p, m, a, Main, App
    <3> QED
      BY <1>1, <3>1, <2>1, <2>4, RegisterTestOrderly
  <2>7. sessions' = sessions /\ (p1.up => p.up /\ p1.registry = p.registry)
    BY <1>1, <1>7, <2>4 DEF RegisterTest, zk, Processes
  <2> QED
    BY <2>3, <2>5, <2>6, <2>7, QuietSane DEF p
<1>8. ASSUME Erase(s)
      PROVE  Sane'
  <2>1. PICK c1 : c1 = Idle
    OBVIOUS
  <2>2. CallBecomes(s, "app", c1)
    BY <1>8, <2>1, EraseCall DEF p, m, a
  <2>3. /\ th'[s]["app"] = c1 /\ th'[s]["main"] = m
        /\ \A u \in Servers, t \in Threads : u # s => th'[u][t] = th[u][t]
    BY <2>2, OneApp DEF m, a
  <2>4. PICK p1 : p1 = [p EXCEPT !.services = p.services \ a.todo]
    OBVIOUS
  <2>5. srv'[s] = p1 /\ OnlyServer(s)
    BY <1>8, <2>4, EraseServer DEF ServerBecomes, Types, p, a
  <2>6. Orderly(s, p1, m, c1)
    <3>1. a.at = "erase"
      BY <1>8 DEF Erase, CanCall, Apart, MainIdle, AppIdle, p, m, a, Main, App
    <3> QED
      BY <1>1, <3>1, <2>1, <2>4, EraseOrderly
  <2>7. sessions' = sessions /\ (p1.up => p.up /\ p1.registry = p.registry)
    BY <1>1, <1>8, <2>4 DEF Erase, zk, Processes
  <2> QED
    BY <2>3, <2>5, <2>6, <2>7, QuietSane DEF p
<1>9. ASSUME NEW t \in Threads, NEW svc \in th[s][t].todo, After(s, t, svc),
             th[s][t].at \in {"create", "find", "delete"}, UNCHANGED <<sessions, srv>>
      PROVE  Sane'
  <2>1. CallBecomes(s, t, Done(th[s][t], svc))
    BY <1>9, AfterEffect DEF Types
  <2>2. CASE t = "main"
    <3>1. /\ th'[s]["main"] = Done(m, svc) /\ th'[s]["app"] = a
          /\ \A u \in Servers, v \in Threads : u # s => th'[u][v] = th[u][v]
      BY <2>1, <2>2, OneMain DEF Main, m, a
    <3>2. Orderly(s, p, Done(m, svc), a)
      BY <1>1, <1>9, <2>2, DoneMainOrderly DEF m, Main
    <3> QED
      BY <1>9, <3>1, <3>2, QuietSane DEF OnlyServer, p
  <2>3. CASE t = "app"
    <3>1. /\ th'[s]["app"] = Done(a, svc) /\ th'[s]["main"] = m
          /\ \A u \in Servers, v \in Threads : u # s => th'[u][v] = th[u][v]
      BY <2>1, <2>3, OneApp DEF App, m, a
    <3>2. Orderly(s, p, m, Done(a, svc))
      BY <1>1, <1>9, <2>3, DoneAppOrderly DEF a, App
    <3> QED
      BY <1>9, <3>1, <3>2, QuietSane DEF OnlyServer, p
  <2> QED
    BY <2>2, <2>3 DEF Threads
<1>10. ASSUME NEW t \in Threads, th[s][t].at = "delete"
      PROVE  th[s][t].node.svc \in th[s][t].todo
  BY <1>1, <1>10 DEF Threads, Orderly, Deleting, m, a, Main, App
<1>11. ASSUME NEW t \in Threads, Delete(s, t)
       PROVE  Sane'
  BY <1>9, <1>10, <1>11 DEF Delete
<1>12. ASSUME NEW t \in Threads, NEW svc \in Services,
              Create(s, t, svc) \/ CreateFails(s, t, svc) \/ FindOrDeleteFails(s, t, svc)
       PROVE  Sane'
  BY <1>9, <1>10, <1>12 DEF Create, CreateFails, FindOrDeleteFails
<1>13. ASSUME NEW t \in Threads, NEW svc \in Services, Find(s, t, svc)
       PROVE  Sane'
  <2>1. /\ th[s][t].at = "find" /\ svc \in th[s][t].todo
        /\ UNCHANGED <<sessions, srv>>
    BY <1>13 DEF Find, zk
  <2>2. CASE After(s, t, svc)
    BY <1>9, <2>1, <2>2
  <2>3. CASE \E n \in nodes : /\ Matches(n, s, svc)
                             /\ th' = [th EXCEPT ![s][t].at = "delete", ![s][t].node = n]
    <3>1. PICK n \in nodes : /\ Matches(n, s, svc)
                             /\ th' = [th EXCEPT ![s][t].at = "delete", ![s][t].node = n]
      BY <2>3
    <3>2. CallBecomes(s, t, Found(th[s][t], n))
      BY <3>1, FindCall DEF Types
    <3>3. n.svc = svc /\ n.server = s
      BY <3>1, SameNameOwn DEF Matches
    <3>4. CASE t = "main"
      <4>1. /\ th'[s]["main"] = Found(m, n) /\ th'[s]["app"] = a
            /\ \A u \in Servers, v \in Threads : u # s => th'[u][v] = th[u][v]
        BY <3>2, <3>4, OneMain DEF Main, m, a
      <4>2. Orderly(s, p, Found(m, n), a)
        BY <1>1, <2>1, <3>3, <3>4, FoundMainOrderly DEF m, Main
      <4> QED
        BY <2>1, <4>1, <4>2, QuietSane DEF OnlyServer, p
    <3>5. CASE t = "app"
      <4>1. /\ th'[s]["app"] = Found(a, n) /\ th'[s]["main"] = m
            /\ \A u \in Servers, v \in Threads : u # s => th'[u][v] = th[u][v]
        BY <3>2, <3>5, OneApp DEF App, m, a
      <4>2. Orderly(s, p, m, Found(a, n))
        BY <1>1, <2>1, <3>3, <3>5, FoundAppOrderly DEF a, App
      <4> QED
        BY <2>1, <4>1, <4>2, QuietSane DEF OnlyServer, p
    <3> QED
      BY <3>4, <3>5 DEF Threads
  <2> QED
    BY <1>13, <2>2, <2>3 DEF Find
<1> QED
  BY <1>2, <1>3, <1>4, <1>5, <1>6, <1>7, <1>8, <1>11, <1>12, <1>13 DEF Run

LEMMA OtherSane ==
    ASSUME Apart, Types, Sane,
           \/ \E s \in Servers : Crash(s) \/ \E S \in SUBSET Services : Boot(s, S)
           \/ ZooKeeper \/ Client \/ UNCHANGED vars
    PROVE  Sane'
<1>1. ASSUME NEW s \in Servers, Crash(s)
      PROVE  Sane'
  <2>1. PICK p1 : p1 = [Process({}) EXCEPT !.up = FALSE]
    OBVIOUS
  <2>2. srv'[s] = p1 /\ OnlyServer(s) /\ sessions' = sessions
    BY <1>1, <2>1, CrashServer DEF ServerBecomes, Types, Crash, zk
  <2>3. /\ th'[s]["main"] = Idle /\ th'[s]["app"] = Idle
        /\ \A u \in Servers, t \in Threads : u # s => th'[u][t] = th[u][t]
    BY <1>1, CrashThreads DEF Types, Threads
  <2>4. Orderly(s, p1, Idle, Idle)
    BY <2>1 DEF Process, Orderly, MainCall, AppCall, Deleting, Living, Idle
  <2>5. ~p1.up
    BY <2>1 DEF Process
  <2> QED
    BY <2>2, <2>3, <2>4, <2>5, ServerSane
<1>2. ASSUME NEW s \in Servers, NEW S \in SUBSET Services, Boot(s, S)
      PROVE  Sane'
  <2>1. Main(s) = Idle /\ App(s) = Idle
    BY <1>2 DEF Boot, Sane, Orderly, Living
  <2>2. srv'[s] = Process(S) /\ OnlyServer(s)
    BY <1>2, BootServer DEF ServerBecomes, Types
  <2>3. sessions' = sessions /\ th' = th /\ OfServer(s) = {}
    BY <1>2 DEF Boot, zk, Apart
  <2>4. Orderly(s, Process(S), Idle, Idle)
    BY DEF Process, Orderly, MainCall, AppCall, Deleting, Living, Idle
  <2>5. Orderly(s, srv'[s], th'[s]["main"], th'[s]["app"])
    BY <2>1, <2>2, <2>3, <2>4 DEF Main, App
  <2>6. \A ss \in sessions' : ss[1] # s
    BY <2>3 DEF OfServer
  <2> QED
    BY <2>2, <2>3, <2>5, <2>6, ServerSane
<1>3. ASSUME NEW s \in Servers, ConnectionWatcher(s)
      PROVE  Sane'
  <2>1. PICK p1 : p1 = [srv[s] EXCEPT !.connected = ~srv[s].connected]
    OBVIOUS
  <2>2. srv'[s] = p1 /\ OnlyServer(s)
    BY <1>3, <2>1, WatcherServer DEF ServerBecomes, Types
  <2>3. /\ srv[s] \in Processes /\ IsCall(Main(s)) /\ IsCall(App(s))
        /\ Orderly(s, srv[s], Main(s), App(s))
    BY Known
  <2>4. (~srv[s].connected) \in BOOLEAN
    OBVIOUS
  <2>5. Orderly(s, p1, Main(s), App(s))
    BY <2>1, <2>3, <2>4, WatcherOrderly
  <2>6. th' = th /\ sessions' = sessions /\ p1.up = srv[s].up /\ p1.registry = srv[s].registry
    BY <1>3, <2>1, <2>3 DEF ConnectionWatcher, zk, Processes
  <2> QED
    BY <2>2, <2>5, <2>6, QuietSane DEF Main, App
<1>4. ASSUME UNCHANGED <<srv, th>>, sessions' \subseteq sessions
      PROVE  Sane'
  BY <1>4 DEF Sane, Main, App, OneSession, OfServer
<1>5. ASSUME NEW ss \in sessions, Expire(ss)
      PROVE  Sane'
  BY <1>4, <1>5 DEF Expire
<1>6. ASSUME Client \/ UNCHANGED vars
      PROVE  Sane'
  BY <1>4, <1>6 DEF Client, Discover, Get, DiscoverReturns, vars, zk
<1> QED
  BY <1>1, <1>2, <1>3, <1>5, <1>6 DEF ZooKeeper

(* Nodes come from Create alone, and are then their server's. *)
LEMMA NodesFrom ==
    ASSUME [Next]_vars, NEW n \in nodes', n \notin nodes
    PROVE  \E s \in Servers, svc \in Services, t \in Threads :
              /\ n = Node(s, svc) /\ Usable(s) /\ srv' = srv
              /\ Create(s, t, svc) \/ CreateFails(s, t, svc)
<1>1. CASE \E s \in Servers : Run(s)
  <2>1. PICK s \in Servers : Run(s)
    BY <1>1
  <2>2. nodes' \subseteq nodes \/ \E t \in Threads, svc \in Services :
                                     Create(s, t, svc) \/ CreateFails(s, t, svc)
    BY <2>1 DEF Run, Connect, StartLoop, HeartbeatStarts, StopLoop, HeartbeatEnds, RegisterTest,
       Erase, Delete, Find, FindOrDeleteFails, zk
  <2> QED
    BY <2>2 DEF Create, CreateFails
<1>2. CASE \E s \in Servers : CallOf(s)
  BY <1>2 DEF CallOf, StartCall, StopCall, RegisterCall, UnregisterCall, zk
<1>3. CASE \/ \E s \in Servers : Crash(s) \/ \E S \in SUBSET Services : Boot(s, S)
           \/ ZooKeeper \/ Client \/ UNCHANGED vars
  BY <1>3 DEF Crash, Boot, ZooKeeper, Expire, ConnectionWatcher, Client, Discover, Get,
     DiscoverReturns, vars, zk
<1> QED
  BY <1>1, <1>2, <1>3 DEF Next, Step

LEMMA OwnedStep ==
    ASSUME Types, Sane, Owned, [Next]_vars
    PROVE  Owned'
<1> SUFFICES ASSUME NEW n \in nodes'
             PROVE  n # NoNode /\ n.id = Id(n.server) /\ n.session[1] = n.server
  BY DEF Owned, Id
<1>1. CASE n \in nodes
  BY <1>1 DEF Owned
<1>2. CASE n \notin nodes
  <2>1. PICK s \in Servers, svc \in Services : n = Node(s, svc) /\ Usable(s)
    BY <1>2, NodesFrom
  <2>2. n.server = s /\ n.id = Id(s) /\ n.session = srv[s].registry /\ n # NoNode
    BY <2>1, NodeTyped
  <2>3. srv[s].registry # NoSession
    BY <2>1 DEF Types, ServersTyped, Usable
  <2>4. srv[s].registry[1] = s
    BY <2>3 DEF Sane, Orderly, Living
  <2> QED
    BY <2>2, <2>4
<1> QED
  BY <1>1, <1>2

-----------------------------------------------------------------------------
(* What the steps do to the list of a server's services that are listed *)

LEMMA StartLoopListed ==
    ASSUME NEW s \in Servers, NEW p \in Processes, NEW m, NEW a, IsCall(m), IsCall(a),
           Orderly(s, p, m, a), m.at = "lock"
    PROVE  Listed(p, [m EXCEPT !.at = IF p.services = {} THEN "heartbeat" ELSE "create",
                              !.todo = p.services], a) = Listed(p, m, a)
BY DEF Listed, Orderly, MainCall, AppCall, Deleting, Living, Processes, IsCall, Idle

LEMMA HeartbeatStartsListed ==
    ASSUME NEW s \in Servers, NEW p \in Processes, NEW m, NEW a, IsCall(m), IsCall(a),
           Orderly(s, p, m, a), m.at = "heartbeat"
    PROVE  Listed([p EXCEPT !.heartbeat = "on"], Idle, a) = Listed(p, m, a)
BY DEF Listed, Orderly, MainCall, AppCall, Deleting, Living, Processes, IsCall, Idle

LEMMA HeartbeatEndsListed ==
    ASSUME NEW s \in Servers, NEW p \in Processes, NEW m, NEW a, IsCall(m), IsCall(a),
           Orderly(s, p, m, a), NEW h
    PROVE  Listed([p EXCEPT !.heartbeat = h], m, a) = Listed(p, m, a)
BY DEF Listed, Orderly, MainCall, AppCall, Deleting, Living, Processes, IsCall, Idle

LEMMA StopLoopListed ==
    ASSUME NEW s \in Servers, NEW p \in Processes, NEW m, NEW a, IsCall(m), IsCall(a),
           Orderly(s, p, m, a), m.at = "join"
    PROVE  Listed(p, IF p.services = {} THEN Idle
                     ELSE [m EXCEPT !.at = "find", !.todo = p.services], a) = Listed(p, m, a)
BY DEF Listed, Orderly, MainCall, AppCall, Deleting, Living, Processes, IsCall, Idle

LEMMA RegisterTestListed ==
    ASSUME NEW s \in Servers, NEW p \in Processes, NEW m, NEW a, IsCall(m), IsCall(a),
           Orderly(s, p, m, a), a.at = "test"
    PROVE  Listed(p, m, IF p.running /\ p.registry # NoSession
                        THEN [a EXCEPT !.at = "create"] ELSE Idle) = Listed(p, m, a)
BY DEF Listed, Orderly, MainCall, AppCall, Deleting, Living, Processes, IsCall, Idle

LEMMA EraseListed ==
    ASSUME NEW s \in Servers, NEW p \in Processes, NEW m, NEW a, IsCall(m), IsCall(a),
           Orderly(s, p, m, a), a.at = "erase"
    PROVE  Listed([p EXCEPT !.services = p.services \ a.todo], m, Idle) = Listed(p, m, a)
BY DEF Listed, Orderly, MainCall, AppCall, Deleting, Living, Processes, IsCall, Idle

LEMMA FoundMainListed ==
    ASSUME NEW s \in Servers, NEW p \in Processes, NEW m, NEW a, IsCall(m), IsCall(a),
           Orderly(s, p, m, a), m.at = "find", NEW n
    PROVE  Listed(p, Found(m, n), a) = Listed(p, m, a)
BY DEF Listed, Orderly, MainCall, AppCall, Deleting, Living, Processes, IsCall, Idle, Found

LEMMA FoundAppListed ==
    ASSUME NEW s \in Servers, NEW p \in Processes, NEW m, NEW a, IsCall(m), IsCall(a),
           Orderly(s, p, m, a), a.at = "find", NEW n
    PROVE  Listed(p, m, Found(a, n)) = Listed(p, m, a)
BY DEF Listed, Orderly, MainCall, AppCall, Deleting, Living, Processes, IsCall, Idle, Found

LEMMA CreateMainListed ==
    ASSUME NEW s \in Servers, NEW p \in Processes, NEW m, NEW a, IsCall(m), IsCall(a),
           Orderly(s, p, m, a), m.at = "create", NEW svc \in m.todo
    PROVE  /\ svc \notin Listed(p, m, a)
           /\ Listed(p, Done(m, svc), a) = Listed(p, m, a) \cup {svc}
BY DEF Listed, Orderly, MainCall, AppCall, Deleting, Living, Processes, IsCall, Idle, Done, First

LEMMA CreateAppListed ==
    ASSUME NEW s \in Servers, NEW p \in Processes, NEW m, NEW a, IsCall(m), IsCall(a),
           Orderly(s, p, m, a), a.at = "create", NEW svc \in a.todo
    PROVE  /\ svc \notin Listed(p, m, a)
           /\ Listed(p, m, Done(a, svc)) = Listed(p, m, a) \cup {svc}
BY DEF Listed, Orderly, MainCall, AppCall, Deleting, Living, Processes, IsCall, Idle, Done, First

LEMMA DropMainListed ==
    ASSUME NEW s \in Servers, NEW p \in Processes, NEW m, NEW a, IsCall(m), IsCall(a),
           Orderly(s, p, m, a), m.at \in {"find", "delete"}, NEW svc \in m.todo
    PROVE  Listed(p, Done(m, svc), a) = Listed(p, m, a) \ {svc}
BY DEF Listed, Orderly, MainCall, AppCall, Deleting, Living, Processes, IsCall, Idle, Done, First

LEMMA DropAppListed ==
    ASSUME NEW s \in Servers, NEW p \in Processes, NEW m, NEW a, IsCall(m), IsCall(a),
           Orderly(s, p, m, a), a.at \in {"find", "delete"}, NEW svc \in a.todo
    PROVE  Listed(p, m, Done(a, svc)) = Listed(p, m, a) \ {svc}
BY DEF Listed, Orderly, MainCall, AppCall, Deleting, Living, Processes, IsCall, Idle, Done, First

-----------------------------------------------------------------------------
(* A step of one server leaves the others and their nodes *)

Others(s) ==
    /\ OnlyServer(s)
    /\ \A u \in Servers, t \in Threads : u # s => th'[u][t] = th[u][t]
    /\ \A u \in Servers : u # s => disturbed'[u] = disturbed[u]
    /\ \A n : n.server # s => (n \in nodes <=> n \in nodes')

LEMMA AfterOnly ==
    ASSUME Types, NEW s \in Servers, NEW t \in Threads, NEW svc, After(s, t, svc)
    PROVE  \A u \in Servers, v \in Threads : u # s => th'[u][v] = th[u][v]
BY AfterEffect DEF Types, CallBecomes, OnlyCall

LEMMA CallOnly ==
    ASSUME NEW s \in Servers, NEW t \in Threads, \E c : CallBecomes(s, t, c)
    PROVE  \A u \in Servers, v \in Threads : u # s => th'[u][v] = th[u][v]
BY DEF CallBecomes, OnlyCall

LEMMA ServerOnly ==
    ASSUME NEW s \in Servers, \E p : ServerBecomes(s, p)
    PROVE  OnlyServer(s)
BY DEF ServerBecomes

LEMMA RunOnly ==
    ASSUME Types, NEW s \in Servers, Run(s)
    PROVE  /\ OnlyServer(s)
           /\ \A u \in Servers, t \in Threads : u # s => th'[u][t] = th[u][t]
<1>1. ASSUME NEW c \in BOOLEAN, Connect(s, c)
      PROVE  /\ OnlyServer(s)
             /\ \A u \in Servers, t \in Threads : u # s => th'[u][t] = th[u][t]
  <2>1. \E p : ServerBecomes(s, p)
    BY <1>1, ConnectServer DEF Types
  <2>2. \E x : CallBecomes(s, "main", x)
    BY <1>1, ConnectCall
  <2> QED
    BY <2>1, <2>2, ServerOnly, CallOnly DEF Threads
<1>2. ASSUME StartLoop(s) \/ StopLoop(s) \/ RegisterTest(s)
      PROVE  /\ OnlyServer(s)
             /\ \A u \in Servers, t \in Threads : u # s => th'[u][t] = th[u][t]
  <2>1. OnlyServer(s)
    BY <1>2 DEF StartLoop, StopLoop, RegisterTest, OnlyServer
  <2> QED
    BY <1>2, <2>1, StartLoopCall, StopLoopCall, RegisterTestCall DEF CallBecomes, OnlyCall
<1>3. ASSUME HeartbeatStarts(s)
      PROVE  /\ OnlyServer(s)
             /\ \A u \in Servers, t \in Threads : u # s => th'[u][t] = th[u][t]
  BY <1>3, HeartbeatStartsServer, HeartbeatStartsCall
  DEF Types, ServerBecomes, CallBecomes, OnlyCall
<1>4. ASSUME HeartbeatEnds(s)
      PROVE  /\ OnlyServer(s)
             /\ \A u \in Servers, t \in Threads : u # s => th'[u][t] = th[u][t]
  BY <1>4, HeartbeatEndsServer DEF Types, ServerBecomes, HeartbeatEnds
<1>5. ASSUME Erase(s)
      PROVE  /\ OnlyServer(s)
             /\ \A u \in Servers, t \in Threads : u # s => th'[u][t] = th[u][t]
  BY <1>5, EraseServer, EraseCall DEF Types, ServerBecomes, CallBecomes, OnlyCall
<1>6. ASSUME NEW t \in Threads, NEW svc, After(s, t, svc), srv' = srv
      PROVE  /\ OnlyServer(s)
             /\ \A u \in Servers, v \in Threads : u # s => th'[u][v] = th[u][v]
  BY <1>6, AfterOnly DEF OnlyServer
<1>7. ASSUME NEW t \in Threads, NEW svc \in Services, Find(s, t, svc)
      PROVE  /\ OnlyServer(s)
             /\ \A u \in Servers, v \in Threads : u # s => th'[u][v] = th[u][v]
  <2>1. srv' = srv
    BY <1>7 DEF Find
  <2>2. CASE After(s, t, svc)
    BY <1>6, <2>1, <2>2
  <2>3. CASE \E n \in nodes : th' = [th EXCEPT ![s][t].at = "delete", ![s][t].node = n]
    <3>1. \E x : CallBecomes(s, t, x)
      BY <2>3, FindCall DEF Types
    <3> QED
      BY <2>1, <3>1, CallOnly DEF OnlyServer
  <2> QED
    BY <1>7, <2>2, <2>3 DEF Find
<1>8. ASSUME NEW t \in Threads, NEW svc \in Services,
             \/ Delete(s, t) \/ Create(s, t, svc) \/ CreateFails(s, t, svc)
             \/ FindOrDeleteFails(s, t, svc)
      PROVE  srv' = srv /\ \E x : After(s, t, x)
  BY <1>8 DEF Delete, Create, CreateFails, FindOrDeleteFails
<1>9. ASSUME NEW t \in Threads, Delete(s, t)
      PROVE  srv' = srv /\ \E x : After(s, t, x)
  BY <1>9 DEF Delete
<1> QED
  BY <1>1, <1>2, <1>3, <1>4, <1>5, <1>6, <1>7, <1>8, <1>9 DEF Run

LEMMA RunOthers ==
    ASSUME Apart, Types, Sane, Owned, NEW s \in Servers, Run(s)
    PROVE  Others(s)
<1>1. \A u \in Servers : u # s => disturbed'[u] = disturbed[u]
  <2>1. disturbed' = disturbed \/ \E x : disturbed' = [disturbed EXCEPT ![s] = x]
    BY DEF Run, Connect, StartLoop, HeartbeatStarts, StopLoop, HeartbeatEnds, RegisterTest, Erase,
       Delete, Create, CreateFails, Find, FindOrDeleteFails
  <2> QED
    BY <2>1 DEF Types, ZooKeeperTyped
<1>2. ASSUME NEW n, n.server # s
      PROVE  n \in nodes <=> n \in nodes'
  <2>1. ASSUME NEW c \in BOOLEAN, Connect(s, c)
        PROVE  n \in nodes <=> n \in nodes'
    <3>1. n \in nodes => n.session \in Names /\ n.session[1] # s
      BY <1>2 DEF Types, ZooKeeperTyped, Owned
    <3>2. srv[s].registry # NoSession => srv[s].registry[1] = s
      BY DEF Sane, Orderly, Living
    <3>3. n \in nodes => n.session # srv[s].registry
      BY <3>1, <3>2 DEF NoSession, Names
    <3> QED
      BY <2>1, <3>3 DEF Connect
  <2>2. ASSUME NEW t \in Threads, NEW svc \in Services,
               Create(s, t, svc) \/ CreateFails(s, t, svc)
        PROVE  n \in nodes <=> n \in nodes'
    BY <1>2, <2>2, NodeTyped DEF Create, CreateFails
  <2>3. ASSUME NEW t \in Threads, th[s][t].at = "delete"
        PROVE  th[s][t].node.server = s
    BY <2>3 DEF Threads, Sane, Orderly, Deleting, Main, App
  <2>4. ASSUME NEW t \in Threads, th[s][t].at = "find"
        PROVE  th[s][t].node = NoNode
    BY <2>4 DEF Threads, Sane, Orderly, Deleting, Main, App
  <2>5. ASSUME NEW t \in Threads, Delete(s, t)
        PROVE  n \in nodes <=> n \in nodes'
    BY <1>2, <2>3, <2>5 DEF Delete
  <2>6. ASSUME NEW t \in Threads, NEW svc \in Services, FindOrDeleteFails(s, t, svc)
        PROVE  n \in nodes <=> n \in nodes'
    BY <1>2, <2>3, <2>4, <2>6 DEF FindOrDeleteFails, Owned
  <2>7. nodes' = nodes \/ (\E c \in BOOLEAN : Connect(s, c))
            \/ \E t \in Threads : \/ Delete(s, t)
                                  \/ \E svc \in Services :
                                        \/ Create(s, t, svc) \/ CreateFails(s, t, svc)
                                        \/ FindOrDeleteFails(s, t, svc)
    BY DEF Run, StartLoop, HeartbeatStarts, StopLoop, HeartbeatEnds, RegisterTest, Erase, Find, zk
  <2> QED
    BY <2>1, <2>2, <2>5, <2>6, <2>7
<1> QED
  BY <1>1, <1>2, RunOnly DEF Others

LEMMA CallOfOthers ==
    ASSUME Types, NEW s \in Servers, CallOf(s)
    PROVE  Others(s)
<1>1. disturbed' = disturbed /\ nodes' = nodes
  BY DEF CallOf, StartCall, StopCall, RegisterCall, UnregisterCall, zk
<1>2. /\ OnlyServer(s)
      /\ \A u \in Servers, t \in Threads : u # s => th'[u][t] = th[u][t]
  <2>1. ASSUME StartCall(s)
        PROVE  /\ OnlyServer(s)
               /\ \A u \in Servers, t \in Threads : u # s => th'[u][t] = th[u][t]
    <3>1. \E p : ServerBecomes(s, p)
      BY <2>1, StartCallServer DEF Types
    <3>2. \E x : CallBecomes(s, "main", x)
      BY <2>1, StartCallCall
    <3> QED
      BY <3>1, <3>2, ServerOnly, CallOnly DEF Threads
  <2>2. ASSUME StopCall(s)
        PROVE  /\ OnlyServer(s)
               /\ \A u \in Servers, t \in Threads : u # s => th'[u][t] = th[u][t]
    <3>1. \E p : ServerBecomes(s, p)
      BY <2>2, StopCallServer DEF Types
    <3>2. \E x : CallBecomes(s, "main", x)
      BY <2>2, StopCallCall
    <3> QED
      BY <3>1, <3>2, ServerOnly, CallOnly DEF Threads
  <2>3. ASSUME NEW svc \in Services, RegisterCall(s, svc)
        PROVE  /\ OnlyServer(s)
               /\ \A u \in Servers, t \in Threads : u # s => th'[u][t] = th[u][t]
    <3>1. \E p : ServerBecomes(s, p)
      BY <2>3, RegisterCallServer DEF Types
    <3>2. \E x : CallBecomes(s, "app", x)
      BY <2>3, RegisterCallCall
    <3> QED
      BY <3>1, <3>2, ServerOnly, CallOnly DEF Threads
  <2>4. ASSUME NEW svc \in Services, UnregisterCall(s, svc)
        PROVE  /\ OnlyServer(s)
               /\ \A u \in Servers, t \in Threads : u # s => th'[u][t] = th[u][t]
    BY <2>4, UnregisterCallCall DEF UnregisterCall, OnlyServer, CallBecomes, OnlyCall
  <2> QED
    BY <2>1, <2>2, <2>3, <2>4 DEF CallOf
<1> QED
  BY <1>1, <1>2 DEF Others

-----------------------------------------------------------------------------
(* What is listed *)

LEMMA OthersRegistered ==
    ASSUME Sane, NEW s \in Servers, Others(s), NEW u \in Servers, u # s, Registered(u)
    PROVE  Registered(u)'
<1>1. /\ srv'[u] = srv[u] /\ disturbed'[u] = disturbed[u]
      /\ \A t \in Threads : th'[u][t] = th[u][t]
  BY DEF Others, OnlyServer
<1>2. /\ Main(u)' = Main(u) /\ App(u)' = App(u)
      /\ Undisturbed(u)' <=> Undisturbed(u)
  BY <1>1 DEF Main, App, Threads, Undisturbed
<1>3. \A svc \in Services : Own(u, svc)' = Own(u, svc)
  BY DEF Own, Others
<1> SUFFICES ASSUME Undisturbed(u)
             PROVE  /\ Exactly(u, Listed(srv[u], Main(u), App(u)))'
                    /\ \A t \in Threads : th'[u][t].at = "delete" => th'[u][t].node \in nodes'
  BY <1>2 DEF Registered
<1>4. Exactly(u, Listed(srv[u], Main(u), App(u)))
  BY DEF Registered
<1>5. Listed(srv[u], Main(u), App(u))' = Listed(srv[u], Main(u), App(u))
  BY <1>1, <1>2 DEF Listed
<1>6. Exactly(u, Listed(srv[u], Main(u), App(u)))'
  <2>1. \A svc \in Services, n \in nodes : Own(u, svc) = {n} => n \in nodes'
    BY DEF Own, Others
  <2> QED
    BY <1>3, <1>4, <1>5, <2>1 DEF Exactly
<1>7. \A t \in Threads : th[u][t].at = "delete" => th[u][t].node \in nodes /\ th[u][t].node.server = u
  BY DEF Registered, Sane, Orderly, Deleting, Main, App, Threads
<1> QED
  BY <1>1, <1>6, <1>7 DEF Others

(* A step that leaves the nodes, and what is to be listed. *)
LEMMA QuietRegistered ==
    ASSUME NEW s \in Servers, Registered(s), nodes' = nodes,
           Undisturbed(s)' => Undisturbed(s),
           Listed(srv[s], Main(s), App(s))' = Listed(srv[s], Main(s), App(s)),
           \A t \in Threads : th'[s][t].at = "delete" =>
              \/ th'[s][t].node \in nodes
              \/ th[s][t].at = "delete" /\ th'[s][t].node = th[s][t].node
    PROVE  Registered(s)'
<1>1. Own(s, 0)' = Own(s, 0) /\ \A svc : Own(s, svc)' = Own(s, svc)
  BY DEF Own
<1> QED
  BY <1>1 DEF Registered, Exactly

LEMMA DoneNotDelete ==
    ASSUME NEW c, NEW svc
    PROVE  Done(c, svc).at # "delete"
BY DEF Done, First, Idle

LEMMA CallOfRegistered ==
    ASSUME Apart, Types, Sane, NEW s \in Servers, Registered(s), CallOf(s)
    PROVE  Registered(s)'
<1> DEFINE p == srv[s]
           m == Main(s)
           a == App(s)
<1>1. p \in Processes /\ IsCall(m) /\ IsCall(a) /\ Orderly(s, p, m, a)
  BY Known
<1> HIDE DEF p, m, a
<1>2. ASSUME StartCall(s)
      PROVE  Registered(s)'
  <2>1. th'[s]["main"] = [Idle EXCEPT !.op = "start", !.at = "connect"]
    BY <1>2, StartCallCall, OneMain
  <2>2. th'[s]["main"].at = "connect"
    BY <2>1 DEF Idle
  <2> QED
    BY <2>2 DEF Registered, Undisturbed, Main
<1>3. ASSUME StopCall(s)
      PROVE  Registered(s)'
  <2>1. PICK c1 : c1 = [Idle EXCEPT !.op = "stop", !.at = "join"]
    OBVIOUS
  <2>2. CallBecomes(s, "main", c1)
    BY <1>3, <2>1, StopCallCall DEF p, m, a
  <2>3. th'[s]["main"] = c1 /\ th'[s]["app"] = a
    BY <2>2, OneMain DEF m, a
  <2>4. PICK p1 : p1 = [p EXCEPT !.running = FALSE, !.heartbeat = HeartbeatTold(s)]
    OBVIOUS
  <2>5. srv'[s] = p1
    BY <1>3, <2>4, StopCallServer DEF ServerBecomes, Types, p, a
  <2>6. p.running /\ m = Idle /\ a = Idle
    BY <1>3 DEF StopCall, CanCall, Apart, MainIdle, AppIdle, p, m, a, Main, App
  <2>7. Listed(p1, c1, a) = Listed(p, m, a)
    BY <1>1, <2>1, <2>4, <2>6
    DEF Listed, Orderly, MainCall, AppCall, Living, Processes, IsCall, Idle
  <2>8. c1.at # "delete"
    BY <1>1, <2>1 DEF Idle, IsCall, FirstUnregister
  <2>9. /\ nodes' = nodes /\ disturbed' = disturbed
         /\ p1.up = p.up /\ m.at # "connect"
    BY <1>1, <1>3, <2>4, <2>6 DEF StopCall, zk, Processes, Orderly, MainCall, AppCall, Idle
  <2>10. Undisturbed(s)' => Undisturbed(s)
    BY <2>5, <2>9 DEF Undisturbed, p, m
  <2>11. Listed(srv[s], Main(s), App(s))' = Listed(srv[s], Main(s), App(s))
    BY <2>3, <2>5, <2>7 DEF p, m, a, Main, App
  <2> QED
    BY <2>3, <2>8, <2>9, <2>10, <2>11, QuietRegistered DEF m, a, Main, App, Threads
<1>4. ASSUME NEW svc \in Services, RegisterCall(s, svc)
      PROVE  Registered(s)'
  <2>1. PICK c1 : c1 = [Idle EXCEPT !.op = "register", !.at = "test", !.todo = {svc}]
    OBVIOUS
  <2>2. CallBecomes(s, "app", c1)
    BY <1>4, <2>1, RegisterCallCall DEF p, m, a
  <2>3. th'[s]["app"] = c1 /\ th'[s]["main"] = m
    BY <2>2, OneApp DEF m, a
  <2>4. PICK p1 : p1 = [p EXCEPT !.services = p.services \cup {svc}]
    OBVIOUS
  <2>5. srv'[s] = p1
    BY <1>4, <2>4, RegisterCallServer DEF ServerBecomes, Types, p, a
  <2>6. m = Idle /\ a = Idle /\ svc \notin p.services
    BY <1>4 DEF RegisterCall, CanCall, Apart, MainIdle, AppIdle, p, m, a, Main, App
  <2>7. Listed(p1, m, c1) = Listed(p, m, a)
    BY <1>1, <2>1, <2>4, <2>6
    DEF Listed, Orderly, MainCall, AppCall, Living, Processes, IsCall, Idle
  <2>8. c1.at # "delete"
    BY <1>1, <2>1 DEF Idle, IsCall, FirstUnregister
  <2>9. /\ nodes' = nodes /\ disturbed' = disturbed
         /\ p1.up = p.up /\ m.at # "connect"
    BY <1>1, <1>4, <2>4, <2>6 DEF RegisterCall, zk, Processes, Orderly, MainCall, AppCall, Idle
  <2>10. Undisturbed(s)' => Undisturbed(s)
    BY <2>5, <2>9 DEF Undisturbed, p, m
  <2>11. Listed(srv[s], Main(s), App(s))' = Listed(srv[s], Main(s), App(s))
    BY <2>3, <2>5, <2>7 DEF p, m, a, Main, App
  <2> QED
    BY <2>3, <2>8, <2>9, <2>10, <2>11, QuietRegistered DEF m, a, Main, App, Threads
<1>5. ASSUME NEW svc \in Services, UnregisterCall(s, svc)
      PROVE  Registered(s)'
  <2>1. PICK c1 : c1 = [Idle EXCEPT !.op = "unregister", !.at = FirstUnregister(s), !.todo = {svc}]
    OBVIOUS
  <2>2. CallBecomes(s, "app", c1)
    BY <1>5, <2>1, UnregisterCallCall DEF p, m, a
  <2>3. th'[s]["app"] = c1 /\ th'[s]["main"] = m
    BY <2>2, OneApp DEF m, a
  <2>4. PICK p1 : p1 = p
    OBVIOUS
  <2>5. srv'[s] = p1
    BY <1>5, <2>4 DEF UnregisterCall, p
  <2>6. m = Idle /\ a = Idle /\ svc \in p.services
    BY <1>5 DEF UnregisterCall, CanCall, Apart, MainIdle, AppIdle, p, m, a, Main, App
  <2>7. /\ FirstUnregister(s) \in {"find", "erase"}
        /\ FirstUnregister(s) = "erase" => p.registry = NoSession
    BY DEF FirstUnregister, p
  <2>8. Listed(p1, m, c1) = Listed(p, m, a)
    BY <1>1, <2>1, <2>4, <2>6, <2>7
    DEF Listed, Orderly, MainCall, AppCall, Living, Processes, IsCall, Idle
  <2>9. c1.at # "delete"
    BY <1>1, <2>1 DEF Idle, IsCall, FirstUnregister
  <2>10. /\ nodes' = nodes /\ disturbed' = disturbed
         /\ p1.up = p.up /\ m.at # "connect"
    BY <1>1, <1>5, <2>4, <2>6 DEF UnregisterCall, zk, Processes, Orderly, MainCall, AppCall, Idle
  <2>11. Undisturbed(s)' => Undisturbed(s)
    BY <2>5, <2>10 DEF Undisturbed, p, m
  <2>12. Listed(srv[s], Main(s), App(s))' = Listed(srv[s], Main(s), App(s))
    BY <2>3, <2>5, <2>8 DEF p, m, a, Main, App
  <2> QED
    BY <2>3, <2>9, <2>10, <2>11, <2>12, QuietRegistered DEF m, a, Main, App, Threads
<1> QED
  BY <1>2, <1>3, <1>4, <1>5 DEF CallOf

(* The steps of the calls that leave the nodes. *)
LEMMA RunQuietRegistered ==
    ASSUME Apart, Types, Sane, NEW s \in Servers, Registered(s),
           \/ StartLoop(s) \/ HeartbeatStarts(s) \/ HeartbeatEnds(s) \/ StopLoop(s)
           \/ RegisterTest(s) \/ Erase(s)
    PROVE  Registered(s)'
<1> DEFINE p == srv[s]
           m == Main(s)
           a == App(s)
<1>1. p \in Processes /\ IsCall(m) /\ IsCall(a) /\ Orderly(s, p, m, a)
  BY Known
<1> HIDE DEF p, m, a
<1>2. ASSUME StartLoop(s)
      PROVE  Registered(s)'
  <2>1. PICK c1 : c1 = [m EXCEPT !.at = IF p.services = {} THEN "heartbeat" ELSE "create",
                           !.todo = p.services]
    OBVIOUS
  <2>2. CallBecomes(s, "main", c1)
    BY <1>2, <2>1, StartLoopCall DEF p, m, a
  <2>3. th'[s]["main"] = c1 /\ th'[s]["app"] = a
    BY <2>2, OneMain DEF m, a
  <2>4. PICK p1 : p1 = p
    OBVIOUS
  <2>5. srv'[s] = p1
    BY <1>2, <2>4 DEF StartLoop, p
  <2>6. m.at = "lock"
    BY <1>2 DEF StartLoop, CanCall, Apart, MainIdle, AppIdle, p, m, a, Main, App
  <2>7. Listed(p1, c1, a) = Listed(p, m, a)
    BY <1>1, <2>1, <2>4, <2>6, StartLoopListed
  <2>8. c1.at # "delete"
    BY <1>1, <2>1 DEF Idle, IsCall, FirstUnregister
  <2>9. /\ nodes' = nodes /\ disturbed' = disturbed
         /\ p1.up = p.up /\ m.at # "connect"
    BY <1>1, <1>2, <2>4, <2>6 DEF StartLoop, zk, Processes, Orderly, MainCall, AppCall, Idle
  <2>10. Undisturbed(s)' => Undisturbed(s)
    BY <2>5, <2>9 DEF Undisturbed, p, m
  <2>11. Listed(srv[s], Main(s), App(s))' = Listed(srv[s], Main(s), App(s))
    BY <2>3, <2>5, <2>7 DEF p, m, a, Main, App
  <2> QED
    BY <2>3, <2>8, <2>9, <2>10, <2>11, QuietRegistered DEF m, a, Main, App, Threads
<1>3. ASSUME HeartbeatStarts(s)
      PROVE  Registered(s)'
  <2>1. PICK c1 : c1 = Idle
    OBVIOUS
  <2>2. CallBecomes(s, "main", c1)
    BY <1>3, <2>1, HeartbeatStartsCall DEF p, m, a
  <2>3. th'[s]["main"] = c1 /\ th'[s]["app"] = a
    BY <2>2, OneMain DEF m, a
  <2>4. PICK p1 : p1 = [p EXCEPT !.heartbeat = "on"]
    OBVIOUS
  <2>5. srv'[s] = p1
    BY <1>3, <2>4, HeartbeatStartsServer DEF ServerBecomes, Types, p, a
  <2>6. m.at = "heartbeat"
    BY <1>3 DEF HeartbeatStarts, CanCall, Apart, MainIdle, AppIdle, p, m, a, Main, App
  <2>7. Listed(p1, c1, a) = Listed(p, m, a)
    BY <1>1, <2>1, <2>4, <2>6, HeartbeatStartsListed
  <2>8. c1.at # "delete"
    BY <1>1, <2>1 DEF Idle, IsCall, FirstUnregister
  <2>9. /\ nodes' = nodes /\ disturbed' = disturbed
         /\ p1.up = p.up /\ m.at # "connect"
    BY <1>1, <1>3, <2>4, <2>6 DEF HeartbeatStarts, zk, Processes, Orderly, MainCall, AppCall, Idle
  <2>10. Undisturbed(s)' => Undisturbed(s)
    BY <2>5, <2>9 DEF Undisturbed, p, m
  <2>11. Listed(srv[s], Main(s), App(s))' = Listed(srv[s], Main(s), App(s))
    BY <2>3, <2>5, <2>7 DEF p, m, a, Main, App
  <2> QED
    BY <2>3, <2>8, <2>9, <2>10, <2>11, QuietRegistered DEF m, a, Main, App, Threads
<1>4. ASSUME HeartbeatEnds(s)
      PROVE  Registered(s)'
  <2>1. PICK p1 : p1 = [p EXCEPT !.heartbeat = "off"]
    OBVIOUS
  <2>2. srv'[s] = p1
    BY <1>4, <2>1, HeartbeatEndsServer DEF ServerBecomes, Types, p
  <2>3. Listed(p1, m, a) = Listed(p, m, a)
    BY <1>1, <2>1, HeartbeatEndsListed
  <2>4. nodes' = nodes /\ disturbed' = disturbed /\ th' = th /\ p1.up = p.up
    BY <1>1, <1>4, <2>1 DEF HeartbeatEnds, zk, Processes
  <2>5. Undisturbed(s)' => Undisturbed(s)
    BY <2>2, <2>4 DEF Undisturbed, p, Main
  <2>6. Listed(srv[s], Main(s), App(s))' = Listed(srv[s], Main(s), App(s))
    BY <2>2, <2>3, <2>4 DEF p, m, a, Main, App
  <2> QED
    BY <2>4, <2>5, <2>6, QuietRegistered
<1>5. ASSUME StopLoop(s)
      PROVE  Registered(s)'
  <2>1. PICK c1 : c1 = IF p.services = {} THEN Idle
                       ELSE [m EXCEPT !.at = "find", !.todo = p.services]
    OBVIOUS
  <2>2. CallBecomes(s, "main", c1)
    BY <1>5, <2>1, StopLoopCall DEF p, m, a
  <2>3. th'[s]["main"] = c1 /\ th'[s]["app"] = a
    BY <2>2, OneMain DEF m, a
  <2>4. PICK p1 : p1 = p
    OBVIOUS
  <2>5. srv'[s] = p1
    BY <1>5, <2>4 DEF StopLoop, p
  <2>6. m.at = "join"
    BY <1>5 DEF StopLoop, CanCall, Apart, MainIdle, AppIdle, p, m, a, Main, App
  <2>7. Listed(p1, c1, a) = Listed(p, m, a)
    BY <1>1, <2>1, <2>4, <2>6, StopLoopListed
  <2>8. c1.at # "delete"
    BY <1>1, <2>1 DEF Idle, IsCall, FirstUnregister
  <2>9. /\ nodes' = nodes /\ disturbed' = disturbed
         /\ p1.up = p.up /\ m.at # "connect"
    BY <1>1, <1>5, <2>4, <2>6 DEF StopLoop, zk, Processes, Orderly, MainCall, AppCall, Idle
  <2>10. Undisturbed(s)' => Undisturbed(s)
    BY <2>5, <2>9 DEF Undisturbed, p, m
  <2>11. Listed(srv[s], Main(s), App(s))' = Listed(srv[s], Main(s), App(s))
    BY <2>3, <2>5, <2>7 DEF p, m, a, Main, App
  <2> QED
    BY <2>3, <2>8, <2>9, <2>10, <2>11, QuietRegistered DEF m, a, Main, App, Threads
<1>6. ASSUME RegisterTest(s)
      PROVE  Registered(s)'
  <2>1. PICK c1 : c1 = IF p.running /\ p.registry # NoSession
                       THEN [a EXCEPT !.at = "create"] ELSE Idle
    OBVIOUS
  <2>2. CallBecomes(s, "app", c1)
    BY <1>6, <2>1, RegisterTestCall DEF p, m, a
  <2>3. th'[s]["app"] = c1 /\ th'[s]["main"] = m
    BY <2>2, OneApp DEF m, a
  <2>4. PICK p1 : p1 = p
    OBVIOUS
  <2>5. srv'[s] = p1
    BY <1>6, <2>4 DEF RegisterTest, p
  <2>6. a.at = "test"
    BY <1>6 DEF RegisterTest, CanCall, Apart, MainIdle, AppIdle, p, m, a, Main, App
  <2>7. Listed(p1, m, c1) = Listed(p, m, a)
    BY <1>1, <2>1, <2>4, <2>6, RegisterTestListed
  <2>8. c1.at # "delete"
    BY <1>1, <2>1 DEF Idle, IsCall, FirstUnregister
  <2>9. /\ nodes' = nodes /\ disturbed' = disturbed
         /\ p1.up = p.up /\ m.at # "connect"
    BY <1>1, <1>6, <2>4, <2>6 DEF RegisterTest, zk, Processes, Orderly, MainCall, AppCall, Idle
  <2>10. Undisturbed(s)' => Undisturbed(s)
    BY <2>5, <2>9 DEF Undisturbed, p, m
  <2>11. Listed(srv[s], Main(s), App(s))' = Listed(srv[s], Main(s), App(s))
    BY <2>3, <2>5, <2>7 DEF p, m, a, Main, App
  <2> QED
    BY <2>3, <2>8, <2>9, <2>10, <2>11, QuietRegistered DEF m, a, Main, App, Threads
<1>7. ASSUME Erase(s)
      PROVE  Registered(s)'
  <2>1. PICK c1 : c1 = Idle
    OBVIOUS
  <2>2. CallBecomes(s, "app", c1)
    BY <1>7, <2>1, EraseCall DEF p, m, a
  <2>3. th'[s]["app"] = c1 /\ th'[s]["main"] = m
    BY <2>2, OneApp DEF m, a
  <2>4. PICK p1 : p1 = [p EXCEPT !.services = p.services \ a.todo]
    OBVIOUS
  <2>5. srv'[s] = p1
    BY <1>7, <2>4, EraseServer DEF ServerBecomes, Types, p, a
  <2>6. a.at = "erase"
    BY <1>7 DEF Erase, CanCall, Apart, MainIdle, AppIdle, p, m, a, Main, App
  <2>7. Listed(p1, m, c1) = Listed(p, m, a)
    BY <1>1, <2>1, <2>4, <2>6, EraseListed
  <2>8. c1.at # "delete"
    BY <1>1, <2>1 DEF Idle, IsCall, FirstUnregister
  <2>9. /\ nodes' = nodes /\ disturbed' = disturbed
         /\ p1.up = p.up /\ m.at # "connect"
    BY <1>1, <1>7, <2>4, <2>6 DEF Erase, zk, Processes, Orderly, MainCall, AppCall, Idle
  <2>10. Undisturbed(s)' => Undisturbed(s)
    BY <2>5, <2>9 DEF Undisturbed, p, m
  <2>11. Listed(srv[s], Main(s), App(s))' = Listed(srv[s], Main(s), App(s))
    BY <2>3, <2>5, <2>7 DEF p, m, a, Main, App
  <2> QED
    BY <2>3, <2>8, <2>9, <2>10, <2>11, QuietRegistered DEF m, a, Main, App, Threads
<1> QED
  BY <1>2, <1>3, <1>4, <1>5, <1>6, <1>7

(* The step with which a thread is done with a service. *)
LEMMA DoneListed ==
    ASSUME Types, Sane, NEW s \in Servers, NEW t \in Threads, NEW svc \in th[s][t].todo,
           th[s][t].at \in {"create", "find", "delete"}, After(s, t, svc), srv' = srv
    PROVE  LET before == Listed(srv[s], Main(s), App(s))
               after == Listed(srv[s], Main(s), App(s))'
           IN  /\ th[s][t].at = "create" => svc \notin before /\ after = before \cup {svc}
               /\ th[s][t].at # "create" => after = before \ {svc}
               /\ \A v \in Threads : th'[s][v].at # "delete"
               /\ Main(s).at # "connect"
<1> DEFINE p == srv[s]
           m == Main(s)
           a == App(s)
<1>1. p \in Processes /\ IsCall(m) /\ IsCall(a) /\ Orderly(s, p, m, a)
  BY Known
<1>2. CallBecomes(s, t, Done(th[s][t], svc))
  BY AfterEffect DEF Types
<1> HIDE DEF p, m, a
<1>3. CASE t = "main"
  <2>1. th'[s]["main"] = Done(m, svc) /\ th'[s]["app"] = a
    BY <1>2, <1>3, OneMain DEF Main, m, a
  <2>2. m.at \in {"create", "find", "delete"} /\ svc \in m.todo
    BY <1>3 DEF m, Main
  <2>3. a = Idle
    BY <1>1, <2>2 DEF Orderly, Idle
  <2>4. \A v \in Threads : th'[s][v].at # "delete"
    BY <2>1, <2>3, DoneNotDelete DEF Threads, Idle
  <2>5. m.at = "create" => /\ svc \notin Listed(p, m, a)
                           /\ Listed(p, Done(m, svc), a) = Listed(p, m, a) \cup {svc}
    BY <1>1, <2>2, CreateMainListed
  <2>6. m.at # "create" => Listed(p, Done(m, svc), a) = Listed(p, m, a) \ {svc}
    BY <1>1, <2>2, DropMainListed
  <2>7. Listed(srv[s], Main(s), App(s))' = Listed(p, Done(m, svc), a)
    BY <2>1 DEF Main, App, p
  <2> QED
    BY <1>3, <2>2, <2>4, <2>5, <2>6, <2>7 DEF p, m, a, Main
<1>4. CASE t = "app"
  <2>1. th'[s]["app"] = Done(a, svc) /\ th'[s]["main"] = m
    BY <1>2, <1>4, OneApp DEF App, m, a
  <2>2. a.at \in {"create", "find", "delete"} /\ svc \in a.todo
    BY <1>4 DEF a, App
  <2>3. m = Idle
    BY <1>1, <2>2 DEF Orderly, Idle
  <2>4. \A v \in Threads : th'[s][v].at # "delete"
    BY <2>1, <2>3, DoneNotDelete DEF Threads, Idle
  <2>5. a.at = "create" => /\ svc \notin Listed(p, m, a)
                           /\ Listed(p, m, Done(a, svc)) = Listed(p, m, a) \cup {svc}
    BY <1>1, <2>2, CreateAppListed
  <2>6. a.at # "create" => Listed(p, m, Done(a, svc)) = Listed(p, m, a) \ {svc}
    BY <1>1, <2>2, DropAppListed
  <2>7. Listed(srv[s], Main(s), App(s))' = Listed(p, m, Done(a, svc))
    BY <2>1 DEF Main, App, p
  <2>8. m.at # "connect"
    BY <2>3 DEF Idle
  <2> QED
    BY <1>4, <2>2, <2>4, <2>5, <2>6, <2>7, <2>8 DEF p, m, a, App
<1> QED
  BY <1>3, <1>4 DEF Threads

LEMMA CreateRegistered ==
    ASSUME Types, Sane, NEW s \in Servers, Registered(s),
           NEW t \in Threads, NEW svc \in Services, Create(s, t, svc)
    PROVE  Registered(s)'
<1>1. PICK before : before = Listed(srv[s], Main(s), App(s))
  OBVIOUS
<1> DEFINE n == Node(s, svc)
<1>2. /\ svc \notin before
      /\ Listed(srv[s], Main(s), App(s))' = before \cup {svc}
      /\ \A v \in Threads : th'[s][v].at # "delete"
      /\ Main(s).at # "connect"
  BY <1>1, DoneListed DEF Create
<1> SUFFICES ASSUME Undisturbed(s)'
             PROVE  Exactly(s, before \cup {svc})'
  BY <1>2 DEF Registered, Exactly
<1>3. Undisturbed(s)
  BY <1>2 DEF Undisturbed, Create
<1>4. Exactly(s, before)
  BY <1>1, <1>3 DEF Registered
<1>5. n.svc = svc /\ n.server = s
  BY NodeTyped DEF Create
<1> HIDE DEF n
<1>6. nodes' = nodes \cup {n}
  BY DEF Create, n
<1> SUFFICES ASSUME NEW x \in Services
             PROVE  IF x \in before \cup {svc}
                    THEN \E k \in nodes' : Own(s, x)' = {k} ELSE Own(s, x)' = {}
  BY DEF Exactly
<1>7. CASE x = svc
  <2>1. Own(s, svc) = {}
    BY <1>2, <1>4 DEF Exactly
  <2>2. Own(s, svc)' = {n}
    BY <1>5, <1>6, <2>1 DEF Own
  <2> QED
    BY <1>6, <1>7, <2>2
<1>8. CASE x # svc
  <2>1. Own(s, x)' = Own(s, x)
    BY <1>5, <1>6, <1>8 DEF Own
  <2> QED
    BY <1>4, <1>6, <1>8, <2>1 DEF Exactly
<1> QED
  BY <1>7, <1>8

LEMMA DeleteRegistered ==
    ASSUME Types, Sane, NEW s \in Servers, Registered(s), NEW t \in Threads, Delete(s, t)
    PROVE  Registered(s)'
<1>1. PICK before : before = Listed(srv[s], Main(s), App(s))
  OBVIOUS
<1>2. PICK n : n = th[s][t].node
  OBVIOUS
<1>3. n.svc \in th[s][t].todo /\ n.server = s
  BY <1>2 DEF Delete, Sane, Orderly, Deleting, Main, App, Threads
<1>4. n.svc \in Services
  BY <1>3 DEF Types, ThreadsTyped, IsCall
<1>5. After(s, t, n.svc) /\ nodes' = nodes \ {n} /\ srv' = srv /\ disturbed' = disturbed
  BY <1>2 DEF Delete
<1>6. /\ Listed(srv[s], Main(s), App(s))' = before \ {n.svc}
      /\ \A v \in Threads : th'[s][v].at # "delete"
      /\ Main(s).at # "connect"
  BY <1>1, <1>3, <1>5, DoneListed DEF Delete
<1> SUFFICES ASSUME Undisturbed(s)'
             PROVE  Exactly(s, before \ {n.svc})'
  BY <1>6 DEF Registered
<1>7. Undisturbed(s)
  BY <1>5, <1>6 DEF Undisturbed
<1>8. Exactly(s, before) /\ n \in nodes
  BY <1>1, <1>2, <1>7 DEF Registered, Delete
<1> SUFFICES ASSUME NEW x \in Services
             PROVE  IF x \in before \ {n.svc}
                    THEN \E k \in nodes' : Own(s, x)' = {k} ELSE Own(s, x)' = {}
  BY DEF Exactly
<1>9. CASE x = n.svc
  <2>1. n \in Own(s, n.svc)
    BY <1>3, <1>8 DEF Own
  <2>2. Own(s, n.svc) = {n}
    BY <1>4, <1>8, <2>1 DEF Exactly
  <2>3. Own(s, n.svc)' = {}
    BY <1>5, <2>2 DEF Own
  <2> QED
    BY <1>9, <2>3
<1>10. CASE x # n.svc
  <2>1. Own(s, x)' = Own(s, x)
    BY <1>5, <1>10 DEF Own
  <2>2. \A k \in nodes : Own(s, x) = {k} => k \in nodes'
    BY <2>1 DEF Own
  <2> QED
    BY <1>8, <1>10, <2>1, <2>2 DEF Exactly
<1> QED
  BY <1>9, <1>10

LEMMA FindRegistered ==
    ASSUME Apart, Types, Sane, Owned, NEW s \in Servers, Registered(s),
           NEW t \in Threads, NEW svc \in Services, Find(s, t, svc)
    PROVE  Registered(s)'
<1>1. PICK before : before = Listed(srv[s], Main(s), App(s))
  OBVIOUS
<1>2. /\ th[s][t].at = "find" /\ svc \in th[s][t].todo
      /\ nodes' = nodes /\ srv' = srv /\ disturbed' = disturbed
  BY DEF Find, zk
<1>3. CASE {n \in nodes : Matches(n, s, svc)} = {} /\ After(s, t, svc)
  <2>1. /\ Listed(srv[s], Main(s), App(s))' = before \ {svc}
        /\ \A v \in Threads : th'[s][v].at # "delete"
        /\ Main(s).at # "connect"
    BY <1>1, <1>2, <1>3, DoneListed
  <2> SUFFICES ASSUME Undisturbed(s)'
               PROVE  Exactly(s, before \ {svc})'
    BY <2>1 DEF Registered
  <2>2. Exactly(s, before)
    BY <1>1, <1>2, <2>1 DEF Registered, Undisturbed
  <2>3. Own(s, svc) = {}
    BY <1>3, SameNameOwn DEF Own, Matches
  <2>4. svc \notin before
    BY <2>2, <2>3 DEF Exactly
  <2>5. \A x \in Services : Own(s, x)' = Own(s, x)
    BY <1>2 DEF Own
  <2>6. before \ {svc} = before
    BY <2>4
  <2>7. Exactly(s, before)'
    BY <1>2, <2>2, <2>5 DEF Exactly
  <2> QED
    BY <2>6, <2>7
<1>4. CASE \E n \in nodes : th' = [th EXCEPT ![s][t].at = "delete", ![s][t].node = n]
  <2>1. PICK n \in nodes : th' = [th EXCEPT ![s][t].at = "delete", ![s][t].node = n]
    BY <1>4
  <2>2. PICK c : c = Found(th[s][t], n)
    OBVIOUS
  <2>3. CallBecomes(s, t, c)
    BY <2>1, <2>2, FindCall DEF Types
  <2>4. c.at = "delete" /\ c.node = n
    BY <2>2 DEF Found
  <2>5. /\ srv[s] \in Processes /\ IsCall(Main(s)) /\ IsCall(App(s))
        /\ Orderly(s, srv[s], Main(s), App(s))
    BY Known
  <2>6. CASE t = "main"
    <3>1. th'[s]["main"] = c /\ th'[s]["app"] = App(s)
      BY <2>3, <2>6, OneMain
    <3>2. Listed(srv[s], c, App(s)) = Listed(srv[s], Main(s), App(s))
      BY <1>2, <2>2, <2>5, <2>6, FoundMainListed DEF Main
    <3>3. Listed(srv[s], Main(s), App(s))' = Listed(srv[s], Main(s), App(s))
      BY <1>2, <3>1, <3>2 DEF Main, App
    <3>4. Undisturbed(s)' => Undisturbed(s)
      BY <1>2, <2>6 DEF Undisturbed, Main
    <3> QED
      BY <1>2, <2>4, <3>1, <3>3, <3>4, QuietRegistered DEF App, Threads
  <2>7. CASE t = "app"
    <3>1. th'[s]["app"] = c /\ th'[s]["main"] = Main(s)
      BY <2>3, <2>7, OneApp
    <3>2. Listed(srv[s], Main(s), c) = Listed(srv[s], Main(s), App(s))
      BY <1>2, <2>2, <2>5, <2>7, FoundAppListed DEF App
    <3>3. Listed(srv[s], Main(s), App(s))' = Listed(srv[s], Main(s), App(s))
      BY <1>2, <3>1, <3>2 DEF Main, App
    <3>4. Undisturbed(s)' => Undisturbed(s)
      BY <1>2, <3>1 DEF Undisturbed, Main
    <3> QED
      BY <1>2, <2>4, <3>1, <3>3, <3>4, QuietRegistered DEF Main, Threads
  <2> QED
    BY <2>6, <2>7 DEF Threads
<1> QED
  BY <1>3, <1>4 DEF Find

(* A new session has no nodes yet, and no other session of the server is   *)
(* left.                                                                   *)
LEMMA ConnectRegistered ==
    ASSUME Types, Sane, Owned, NEW s \in Servers, NEW c \in BOOLEAN, Connect(s, c)
    PROVE  Registered(s)'
<1>1. /\ srv[s] \in Processes /\ IsCall(Main(s)) /\ IsCall(App(s))
      /\ Orderly(s, srv[s], Main(s), App(s)) /\ OneSession(s)
  BY Known DEF Sane
<1>2. Main(s).at = "connect"
  BY DEF Connect, Main
<1>3. srv[s].up /\ App(s) = Idle /\ Main(s).op = "start"
  BY <1>1, <1>2 DEF Orderly, MainCall, Living, Idle
<1>4. PICK m : m = [Main(s) EXCEPT !.at = "lock"]
  OBVIOUS
<1>5. th'[s]["main"] = m /\ th'[s]["app"] = App(s)
  BY <1>4, ConnectCall, OneMain
<1>6. m.at = "lock" /\ m.op = "start"
  BY <1>1, <1>3, <1>4 DEF IsCall
<1>7. Listed(srv[s], Main(s), App(s))' = {}
  BY <1>5, <1>6 DEF Listed, Main, App
<1>8. \A n \in nodes : n.server = s => n.session = srv[s].registry
  BY <1>1, <1>3 DEF Types, ZooKeeperTyped, Owned, OneSession, OfServer
<1>9. \A svc \in Services : Own(s, svc)' = {}
  BY <1>8 DEF Own, Connect
<1>10. \A t \in Threads : th'[s][t].at # "delete"
  BY <1>3, <1>5, <1>6 DEF Threads, Idle
<1> QED
  BY <1>7, <1>9, <1>10 DEF Registered, Exactly

LEMMA RunRegistered ==
    ASSUME Apart, Types, Sane, Owned, NEW s \in Servers, Registered(s), Run(s)
    PROVE  Registered(s)'
<1>1. ASSUME NEW t \in Threads, NEW svc \in Services,
             CreateFails(s, t, svc) \/ FindOrDeleteFails(s, t, svc)
      PROVE  Registered(s)'
  <2>1. disturbed'[s] = TRUE
    BY <1>1 DEF CreateFails, FindOrDeleteFails, Types, ZooKeeperTyped
  <2> QED
    BY <2>1 DEF Registered, Undisturbed
<1> QED
  BY <1>1, ConnectRegistered, RunQuietRegistered, DeleteRegistered, CreateRegistered,
     FindRegistered DEF Run

LEMMA OtherRegistered ==
    ASSUME Apart, Types, Sane, Owned, \A s \in Servers : Registered(s),
           \/ \E s \in Servers : Crash(s) \/ \E S \in SUBSET Services : Boot(s, S)
           \/ ZooKeeper \/ Client \/ UNCHANGED vars
    PROVE  \A s \in Servers : Registered(s)'
<1>1. ASSUME NEW s \in Servers, Crash(s)
      PROVE  \A u \in Servers : Registered(u)'
  <2>1. PICK p : p = [Process({}) EXCEPT !.up = FALSE]
    OBVIOUS
  <2>2. ServerBecomes(s, p)
    BY <1>1, <2>1, CrashServer DEF Types
  <2>3. ~srv'[s].up
    BY <2>1, <2>2 DEF ServerBecomes, Process
  <2>4. Registered(s)'
    BY <2>3 DEF Registered, Undisturbed
  <2>5. Others(s)
    BY <1>1, <2>2, ServerOnly, CrashThreads DEF Crash, zk, Others, Types
  <2> QED
    BY <2>4, <2>5, OthersRegistered
<1>2. ASSUME NEW s \in Servers, NEW S \in SUBSET Services, Boot(s, S)
      PROVE  \A u \in Servers : Registered(u)'
  <2>1. Main(s) = Idle /\ App(s) = Idle
    BY <1>2 DEF Boot, Sane, Orderly, Living
  <2>2. ServerBecomes(s, Process(S)) /\ th' = th /\ nodes' = nodes /\ disturbed' = disturbed
    BY <1>2, BootServer DEF Types, Boot, zk
  <2>3. Others(s)
    BY <2>2, ServerOnly DEF Others
  <2>4. Listed(srv[s], Main(s), App(s))' = {}
    BY <2>1, <2>2 DEF ServerBecomes, Process, Listed, Main, App, Idle
  <2>5. \A svc \in Services : Own(s, svc)' = {}
    BY <1>2, <2>2 DEF Own, Boot, Apart, OfServer, Types, ZooKeeperTyped, Owned
  <2>6. \A t \in Threads : th'[s][t].at # "delete"
    BY <2>1, <2>2 DEF Main, App, Threads, Idle
  <2>7. Registered(s)'
    BY <2>4, <2>5, <2>6 DEF Registered, Exactly
  <2> QED
    BY <2>3, <2>7, OthersRegistered
<1>3. ASSUME NEW s \in Servers, ConnectionWatcher(s)
      PROVE  \A u \in Servers : Registered(u)'
  <2>1. PICK p : p = [srv[s] EXCEPT !.connected = ~srv[s].connected]
    OBVIOUS
  <2>2. ServerBecomes(s, p) /\ th' = th /\ nodes' = nodes /\ disturbed' = disturbed
    BY <1>3, <2>1, WatcherServer DEF Types, ConnectionWatcher, zk
  <2>3. Others(s)
    BY <2>2, ServerOnly DEF Others
  <2>4. /\ srv[s] \in Processes /\ IsCall(Main(s)) /\ IsCall(App(s))
        /\ Orderly(s, srv[s], Main(s), App(s))
    BY Known
  <2>5. Listed(p, Main(s), App(s)) = Listed(srv[s], Main(s), App(s))
    BY <2>1, <2>4 DEF Listed, Processes
  <2>6. Listed(srv[s], Main(s), App(s))' = Listed(srv[s], Main(s), App(s))
    BY <2>2, <2>5 DEF ServerBecomes, Main, App
  <2>7. Undisturbed(s)' => Undisturbed(s)
    BY <2>1, <2>2, <2>4 DEF Undisturbed, ServerBecomes, Main, Processes
  <2>8. Registered(s)'
    BY <2>2, <2>6, <2>7, QuietRegistered
  <2> QED
    BY <2>3, <2>8, OthersRegistered
<1>4. ASSUME NEW ss \in sessions, Expire(ss)
      PROVE  \A u \in Servers : Registered(u)'
  <2>1. ss[1] \in Servers
    BY DEF Types, ZooKeeperTyped, Names
  <2>2. PICK s \in Servers : s = ss[1]
    BY <2>1
  <2>3. srv' = srv /\ th' = th /\ nodes' = {n \in nodes : n.session # ss}
    BY <1>4 DEF Expire
  <2>4. \A u \in Servers : u # s => disturbed'[u] = disturbed[u]
    BY <1>4, <2>2 DEF Expire, Types, ZooKeeperTyped
  <2>5. \A n : n.server # s => (n \in nodes <=> n \in nodes')
    BY <2>2, <2>3 DEF Owned
  <2>6. Others(s)
    BY <2>3, <2>4, <2>5 DEF Others, OnlyServer
  <2>7. ~srv[s].up \/ disturbed'[s] = TRUE
    BY <1>4, <2>2 DEF Expire, Types, ZooKeeperTyped, Sane, OneSession, OfServer
  <2>8. Registered(s)'
    BY <2>3, <2>7 DEF Registered, Undisturbed
  <2> QED
    BY <2>6, <2>8, OthersRegistered
<1>5. ASSUME Client \/ UNCHANGED vars
      PROVE  \A u \in Servers : Registered(u)'
  <2>1. nodes' = nodes /\ srv' = srv /\ th' = th /\ disturbed' = disturbed
    BY <1>5 DEF Client, Discover, Get, DiscoverReturns, vars, zk
  <2> SUFFICES ASSUME NEW u \in Servers
               PROVE  Registered(u)'
    OBVIOUS
  <2> QED
    BY <2>1, QuietRegistered DEF Undisturbed, Main, App, Listed
<1> QED
  BY <1>1, <1>2, <1>3, <1>4, <1>5 DEF ZooKeeper

Inv == Types /\ Sane /\ Listing

LEMMA InitInv ==
    ASSUME Init
    PROVE  Inv
<1>1. \A s \in Servers : \E S \in SUBSET Services : srv[s] = Process(S)
  BY DEF Init
<1>2. \A s \in Servers : Main(s) = Idle /\ App(s) = Idle
  BY DEF Init, Main, App, Threads
<1>3. Sane
  <2>1. \A s \in Servers, S \in SUBSET Services : Orderly(s, Process(S), Idle, Idle)
    BY DEF Process, Orderly, MainCall, AppCall, Deleting, Living, Idle
  <2>2. sessions = {}
    BY DEF Init
  <2> QED
    BY <1>1, <1>2, <2>1, <2>2 DEF Sane, OneSession, OfServer
<1>4. nodes = {}
  BY DEF Init
<1>5. ASSUME NEW s \in Servers
      PROVE  Registered(s)
  <2>1. Listed(srv[s], Main(s), App(s)) = {}
    <3>1. PICK S \in SUBSET Services : srv[s] = Process(S)
      BY <1>1
    <3>2. ~srv[s].running /\ Main(s).op = "none"
      BY <1>2, <3>1 DEF Process, Idle
    <3> QED
      BY <3>2 DEF Listed
  <2>2. \A t \in Threads : th[s][t].at # "delete"
    BY <1>2 DEF Main, App, Threads, Idle
  <2> QED
    BY <1>4, <2>1, <2>2 DEF Registered, Exactly, Own
<1> QED
  BY <1>3, <1>4, <1>5, InitTypes DEF Inv, Listing, Owned

LEMMA StepInv ==
    ASSUME Apart, Inv, [Next]_vars
    PROVE  Inv'
<1>1. Types /\ Sane /\ Owned /\ \A s \in Servers : Registered(s)
  BY DEF Inv, Listing
<1>2. Types' /\ Owned'
  BY <1>1, StepTypes, OwnedStep
<1>3. ASSUME NEW s \in Servers, Run(s)
      PROVE  Sane' /\ \A u \in Servers : Registered(u)'
  BY <1>1, <1>3, RunSane, RunOthers, RunRegistered, OthersRegistered
<1>4. ASSUME NEW s \in Servers, CallOf(s)
      PROVE  Sane' /\ \A u \in Servers : Registered(u)'
  BY <1>1, <1>4, CallsSane, CallOfOthers, CallOfRegistered, OthersRegistered
<1>5. ASSUME \/ \E s \in Servers : Crash(s) \/ \E S \in SUBSET Services : Boot(s, S)
             \/ ZooKeeper \/ Client \/ UNCHANGED vars
      PROVE  Sane' /\ \A u \in Servers : Registered(u)'
  BY <1>1, <1>5, OtherSane, OtherRegistered
<1>6. Sane' /\ \A u \in Servers : Registered(u)'
  BY <1>3, <1>4, <1>5 DEF Next, Step
<1> QED
  BY <1>2, <1>6 DEF Inv, Listing

LEMMA Invariance ==
    ASSUME Apart
    PROVE  Spec => []Inv
BY InitInv, StepInv, PTL DEF Spec

(* The nodes that stand for a server that is up are those it has made with *)
(* the session it has now.                                                 *)
LEMMA RegistrationsOwn ==
    ASSUME Apart, Inv, NEW s \in Servers, NEW svc \in Services, srv[s].up
    PROVE  Registrations(s, svc) = Own(s, svc)
<1>1. \A n \in nodes : SameName(n, s, svc) <=> n.svc = svc /\ n.server = s
  BY SameNameOwn DEF Inv, Listing
<1>2. \A n \in nodes : n.server = s => n.session = srv[s].registry
  BY DEF Inv, Types, ZooKeeperTyped, Listing, Owned, Sane, OneSession, OfServer
<1> QED
  BY <1>1, <1>2 DEF Registrations, Own, SameName

(* At rest what is to be listed is what the server offers. *)
LEMMA ListedAtRest ==
    ASSUME Inv, NEW s \in Servers, NEW svc \in Services, srv[s].up,
           MainIdle(s), AppIdle(s), ~disturbed[s]
    PROVE  IF srv[s].running /\ svc \in srv[s].services
           THEN \E n \in nodes : Own(s, svc) = {n} ELSE Own(s, svc) = {}
<1>1. Undisturbed(s)
  BY DEF Undisturbed, MainIdle, Main, Idle
<1>2. Exactly(s, Listed(srv[s], Main(s), App(s)))
  BY <1>1 DEF Inv, Listing, Registered
<1>3. svc \in Listed(srv[s], Main(s), App(s)) <=> srv[s].running /\ svc \in srv[s].services
  BY DEF Listed, MainIdle, AppIdle, Main, App, Idle
<1> QED
  BY <1>2, <1>3 DEF Exactly

LEMMA OffersUp ==
    ASSUME Inv, NEW s \in Servers, NEW svc \in Services, Offers(s, svc)
    PROVE  srv[s].up
BY DEF Inv, Sane, Orderly, Living, Offers

(* A server that has started, keeps its connection and is not in a call is *)
(* listed exactly once for each service it offers, with the session it has *)
(* now: whatever the order in which services were registered, unregistered *)
(* and the server started, stopped and crashed before, and whatever other  *)
(* servers do (rpc_server.cpp:54-62,119; zookeeper_registry.cpp:262).      *)
THEOREM RegistryListedOnce == Apart => (Spec => []ListedOnce)
<1> SUFFICES ASSUME Apart
             PROVE  Spec => []ListedOnce
  OBVIOUS
<1>1. Inv => ListedOnce
  <2> SUFFICES ASSUME Inv, NEW s \in Servers, NEW svc \in Services, Offers(s, svc)
               PROVE  Cardinality(Registrations(s, svc)) = 1
    BY DEF ListedOnce
  <2>1. srv[s].up
    BY OffersUp
  <2>2. PICK n \in nodes : Own(s, svc) = {n}
    BY <2>1, ListedAtRest DEF Offers
  <2>3. Registrations(s, svc) = {n}
    BY <2>1, <2>2, RegistrationsOwn
  <2> QED
    BY <2>3, FS_Singleton
<1> QED
  BY <1>1, Invariance, PTL

(* After stop(), and after unregisterService, nothing of the server is     *)
(* listed for the service, though its registry object and its session live *)
(* on (rpc_server.cpp:83-89,121-130).                                      *)
THEOREM RegistryWithdrawn == Apart => (Spec => []Withdrawn)
<1> SUFFICES ASSUME Apart
             PROVE  Spec => []Withdrawn
  OBVIOUS
<1>1. Inv => Withdrawn
  <2> SUFFICES ASSUME Inv, NEW s \in Servers, NEW svc \in Services,
                      srv[s].up, MainIdle(s), AppIdle(s), ~disturbed[s],
                      ~(srv[s].running /\ svc \in srv[s].services)
               PROVE  Registrations(s, svc) = {}
    BY DEF Withdrawn
  <2> QED
    BY ListedAtRest, RegistrationsOwn
<1> QED
  BY <1>1, Invariance, PTL

-----------------------------------------------------------------------------
(* discoverService *)

(* While a server goes on offering a service its node stays. *)
LEMMA OfferKept ==
    ASSUME Apart, Inv, [Next]_vars, NEW s \in Servers, NEW svc \in Services,
           Offers(s, svc), Offers(s, svc)', NEW n \in nodes, n.server = s
    PROVE  n \in nodes'
<1>1. Types /\ Sane /\ Owned
  BY DEF Inv, Listing
<1>2. ASSUME NEW u \in Servers, Run(u), u # s
      PROVE  n \in nodes'
  BY <1>1, <1>2, RunOthers DEF Others
<1>3. CASE Run(s)
  <2>1. \A t \in Threads : th[s][t] = Idle
    BY DEF Offers, MainIdle, AppIdle, Threads
  <2>2. HeartbeatEnds(s)
    <3>1. \A t \in Threads : th[s][t].at = "idle"
      BY <2>1 DEF Idle
    <3>2. /\ \A c \in BOOLEAN : ~Connect(s, c)
          /\ ~StartLoop(s) /\ ~HeartbeatStarts(s) /\ ~StopLoop(s) /\ ~RegisterTest(s) /\ ~Erase(s)
      BY <3>1 DEF Connect, StartLoop, HeartbeatStarts, StopLoop, RegisterTest, Erase, Threads
    <3>3. \A t \in Threads, x \in Services :
              ~(Create(s, t, x) \/ CreateFails(s, t, x) \/ Find(s, t, x) \/ FindOrDeleteFails(s, t, x))
      BY <3>1 DEF Create, CreateFails, Find, FindOrDeleteFails
    <3>4. \A t \in Threads : ~Delete(s, t)
      BY <3>1 DEF Delete
    <3> QED
      BY <1>3, <3>2, <3>3, <3>4 DEF Run
  <2> QED
    BY <2>2 DEF HeartbeatEnds, zk
<1>4. ASSUME NEW u \in Servers, CallOf(u)
      PROVE  n \in nodes'
  BY <1>4 DEF CallOf, StartCall, StopCall, RegisterCall, UnregisterCall, zk
<1>5. ASSUME NEW ss \in sessions, Expire(ss)
      PROVE  n \in nodes'
  <2>1. CASE n.session = ss
    <3>1. ss[1] = s
      BY <1>1, <2>1 DEF Owned
    <3>2. srv[s].registry = ss
      BY <1>1, <3>1, OffersUp DEF Sane, OneSession, OfServer
    <3>3. disturbed'[s] = TRUE
      BY <1>1, <1>5, <3>1, <3>2 DEF Expire, Types, ZooKeeperTyped
    <3> QED
      BY <3>3 DEF Offers
  <2>2. CASE n.session # ss
    BY <1>5, <2>2 DEF Expire
  <2> QED
    BY <2>1, <2>2
<1>6. ASSUME \/ \E u \in Servers : Crash(u) \/ \E S \in SUBSET Services : Boot(u, S)
             \/ \E u \in Servers : ConnectionWatcher(u)
             \/ Client \/ UNCHANGED vars
      PROVE  n \in nodes'
  BY <1>6 DEF Crash, Boot, ConnectionWatcher, Client, Discover, Get, DiscoverReturns, vars, zk
<1> QED
  BY <1>2, <1>3, <1>4, <1>5, <1>6 DEF Next, Step, ZooKeeper

(* A node is there because its server may offer the service. *)
LEMMA NodeMayOffer ==
    ASSUME Apart, Inv, NEW n \in nodes
    PROVE  n.server \in Servers /\ MayOffer(n.server, n.svc)
<1>1. PICK s \in Servers, svc \in Services : s = n.server /\ svc = n.svc
  BY DEF Inv, Types, ZooKeeperTyped
<1> SUFFICES ASSUME ~MayOffer(s, svc)
             PROVE  FALSE
  BY <1>1
<1>2. MainIdle(s) /\ AppIdle(s) /\ ~disturbed[s] /\ ~(srv[s].running /\ svc \in srv[s].services)
  BY DEF MayOffer
<1>3. n.session = srv[s].registry
  BY <1>1 DEF MayOffer
<1>4. srv[s].registry # NoSession
  BY <1>3 DEF Inv, Types, ZooKeeperTyped, Names, NoSession
<1>5. srv[s].up
  BY <1>4 DEF Inv, Sane, Orderly, Living
<1>6. Own(s, svc) = {}
  BY <1>2, <1>5, ListedAtRest
<1> QED
  BY <1>1, <1>6 DEF Own

Discovering ==
    /\ reader = [at |-> reader.at, todo |-> reader.todo, got |-> reader.got]
    /\ Reading

LEMMA DiscoveringStep ==
    ASSUME Apart, Inv, Inv', Discovering, [Next]_vars
    PROVE  Discovering'
<1>1. CASE UNCHANGED vars
  BY <1>1 DEF Discovering, Reading, Must, Offers, MainIdle, AppIdle, vars
<1>2. CASE Step /\ Observe /\ (reader' = reader \/ \E n \in reader.todo : Get(n))
  <2> DEFINE of == reader.todo \cup reader.got
  <2>1. /\ reader' = [at |-> reader'.at, todo |-> reader'.todo, got |-> reader'.got]
        /\ reader'.at = reader.at
        /\ reader'.todo \cup reader'.got \subseteq of
        /\ \A n \in of : n \in nodes => n \in reader'.todo \cup reader'.got
    <3>1. CASE reader' = reader
      BY <3>1 DEF Discovering
    <3>2. ASSUME NEW n \in reader.todo, Get(n)
          PROVE  reader' = [at |-> reader.at, todo |-> reader.todo \ {n},
                            got |-> reader.got \cup ({n} \cap nodes)]
      BY <3>2 DEF Get, Got, Discovering
    <3> QED
      BY <1>2, <3>1, <3>2
  <2> SUFFICES ASSUME reader.at # "idle"
               PROVE  Reading'
    BY <2>1 DEF Discovering, Reading
  <2>2. /\ \A n \in of : n.server \in seen.may
        /\ seen.must \subseteq Must
        /\ \A s \in seen.must : \E n \in nodes : n.server = s /\ n.svc = reader.at /\ n \in of
    BY DEF Discovering, Reading
  <2>3. seen' = [must |-> seen.must \cap Must', may |-> seen.may \cup May']
    BY <1>2 DEF Observe
  <2>4. ASSUME NEW s \in seen'.must
        PROVE  \E n \in nodes' :
                  n.server = s /\ n.svc = reader'.at /\ n \in reader'.todo \cup reader'.got
    <3>1. s \in seen.must /\ s \in Must /\ s \in Must'
      BY <2>2, <2>3
    <3>2. PICK n \in nodes : n.server = s /\ n.svc = reader.at /\ n \in of
      BY <2>2, <3>1
    <3>3. s \in Servers /\ reader.at \in Services /\ Offers(s, reader.at)
      BY <3>1 DEF Must
    <3>4. Offers(s, reader.at)'
      BY <2>1, <3>1 DEF Must
    <3>5. n \in nodes'
      <4>1. PICK svc \in Services : svc = reader.at
        BY <3>3
      <4>2. Offers(s, svc) /\ Offers(s, svc)'
        BY <2>1, <3>3, <3>4, <4>1 DEF Offers, MainIdle, AppIdle
      <4> QED
        BY <3>2, <3>3, <4>2, OfferKept
    <3> QED
      BY <2>1, <3>2, <3>5
  <2>5. seen'.must \subseteq Must' /\ \A n \in of : n.server \in seen'.may
    BY <2>2, <2>3
  <2> QED
    BY <2>1, <2>4, <2>5 DEF Reading
<1>3. ASSUME NEW svc \in Services, Discover(svc), Observe
      PROVE  Discovering'
  <2>1. reader' = [at |-> svc, todo |-> {n \in nodes : n.svc = svc}, got |-> {}]
    BY <1>3 DEF Discover
  <2>2. seen' = [must |-> Must', may |-> May']
    BY <1>3 DEF Discover, Observe
  <2>3. nodes' = nodes
    BY <1>3 DEF Discover, zk
  <2>4. \A n \in reader'.todo : n.server \in seen'.may
    <3> SUFFICES ASSUME NEW n \in nodes', n.svc = svc
                 PROVE  n.server \in May'
      BY <2>1, <2>2, <2>3
    <3>1. n.server \in Servers /\ MayOffer(n.server, n.svc)'
      <4>1. n.server \in Servers /\ MayOffer(n.server, n.svc)
        BY <2>3, NodeMayOffer
      <4>2. srv' = srv /\ th' = th /\ disturbed' = disturbed
        BY <1>3 DEF Discover
      <4> QED
        BY <2>3, <4>1, <4>2 DEF MayOffer, MainIdle, AppIdle
    <3> QED
      BY <2>1, <3>1 DEF May
  <2>5. ASSUME NEW s \in seen'.must
        PROVE  \E n \in nodes' : n.server = s /\ n.svc = svc /\ n \in reader'.todo
    <3>1. s \in Servers /\ Offers(s, svc)
      BY <1>3, <2>1, <2>2 DEF Must, Offers, MainIdle, AppIdle, Discover
    <3>2. PICK n \in nodes : Own(s, svc) = {n}
      BY <3>1, OffersUp, ListedAtRest DEF Offers
    <3> QED
      BY <2>1, <2>3, <3>2 DEF Own
  <2> QED
    BY <2>1, <2>2, <2>4, <2>5 DEF Discovering, Reading
<1>4. CASE DiscoverReturns
  BY <1>4 DEF DiscoverReturns, NoReader, Discovering, Reading
<1>5. \/ UNCHANGED vars
      \/ Step /\ Observe /\ (reader' = reader \/ \E n \in reader.todo : Get(n))
      \/ \E svc \in Services : Discover(svc) /\ Observe
      \/ DiscoverReturns
  <2>1. ASSUME NEW s \in Servers, Run(s)
        PROVE  reader' = reader
    BY <2>1 DEF Run, Connect, StartLoop, HeartbeatStarts, StopLoop, HeartbeatEnds, RegisterTest,
       Erase, Delete, Create, CreateFails, Find, FindOrDeleteFails
  <2>2. ASSUME NEW s \in Servers,
               CallOf(s) \/ Crash(s) \/ \E S \in SUBSET Services : Boot(s, S)
        PROVE  reader' = reader
    BY <2>2 DEF CallOf, StartCall, StopCall, RegisterCall, UnregisterCall, Crash, Boot
  <2>3. ZooKeeper => reader' = reader
    BY DEF ZooKeeper, Expire, ConnectionWatcher
  <2> QED
    BY <2>1, <2>2, <2>3 DEF Next, Step, Client
<1> QED
  BY <1>1, <1>2, <1>3, <1>4, <1>5

(* What discoverService returns: every server that offered the service     *)
(* from the beginning of the call, and no server that did not at some time *)
(* during it, though the children's names and their data are read one by   *)
(* one while servers come and go (zookeeper_registry.cpp:321-351).         *)
THEOREM RegistryDiscoversOffers == Apart => (Spec => []DiscoversOffers)
<1> SUFFICES ASSUME Apart
             PROVE  Spec => []DiscoversOffers
  OBVIOUS
<1>1. Init => Discovering
  BY DEF Init, NoReader, Discovering, Reading
<1>2. Inv /\ Discovering => DiscoversOffers
  <2> SUFFICES ASSUME Inv, Discovering, reader.at # "idle", reader.todo = {}
               PROVE  /\ \A s \in seen.must : \E n \in reader.got : n.id = Id(s)
                      /\ \A n \in reader.got : n.server \in seen.may
    BY DEF DiscoversOffers
  <2> QED
    BY DEF Discovering, Reading, Inv, Listing, Owned
<1> QED
  BY <1>1, <1>2, Invariance, DiscoveringStep, PTL DEF Spec
=============================================================================
