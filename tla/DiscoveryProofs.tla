---------------------------- MODULE DiscoveryProofs ----------------------------
(***************************************************************************)
(* Theorems about Discovery, for a stub that one thread uses, with any     *)
(* number of servers, lists of the registry and failures, and whatever the *)
(* balancer selects.  For threads that share a stub they do not hold: one  *)
(* connects the stub elsewhere while the other is about to send, which the *)
(* properties themselves say (Alone).                                      *)
(***************************************************************************)
EXTENDS Discovery, FiniteSetTheorems, TLAPS

-----------------------------------------------------------------------------
(* Shapes of the variables *)

StubTyped ==
    /\ stub = [tcp |-> stub.tcp, connected |-> stub.connected, current |-> stub.current]
    /\ stub.tcp # NoTcp => stub.tcp = <<[id |-> stub.tcp[1].id, open |-> stub.tcp[1].open]>>
    /\ stub.connected \in BOOLEAN

CallsTyped ==
    /\ th = [t \in Threads |-> th[t]]
    /\ \A t \in Threads : th[t] = [at |-> th[t].at, inst |-> th[t].inst, up |-> th[t].up]

IsBalancer(b) ==
    /\ b = [name |-> b.name, hash |-> b.hash, virtual_nodes |-> b.virtual_nodes,
            current_index |-> b.current_index, current_weights |-> b.current_weights,
            connection_counts |-> b.connection_counts, hash_ring |-> b.hash_ring,
            last_key |-> b.last_key]
    /\ b.name \in {"RoundRobin", "WeightedRoundRobin", "LeastConnection", "ConsistentHash"}
    /\ \A id \in DOMAIN b.connection_counts : b.connection_counts[id] \in Int

Shapes ==
    /\ StubTyped /\ CallsTyped /\ IsBalancer(lb)
    /\ lost \in [Ids -> Nat]
    /\ active \in ThreadSets

-----------------------------------------------------------------------------
(* A thread a that has the stub for itself *)

Sole(a) == active = {a} /\ \A t \in Threads : t # a => th[t] = Outside

Sending == {"count", "exchange", "uncount"}

(* current_instance_id_ says what a live tcp_client_ is connected to, but  *)
(* while the thread has replaced the one and not yet written the other.    *)
Connection(a) ==
    /\ th[a].at = "connect" => ~stub.connected
    /\ stub.connected /\ stub.tcp # NoTcp /\ th[a].at # "current" =>
          stub.current = <<stub.tcp[1].id>>
    /\ th[a].at \in {"current"} \cup Sending /\ stub.tcp # NoTcp =>
          stub.tcp[1].id = th[a].inst
    /\ th[a].at \in Sending => stub.current = <<th[a].inst>>

InProgress(a, id) == IF th[a].up = <<id>> THEN 1 ELSE 0

(* The thread has counted the instance it is sending to, and no other. *)
Counting(a) ==
    lb.name = "LeastConnection" =>
        /\ th[a].up = IF th[a].at \in {"exchange", "uncount"} THEN <<th[a].inst>> ELSE NotCounted
        /\ \A id \in Ids : CountOf(id) = InProgress(a, id) + lost[id]

Sane(a) == Sole(a) /\ Connection(a) /\ Counting(a)

Inv == Shapes /\ \A a \in Threads : active = {a} => Sane(a)

-----------------------------------------------------------------------------
(* The balancer *)

(* The count of an instance, which is 0 before the balancer knows it. *)
CountIn(counts, id) == IF id \in DOMAIN counts THEN counts[id] ELSE 0

LEMMA CountIs ==
    ASSUME NEW id \in Ids
    PROVE  CountOf(id) = CountIn(lb.connection_counts, id)
BY DEF CountOf, WithEntries, CountIn

LEMMA SelectKeeps ==
    ASSUME NEW b, IsBalancer(b), NEW instances, NEW b2, b2 = Select(b, instances).b
    PROVE  /\ IsBalancer(b2) /\ b2.name = b.name
           /\ \A id : CountIn(b2.connection_counts, id) = CountIn(b.connection_counts, id)
<1>1. PICK hs : hs = Healthy(instances)
  OBVIOUS
<1>2. CASE b.name = "RoundRobin"
  <2>1. PICK x : x = NextIndex(b.current_index, Len(hs))
    OBVIOUS
  <2>2. b2 = [b EXCEPT !.current_index = x]
    BY <1>1, <1>2, <2>1 DEF Select, RoundRobinSelect
  <2> QED
    BY <2>2 DEF IsBalancer, CountIn
<1>3. CASE b.name = "WeightedRoundRobin"
  <2>1. \E x : b2 = [b EXCEPT !.current_weights = x]
    BY <1>1, <1>3 DEF Select, WeightedSelect
  <2> QED
    BY <2>1 DEF IsBalancer, CountIn
<1>4. CASE b.name = "LeastConnection"
  <2>1. PICK c : c = WithEntries(b.connection_counts, IdsOf(hs))
    OBVIOUS
  <2>2. b2 = [b EXCEPT !.connection_counts = c]
    BY <1>1, <1>4, <2>1 DEF Select, LeastSelect
  <2>3. \A id : CountIn(c, id) = CountIn(b.connection_counts, id)
    BY <2>1 DEF WithEntries, CountIn
  <2>4. \A id \in DOMAIN c : c[id] \in Int
    BY <2>1 DEF WithEntries, IsBalancer
  <2> QED
    BY <2>2, <2>3, <2>4 DEF IsBalancer
<1>5. CASE b.name = "ConsistentHash"
  <2>1. b2 = b \/ \E x, y : b2 = [b EXCEPT !.last_key = x, !.hash_ring = y]
    BY <1>1, <1>5 DEF Select, SelectByKey
  <2> QED
    BY <2>1 DEF IsBalancer, CountIn
<1> QED
  BY <1>2, <1>3, <1>4, <1>5 DEF IsBalancer

(* updateStats moves the count of one instance, and not below 0. *)
Up(b, id) == UpdateStats(b, id, TRUE)
Down(b, id) == UpdateStats(b, id, FALSE)

LEMMA CountedUp ==
    ASSUME NEW b, IsBalancer(b), NEW id, NEW b2, b2 = Up(b, id)
    PROVE  /\ IsBalancer(b2) /\ b2.name = b.name
           /\ b.name = "LeastConnection" =>
                \A x : CountIn(b2.connection_counts, x) =
                          IF x # id THEN CountIn(b.connection_counts, x)
                          ELSE CountIn(b.connection_counts, x) + 1
<1>1. CASE b.name # "LeastConnection"
  BY <1>1 DEF Up, UpdateStats
<1>2. CASE b.name = "LeastConnection"
  <2>1. PICK c : c = WithEntries(b.connection_counts, {id})
    OBVIOUS
  <2>2. /\ c = [x \in DOMAIN b.connection_counts \cup {id} |-> CountIn(b.connection_counts, x)]
        /\ \A x \in DOMAIN c : c[x] \in Int
    BY <2>1 DEF WithEntries, CountIn, IsBalancer
  <2>3. PICK e : e = c[id] + 1
    OBVIOUS
  <2>4. PICK d : d = [c EXCEPT ![id] = e]
    OBVIOUS
  <2>5. b2 = [b EXCEPT !.connection_counts = d]
    BY <1>2, <2>1, <2>3, <2>4 DEF Up, UpdateStats, LeastUpdateStats
  <2>6. /\ DOMAIN d = DOMAIN b.connection_counts \cup {id}
        /\ \A x \in DOMAIN d : d[x] \in Int /\ d[x] = IF x # id THEN c[x] ELSE c[x] + 1
    <3>1. e \in Int
      BY <2>2, <2>3
    <3>2. DOMAIN d = DOMAIN b.connection_counts \cup {id}
          /\ \A x \in DOMAIN d : d[x] = IF x # id THEN c[x] ELSE e
      BY <2>2, <2>4
    <3> QED
      BY <2>2, <2>3, <3>1, <3>2
  <2>7. b2.connection_counts = d /\ b2.name = b.name /\ IsBalancer(b2)
    BY <2>5, <2>6 DEF IsBalancer
  <2>8. ASSUME NEW x
        PROVE  CountIn(d, x) = IF x # id THEN CountIn(b.connection_counts, x) ELSE CountIn(b.connection_counts, x) + 1
    BY <2>2, <2>6 DEF CountIn
  <2> QED
    BY <1>2, <2>7, <2>8
<1> QED
  BY <1>1, <1>2

LEMMA CountedDown ==
    ASSUME NEW b, IsBalancer(b), NEW id, NEW b2, b2 = Down(b, id)
    PROVE  /\ IsBalancer(b2) /\ b2.name = b.name
           /\ b.name = "LeastConnection" =>
                \A x : CountIn(b2.connection_counts, x) =
                          IF x # id THEN CountIn(b.connection_counts, x)
                          ELSE IF CountIn(b.connection_counts, x) > 0
                          THEN CountIn(b.connection_counts, x) - 1
                          ELSE CountIn(b.connection_counts, x)
<1>1. CASE b.name # "LeastConnection"
  BY <1>1 DEF Down, UpdateStats
<1>2. CASE b.name = "LeastConnection"
  <2>1. PICK c : c = WithEntries(b.connection_counts, {id})
    OBVIOUS
  <2>2. /\ c = [x \in DOMAIN b.connection_counts \cup {id} |-> CountIn(b.connection_counts, x)]
        /\ \A x \in DOMAIN c : c[x] \in Int
    BY <2>1 DEF WithEntries, CountIn, IsBalancer
  <2>3. PICK e : e = IF c[id] > 0 THEN c[id] - 1 ELSE c[id]
    OBVIOUS
  <2>4. PICK d : d = [c EXCEPT ![id] = e]
    OBVIOUS
  <2>5. b2 = [b EXCEPT !.connection_counts = d]
    <3>1. CASE c[id] > 0
      BY <1>2, <2>1, <2>3, <2>4, <3>1 DEF Down, UpdateStats, LeastUpdateStats
    <3>2. CASE ~(c[id] > 0)
      <4>1. d = c
        BY <2>2, <2>3, <2>4, <3>2
      <4> QED
        BY <1>2, <2>1, <3>2, <4>1 DEF Down, UpdateStats, LeastUpdateStats
    <3> QED
      BY <3>1, <3>2
  <2>6. /\ DOMAIN d = DOMAIN b.connection_counts \cup {id}
        /\ \A x \in DOMAIN d : d[x] \in Int /\
              d[x] = IF x # id THEN c[x] ELSE IF c[x] > 0 THEN c[x] - 1 ELSE c[x]
    <3>1. c[id] \in Int
      BY <2>2
    <3>2. c[id] \in Int /\ e \in Int
      BY <2>3, <3>1
    <3>3. DOMAIN d = DOMAIN b.connection_counts \cup {id}
          /\ \A x \in DOMAIN d : d[x] = IF x # id THEN c[x] ELSE e
      BY <2>2, <2>4
    <3> QED
      BY <2>2, <2>3, <3>2, <3>3
  <2>7. b2.connection_counts = d /\ b2.name = b.name /\ IsBalancer(b2)
    BY <2>5, <2>6 DEF IsBalancer
  <2>8. ASSUME NEW x
        PROVE  CountIn(d, x) = IF x # id THEN CountIn(b.connection_counts, x) ELSE 
                     IF CountIn(b.connection_counts, x) > 0
                     THEN CountIn(b.connection_counts, x) - 1 ELSE CountIn(b.connection_counts, x)
    BY <2>2, <2>6 DEF CountIn
  <2> QED
    BY <1>2, <2>7, <2>8
<1> QED
  BY <1>1, <1>2

-----------------------------------------------------------------------------
(* How the steps change a call *)

(* Thread t, and no other, goes to c. *)
Goes(t, c) == th'[t] = c /\ \A u \in Threads : u # t => th'[u] = th[u]

LEMMA CallSet ==
    ASSUME CallsTyped, NEW t \in Threads, NEW at, NEW inst, NEW up,
           th' = [th EXCEPT ![t] = [at |-> at, inst |-> inst, up |-> up]]
    PROVE  CallsTyped' /\ Goes(t, [at |-> at, inst |-> inst, up |-> up])
<1>1. \A u \in Threads : th'[u] = IF u = t THEN [at |-> at, inst |-> inst, up |-> up] ELSE th[u]
  BY DEF CallsTyped
<1>2. th' = [u \in Threads |-> th'[u]]
  BY DEF CallsTyped
<1> QED
  BY <1>1, <1>2 DEF CallsTyped, Goes

LEMMA GoKeeps ==
    ASSUME CallsTyped, NEW t \in Threads, NEW at, Go(t, at)
    PROVE  CallsTyped' /\ Goes(t, [at |-> at, inst |-> th[t].inst, up |-> th[t].up])
<1>1. PICK c : c = th[t]
  OBVIOUS
<1>2. [c EXCEPT !.at = at] = [at |-> at, inst |-> th[t].inst, up |-> th[t].up]
  <2>1. c = [at |-> c.at, inst |-> c.inst, up |-> c.up]
    BY <1>1 DEF CallsTyped
  <2> QED
    BY <1>1, <2>1
<1>3. th' = [th EXCEPT ![t] = [c EXCEPT !.at = at]]
  BY <1>1 DEF Go
<1> QED
  BY <1>2, <1>3, CallSet

LEMMA ReturnKeeps ==
    ASSUME CallsTyped, NEW t \in Threads, NEW r, Return(t, r)
    PROVE  CallsTyped' /\ Goes(t, Outside)
<1>1. th' = [th EXCEPT ![t] = [at |-> "outside", inst |-> <<>>, up |-> NotCounted]]
  BY DEF Return, Outside
<1> QED
  BY <1>1, CallSet DEF Outside

(* Where the stub is for one thread, only that one is in callMethod. *)
LEMMA OnlyOne ==
    ASSUME NEW a \in Threads, Sole(a), NEW t \in Threads,
           t \in active \/ th[t].at # "outside"
    PROVE  t = a
BY DEF Sole, Outside

LEMMA StaysSole ==
    ASSUME NEW a \in Threads, Sole(a), UNCHANGED active,
           \A u \in Threads : u # a => th'[u] = th[u]
    PROVE  Sole(a)'
BY DEF Sole

(* What a step leaves alone stays as it is. *)
LEMMA QuietShapes ==
    ASSUME Shapes, UNCHANGED <<lb, stub, th, lost, active>>
    PROVE  Shapes' /\ \A a \in Threads : Sane(a) => Sane(a)'
<1>1. Shapes'
  BY DEF Shapes, StubTyped, CallsTyped, IsBalancer
<1>2. ASSUME NEW a \in Threads, Sane(a)
      PROVE  Sane(a)'
  BY <1>2 DEF Sane, Sole, Connection, Counting, CountOf, InProgress
<1> QED
  BY <1>1, <1>2

LEMMA CountingKept ==
    ASSUME NEW a \in Threads, Counting(a), UNCHANGED <<lb, lost>>,
           th'[a].up = th[a].up, th'[a].inst = th[a].inst,
           th'[a].at \in {"exchange", "uncount"} <=> th[a].at \in {"exchange", "uncount"}
    PROVE  Counting(a)'
BY DEF Counting, CountOf, InProgress

LEMMA SelectInstanceKeeps ==
    ASSUME Shapes, NEW t \in Threads, SelectInstance(t)
    PROVE  Shapes' /\ (Sane(t) => Sane(t)')
<1>1. PICK selected : selected = Select(lb, listed)
  OBVIOUS
<1>2. PICK inst : inst = selected.instance.id
  OBVIOUS
<1>3. /\ lb' = selected.b
      /\ th' = [th EXCEPT ![t] = [at |-> "test", inst |-> inst, up |-> NotCounted]]
      /\ th[t].at = "outside" /\ UNCHANGED <<stub, lost, active>>
  BY <1>1, <1>2 DEF SelectInstance, Outside, world
<1>4. /\ CallsTyped' /\ Goes(t, [at |-> "test", inst |-> inst, up |-> NotCounted])
  BY <1>3, CallSet DEF Shapes
<1>5. /\ IsBalancer(lb') /\ lb'.name = lb.name
      /\ \A id : CountIn(lb'.connection_counts, id) = CountIn(lb.connection_counts, id)
  BY <1>1, <1>3, SelectKeeps DEF Shapes
<1>6. Shapes'
  BY <1>3, <1>4, <1>5 DEF Shapes, StubTyped
<1>7. ASSUME Sane(t)
      PROVE  Sane(t)'
  <2>1. Sole(t)'
    BY <1>3, <1>4, <1>7, StaysSole DEF Sane, Goes
  <2>2. Connection(t)'
    BY <1>3, <1>4, <1>7 DEF Sane, Connection, Goes, Sending
  <2>3. Counting(t)'
    <3>1. \A id \in Ids : CountOf(id)' = CountOf(id)
      BY <1>5, CountIs DEF CountOf, WithEntries, CountIn
    <3>2. th'[t].at = "test" /\ th'[t].up = NotCounted
      BY <1>4 DEF Goes
    <3> QED
      BY <1>3, <1>5, <1>7, <3>1, <3>2 DEF Sane, Counting, InProgress, NotCounted
  <2> QED
    BY <2>1, <2>2, <2>3 DEF Sane
<1> QED
  BY <1>6, <1>7

LEMMA TestKeeps ==
    ASSUME Shapes, NEW t \in Threads, Test(t)
    PROVE  Shapes' /\ (Sane(t) => Sane(t)')
<1>1. PICK at : at = IF Stays(t) THEN "count" ELSE "disconnect"
  OBVIOUS
<1>2. th[t].at = "test" /\ Go(t, at) /\ UNCHANGED <<lb, stub, lost, active>>
  BY <1>1 DEF Test, world
<1>3. CallsTyped' /\ Goes(t, [at |-> at, inst |-> th[t].inst, up |-> th[t].up])
  BY <1>2, GoKeeps DEF Shapes
<1>4. Shapes'
  BY <1>2, <1>3 DEF Shapes, StubTyped, IsBalancer
<1>5. ASSUME Sane(t)
      PROVE  Sane(t)'
  <2>1. Sole(t)'
    BY <1>2, <1>3, <1>5, StaysSole DEF Sane, Goes
  <2>2. at = "count" => stub.connected /\ stub.current = <<th[t].inst>>
    BY <1>1 DEF Stays
  <2>3. at \in {"count", "disconnect"}
    BY <1>1
  <2>4. Connection(t)'
    BY <1>2, <1>3, <1>5, <2>2, <2>3 DEF Sane, Connection, Goes, Sending
  <2>5. Counting(t)'
    BY <1>2, <1>3, <1>5, <2>3, CountingKept DEF Sane, Goes
  <2> QED
    BY <2>1, <2>4, <2>5 DEF Sane
<1> QED
  BY <1>4, <1>5

(* A stub that becomes a given record is typed. *)
LEMMA StubSet ==
    ASSUME NEW tcp, NEW connected \in BOOLEAN, NEW current,
           stub' = [tcp |-> tcp, connected |-> connected, current |-> current],
           tcp # NoTcp => tcp = <<[id |-> tcp[1].id, open |-> tcp[1].open]>>
    PROVE  StubTyped'
BY DEF StubTyped

LEMMA DisconnectedIs ==
    ASSUME StubTyped
    PROVE  Disconnected = [tcp |-> NoTcp, connected |-> FALSE, current |-> stub.current]
<1>1. PICK s : s = stub
  OBVIOUS
<1>2. s = [tcp |-> s.tcp, connected |-> s.connected, current |-> s.current]
  BY <1>1 DEF StubTyped
<1>3. PICK m : m = [s EXCEPT !.tcp = NoTcp, !.connected = FALSE]
  OBVIOUS
<1>4. m = [tcp |-> NoTcp, connected |-> FALSE, current |-> s.current]
  BY <1>2, <1>3
<1> QED
  BY <1>1, <1>3, <1>4 DEF Disconnected

LEMMA DisconnectOldKeeps ==
    ASSUME Shapes, NEW t \in Threads, DisconnectOld(t)
    PROVE  Shapes' /\ (Sane(t) => Sane(t)')
<1>1. /\ th[t].at = "disconnect" /\ Go(t, "connect") /\ UNCHANGED <<lb, lost, active>>
      /\ stub' = [tcp |-> NoTcp, connected |-> FALSE, current |-> stub.current]
  BY DisconnectedIs DEF DisconnectOld, world, Shapes
<1>2. CallsTyped' /\ Goes(t, [at |-> "connect", inst |-> th[t].inst, up |-> th[t].up])
  BY <1>1, GoKeeps DEF Shapes
<1>3. StubTyped'
  BY <1>1, StubSet
<1>4. Shapes'
  BY <1>1, <1>2, <1>3 DEF Shapes, IsBalancer
<1>5. ASSUME Sane(t)
      PROVE  Sane(t)'
  <2>1. Sole(t)'
    BY <1>1, <1>2, <1>5, StaysSole DEF Sane, Goes
  <2>2. Connection(t)'
    BY <1>1, <1>2, <1>5 DEF Sane, Connection, Goes, Sending
  <2>3. Counting(t)'
    BY <1>1, <1>2, <1>5, CountingKept DEF Sane, Goes
  <2> QED
    BY <2>1, <2>2, <2>3 DEF Sane
<1> QED
  BY <1>4, <1>5

LEMMA ConnectToInstanceKeeps ==
    ASSUME Shapes, NEW t \in Threads, ConnectToInstance(t)
    PROVE  Shapes' /\ (Sane(t) => Sane(t)')
<1>1. PICK s : s = stub
  OBVIOUS
<1>2. PICK tcp : tcp = <<[id |-> th[t].inst, open |-> TRUE]>>
  OBVIOUS
<1>3. s = [tcp |-> s.tcp, connected |-> s.connected, current |-> s.current]
  BY <1>1 DEF Shapes, StubTyped
<1>4. PICK m : m = [s EXCEPT !.tcp = tcp, !.connected = TRUE]
  OBVIOUS
<1>5. m = [tcp |-> tcp, connected |-> TRUE, current |-> s.current]
  BY <1>3, <1>4
<1>6. /\ th[t].at = "connect" /\ Go(t, "current") /\ UNCHANGED <<lb, lost, active>>
      /\ stub' = [tcp |-> tcp, connected |-> TRUE, current |-> stub.current]
  BY <1>1, <1>2, <1>4, <1>5 DEF ConnectToInstance, world
<1>7. CallsTyped' /\ Goes(t, [at |-> "current", inst |-> th[t].inst, up |-> th[t].up])
  BY <1>6, GoKeeps DEF Shapes
<1>8. tcp = <<[id |-> tcp[1].id, open |-> tcp[1].open]>> /\ tcp[1].id = th[t].inst
  BY <1>2
<1>9. StubTyped'
  BY <1>6, <1>8, StubSet
<1>10. Shapes'
  BY <1>6, <1>7, <1>9 DEF Shapes, IsBalancer
<1>11. ASSUME Sane(t)
       PROVE  Sane(t)'
  <2>1. Sole(t)'
    BY <1>6, <1>7, <1>11, StaysSole DEF Sane, Goes
  <2>2. Connection(t)'
    BY <1>6, <1>7, <1>8 DEF Connection, Goes, Sending
  <2>3. Counting(t)'
    BY <1>6, <1>7, <1>11, CountingKept DEF Sane, Goes
  <2> QED
    BY <2>1, <2>2, <2>3 DEF Sane
<1> QED
  BY <1>10, <1>11

(* From anywhere before the call is counted, a thread may leave. *)
LEMMA LeavesUncounted ==
    ASSUME NEW t \in Threads, Counting(t), UNCHANGED <<lb, lost>>,
           th'[t] = Outside, th[t].at \notin {"exchange", "uncount"}
    PROVE  Counting(t)'
<1>1. th'[t].at = "outside" /\ th'[t].up = NotCounted
  BY DEF Outside
<1>2. lb.name = "LeastConnection" => th[t].up = NotCounted
  BY DEF Counting
<1>3. lb.name = "LeastConnection" => \A id \in Ids : InProgress(t, id)' = InProgress(t, id)
  BY <1>1, <1>2 DEF InProgress
<1> QED
  BY <1>1, <1>3 DEF Counting, CountOf

LEMMA ConnectToInstanceFailsKeeps ==
    ASSUME Shapes, NEW t \in Threads, ConnectToInstanceFails(t)
    PROVE  Shapes' /\ (Sane(t) => Sane(t)')
<1>1. PICK s : s = stub
  OBVIOUS
<1>2. PICK tcp : tcp = <<[id |-> th[t].inst, open |-> FALSE]>>
  OBVIOUS
<1>3. s = [tcp |-> s.tcp, connected |-> s.connected, current |-> s.current]
  BY <1>1 DEF Shapes, StubTyped
<1>4. [s EXCEPT !.tcp = tcp] = [tcp |-> tcp, connected |-> s.connected, current |-> s.current]
  BY <1>3
<1>5. /\ th[t].at = "connect" /\ Return(t, "false") /\ UNCHANGED <<lb, lost, active>>
      /\ stub' = [tcp |-> tcp, connected |-> stub.connected, current |-> stub.current]
  BY <1>1, <1>2, <1>4 DEF ConnectToInstanceFails, world
<1>6. CallsTyped' /\ Goes(t, Outside)
  BY <1>5, ReturnKeeps DEF Shapes
<1>7. tcp = <<[id |-> tcp[1].id, open |-> tcp[1].open]>>
  BY <1>2
<1>8. StubTyped'
  BY <1>5, <1>7, StubSet DEF Shapes, StubTyped
<1>9. Shapes'
  BY <1>5, <1>6, <1>8 DEF Shapes, IsBalancer
<1>10. ASSUME Sane(t)
       PROVE  Sane(t)'
  <2>1. Sole(t)'
    BY <1>5, <1>6, <1>10, StaysSole DEF Sane, Goes
  <2>2. Connection(t)'
    BY <1>5, <1>6, <1>10 DEF Sane, Connection, Goes, Sending, Outside
  <2>3. Counting(t)'
    BY <1>5, <1>6, <1>10, LeavesUncounted DEF Sane, Goes
  <2> QED
    BY <2>1, <2>2, <2>3 DEF Sane
<1> QED
  BY <1>9, <1>10

LEMMA SetCurrentKeeps ==
    ASSUME Shapes, NEW t \in Threads, SetCurrent(t)
    PROVE  Shapes' /\ (Sane(t) => Sane(t)')
<1>1. PICK s : s = stub
  OBVIOUS
<1>2. PICK cur : cur = <<th[t].inst>>
  OBVIOUS
<1>3. s = [tcp |-> s.tcp, connected |-> s.connected, current |-> s.current]
  BY <1>1 DEF Shapes, StubTyped
<1>4. [s EXCEPT !.current = cur] = [tcp |-> s.tcp, connected |-> s.connected, current |-> cur]
  BY <1>3
<1>5. /\ th[t].at = "current" /\ Go(t, "count") /\ UNCHANGED <<lb, lost, active>>
      /\ stub' = [tcp |-> stub.tcp, connected |-> stub.connected, current |-> <<th[t].inst>>]
  BY <1>1, <1>2, <1>4 DEF SetCurrent, world
<1>6. CallsTyped' /\ Goes(t, [at |-> "count", inst |-> th[t].inst, up |-> th[t].up])
  BY <1>5, GoKeeps DEF Shapes
<1>7. StubTyped'
  BY <1>5, StubSet DEF Shapes, StubTyped
<1>8. Shapes'
  BY <1>5, <1>6, <1>7 DEF Shapes, IsBalancer
<1>9. ASSUME Sane(t)
      PROVE  Sane(t)'
  <2>1. Sole(t)'
    BY <1>5, <1>6, <1>9, StaysSole DEF Sane, Goes
  <2>2. Connection(t)'
    BY <1>5, <1>6, <1>9 DEF Sane, Connection, Goes, Sending
  <2>3. Counting(t)'
    BY <1>5, <1>6, <1>9, CountingKept DEF Sane, Goes
  <2> QED
    BY <2>1, <2>2, <2>3 DEF Sane
<1> QED
  BY <1>8, <1>9

(* What updateStats is told is what the thread was connected to. *)
LEMMA CountUpKeeps ==
    ASSUME Shapes, NEW t \in Threads, CountUp(t)
    PROVE  Shapes' /\ (Sane(t) => Sane(t)')
<1>1. PICK up : up = IF lb.name = "LeastConnection" THEN stub.current ELSE NotCounted
  OBVIOUS
<1>2. PICK c : c = th[t]
  OBVIOUS
<1>3. c = [at |-> c.at, inst |-> c.inst, up |-> c.up]
  BY <1>2 DEF Shapes, CallsTyped
<1>4. PICK m : m = [c EXCEPT !.at = "exchange", !.up = up]
  OBVIOUS
<1>5. m = [at |-> "exchange", inst |-> c.inst, up |-> up]
  BY <1>3, <1>4
<1>6. th' = [th EXCEPT ![t] = m]
  BY <1>1, <1>2, <1>4 DEF CountUp, Shapes, CallsTyped
<1>7. /\ th[t].at = "count" /\ UNCHANGED <<stub, lost, active>>
      /\ lb' = Up(lb, stub.current[1])
  BY DEF Up, CountUp, Counted, world
<1>8. CallsTyped' /\ Goes(t, [at |-> "exchange", inst |-> th[t].inst, up |-> up])
  BY <1>2, <1>5, <1>6, CallSet DEF Shapes
<1>9. PICK inst : inst = stub.current[1]
  OBVIOUS
<1>10. /\ IsBalancer(lb') /\ lb'.name = lb.name
       /\ lb.name = "LeastConnection" =>
             \A x : CountIn(lb'.connection_counts, x) =
                       IF x # inst THEN CountIn(lb.connection_counts, x)
                       ELSE CountIn(lb.connection_counts, x) + 1
  BY <1>7, <1>9, CountedUp DEF Shapes
<1>11. Shapes'
  BY <1>7, <1>8, <1>10 DEF Shapes, StubTyped
<1>12. ASSUME Sane(t)
       PROVE  Sane(t)'
  <2>1. Sole(t)'
    BY <1>7, <1>8, <1>12, StaysSole DEF Sane, Goes
  <2>2. stub.current = <<th[t].inst>> /\ inst = th[t].inst
    BY <1>7, <1>9, <1>12 DEF Sane, Connection, Sending
  <2>3. Connection(t)'
    BY <1>7, <1>8, <1>12 DEF Sane, Connection, Goes, Sending
  <2>4. Counting(t)'
    <3> SUFFICES ASSUME lb.name = "LeastConnection"
                 PROVE  Counting(t)'
      BY <1>10 DEF Counting
    <3>1. th'[t].at = "exchange" /\ th'[t].inst = inst /\ th'[t].up = <<inst>>
      BY <1>1, <1>8, <2>2 DEF Goes
    <3>2. th[t].up = NotCounted /\ \A id \in Ids : CountOf(id) = InProgress(t, id) + lost[id]
      BY <1>7, <1>12 DEF Sane, Counting
    <3>3. ASSUME NEW id \in Ids
          PROVE  CountOf(id)' = InProgress(t, id)' + lost'[id]
      <4>1. InProgress(t, id) = 0
        BY <3>2 DEF InProgress, NotCounted
      <4>2. InProgress(t, id)' = IF id = inst THEN 1 ELSE 0
        BY <3>1 DEF InProgress
      <4>3. CountOf(id)' = IF id # inst THEN CountOf(id) ELSE CountOf(id) + 1
        BY <1>10 DEF CountOf, WithEntries, CountIn
      <4>4. CountOf(id) = lost[id] /\ lost[id] \in Nat /\ lost'[id] = lost[id]
        BY <1>7, <3>2, <4>1 DEF Shapes
      <4> QED
        BY <4>2, <4>3, <4>4
    <3> QED
      BY <3>1, <3>3 DEF Counting
  <2> QED
    BY <2>1, <2>3, <2>4 DEF Sane
<1> QED
  BY <1>11, <1>12

LEMMA ExchangeKeeps ==
    ASSUME Shapes, NEW t \in Threads, Exchange(t)
    PROVE  Shapes' /\ (Sane(t) => Sane(t)')
<1>1. th[t].at = "exchange" /\ Go(t, "uncount") /\ UNCHANGED <<lb, stub, lost, active>>
  BY DEF Exchange, world
<1>2. CallsTyped' /\ Goes(t, [at |-> "uncount", inst |-> th[t].inst, up |-> th[t].up])
  BY <1>1, GoKeeps DEF Shapes
<1>3. Shapes'
  BY <1>1, <1>2 DEF Shapes, StubTyped, IsBalancer
<1>4. ASSUME Sane(t)
      PROVE  Sane(t)'
  <2>1. Sole(t)'
    BY <1>1, <1>2, <1>4, StaysSole DEF Sane, Goes
  <2>2. Connection(t)'
    BY <1>1, <1>2, <1>4 DEF Sane, Connection, Goes, Sending
  <2>3. Counting(t)'
    BY <1>1, <1>2, <1>4, CountingKept DEF Sane, Goes
  <2> QED
    BY <2>1, <2>2, <2>3 DEF Sane
<1> QED
  BY <1>3, <1>4

(* A call that fails stays counted, as lost. *)
LEMMA ExchangeFailsKeeps ==
    ASSUME Shapes, NEW t \in Threads, ExchangeFails(t)
    PROVE  Shapes' /\ (Sane(t) => Sane(t)')
<1>1. /\ th[t].at = "exchange" /\ Return(t, "false") /\ UNCHANGED <<lb, stub, active>>
      /\ lost' = IF th[t].up = NotCounted THEN lost ELSE [lost EXCEPT ![th[t].up[1]] = @ + 1]
  BY DEF ExchangeFails
<1>2. CallsTyped' /\ Goes(t, Outside)
  BY <1>1, ReturnKeeps DEF Shapes
<1>3. lost' \in [Ids -> Nat]
  <2>1. PICK x : x = th[t].up[1]
    OBVIOUS
  <2>2. CASE x \in Ids
    <3>1. lost[x] + 1 \in Nat
      BY <2>2 DEF Shapes
    <3> QED
      BY <1>1, <2>1, <3>1 DEF Shapes
  <2>3. CASE x \notin Ids
    BY <1>1, <2>1, <2>3 DEF Shapes
  <2> QED
    BY <2>2, <2>3
<1>4. Shapes'
  BY <1>1, <1>2, <1>3 DEF Shapes, StubTyped, IsBalancer
<1>5. ASSUME Sane(t)
      PROVE  Sane(t)'
  <2>1. Sole(t)'
    BY <1>1, <1>2, <1>5, StaysSole DEF Sane, Goes
  <2>2. Connection(t)'
    BY <1>1, <1>2, <1>5 DEF Sane, Connection, Goes, Sending, Outside
  <2>3. Counting(t)'
    <3> SUFFICES ASSUME lb.name = "LeastConnection"
                 PROVE  Counting(t)'
      BY <1>1 DEF Counting
    <3>1. th'[t].at = "outside" /\ th'[t].up = NotCounted
      BY <1>2 DEF Goes, Outside
    <3>2. PICK inst : inst = th[t].inst
      OBVIOUS
    <3>3. th[t].up = <<inst>> /\ \A id \in Ids : CountOf(id) = InProgress(t, id) + lost[id]
      BY <1>1, <1>5, <3>2 DEF Sane, Counting
    <3>4. lost' = [lost EXCEPT ![inst] = @ + 1]
      BY <1>1, <3>3 DEF NotCounted
    <3>5. ASSUME NEW id \in Ids
          PROVE  CountOf(id)' = InProgress(t, id)' + lost'[id]
      <4>1. InProgress(t, id)' = 0
        BY <3>1 DEF InProgress, NotCounted
      <4>2. InProgress(t, id) = IF id = inst THEN 1 ELSE 0
        BY <3>3 DEF InProgress
      <4>3. CountOf(id)' = CountOf(id)
        BY <1>1 DEF CountOf
      <4>4. lost[id] \in Nat /\ lost'[id] = IF id = inst THEN lost[id] + 1 ELSE lost[id]
        BY <3>4 DEF Shapes
      <4> QED
        BY <3>3, <4>1, <4>2, <4>3, <4>4
    <3> QED
      BY <3>1, <3>5 DEF Counting
  <2> QED
    BY <2>1, <2>2, <2>3 DEF Sane
<1> QED
  BY <1>4, <1>5

LEMMA CountDownKeeps ==
    ASSUME Shapes, NEW t \in Threads, CountDown(t)
    PROVE  Shapes' /\ (Sane(t) => Sane(t)')
<1>1. /\ th[t].at = "uncount" /\ Return(t, "true") /\ UNCHANGED <<stub, lost, active>>
      /\ lb' = Down(lb, stub.current[1])
  BY DEF Down, CountDown, world
<1>2. CallsTyped' /\ Goes(t, Outside)
  BY <1>1, ReturnKeeps DEF Shapes
<1>3. PICK inst : inst = stub.current[1]
  OBVIOUS
<1>4. /\ IsBalancer(lb') /\ lb'.name = lb.name
      /\ lb.name = "LeastConnection" =>
            \A x : CountIn(lb'.connection_counts, x) =
                      IF x # inst THEN CountIn(lb.connection_counts, x)
                      ELSE IF CountIn(lb.connection_counts, x) > 0
                      THEN CountIn(lb.connection_counts, x) - 1
                      ELSE CountIn(lb.connection_counts, x)
  BY <1>1, <1>3, CountedDown DEF Shapes
<1>5. Shapes'
  BY <1>1, <1>2, <1>4 DEF Shapes, StubTyped
<1>6. ASSUME Sane(t)
      PROVE  Sane(t)'
  <2>1. Sole(t)'
    BY <1>1, <1>2, <1>6, StaysSole DEF Sane, Goes
  <2>2. Connection(t)'
    BY <1>1, <1>2, <1>6 DEF Sane, Connection, Goes, Sending, Outside
  <2>3. Counting(t)'
    <3> SUFFICES ASSUME lb.name = "LeastConnection"
                 PROVE  Counting(t)'
      BY <1>4 DEF Counting
    <3>1. th'[t].at = "outside" /\ th'[t].up = NotCounted
      BY <1>2 DEF Goes, Outside
    <3>2. stub.current = <<th[t].inst>> /\ inst = th[t].inst
      BY <1>1, <1>3, <1>6 DEF Sane, Connection, Sending
    <3>3. th[t].up = <<inst>> /\ \A id \in Ids : CountOf(id) = InProgress(t, id) + lost[id]
      BY <1>1, <1>6, <3>2 DEF Sane, Counting
    <3>4. ASSUME NEW id \in Ids
          PROVE  CountOf(id)' = InProgress(t, id)' + lost'[id]
      <4>1. InProgress(t, id)' = 0
        BY <3>1 DEF InProgress, NotCounted
      <4>2. InProgress(t, id) = IF id = inst THEN 1 ELSE 0
        BY <3>3 DEF InProgress
      <4>3. CountOf(id)' = IF id # inst THEN CountOf(id)
                           ELSE IF CountOf(id) > 0 THEN CountOf(id) - 1 ELSE CountOf(id)
        BY <1>4 DEF CountOf, WithEntries, CountIn
      <4>4. lost[id] \in Nat /\ lost'[id] = lost[id]
        BY <1>1 DEF Shapes
      <4> QED
        BY <3>3, <4>1, <4>2, <4>3, <4>4
    <3> QED
      BY <3>1, <3>4 DEF Counting
  <2> QED
    BY <2>1, <2>2, <2>3 DEF Sane
<1> QED
  BY <1>5, <1>6

-----------------------------------------------------------------------------
(* The application, the servers and the registry *)

(* The stub changes, the calls do not. *)
LEMMA StubChanges ==
    ASSUME Shapes, StubTyped', UNCHANGED <<lb, th, lost, active>>,
           stub'.current = stub.current,
           stub'.connected = stub.connected \/ stub'.connected = FALSE,
           stub'.tcp # NoTcp => stub.tcp # NoTcp /\ stub'.tcp[1].id = stub.tcp[1].id
    PROVE  Shapes' /\ \A a \in Threads : Sane(a) => Sane(a)'
<1>1. Shapes'
  BY DEF Shapes, CallsTyped, IsBalancer
<1>2. ASSUME NEW a \in Threads, Sane(a)
      PROVE  Sane(a)'
  <2>1. Sole(a)'
    BY <1>2 DEF Sane, Sole
  <2>2. Connection(a)'
    BY <1>2 DEF Sane, Connection, Sending, Shapes, StubTyped
  <2>3. Counting(a)'
    BY <1>2, CountingKept DEF Sane
  <2> QED
    BY <2>1, <2>2, <2>3 DEF Sane
<1> QED
  BY <1>1, <1>2

LEMMA DisconnectKeeps ==
    ASSUME Shapes, Disconnect
    PROVE  Shapes' /\ \A a \in Threads : Sane(a) => Sane(a)'
<1>1. /\ UNCHANGED <<lb, th, lost, active>>
      /\ stub' = [tcp |-> NoTcp, connected |-> FALSE, current |-> stub.current]
  BY DisconnectedIs DEF Disconnect, Shapes
<1>2. StubTyped'
  BY <1>1, StubSet
<1> QED
  BY <1>1, <1>2, StubChanges

LEMMA ServerStopsKeeps ==
    ASSUME Shapes, NEW id \in Ids, ServerStops(id)
    PROVE  Shapes' /\ \A a \in Threads : Sane(a) => Sane(a)'
<1>1. UNCHANGED <<lb, th, lost, active>>
  BY DEF ServerStops
<1>2. CASE Usable /\ stub.tcp[1].id = id
  <2>1. PICK s : s = stub
    OBVIOUS
  <2>2. s = [tcp |-> s.tcp, connected |-> s.connected, current |-> s.current] /\ s.tcp # NoTcp
    BY <1>2, <2>1 DEF Shapes, StubTyped, Usable
  <2>3. PICK c : c = s.tcp[1]
    OBVIOUS
  <2>4. c = [id |-> c.id, open |-> c.open] /\ s.tcp = <<c>>
    <3>1. s.tcp = <<[id |-> c.id, open |-> c.open]>>
      BY <2>1, <2>2, <2>3 DEF Shapes, StubTyped
    <3> QED
      BY <2>3, <3>1
  <2>5. PICK m : m = [c EXCEPT !.open = FALSE]
    OBVIOUS
  <2>6. m = [id |-> c.id, open |-> FALSE]
    BY <2>4, <2>5
  <2>7. PICK tcp : tcp = [s.tcp EXCEPT ![1] = m]
    OBVIOUS
  <2>8. tcp = <<m>>
    BY <2>4, <2>7
  <2>9. PICK s2 : s2 = [s EXCEPT !.tcp = tcp]
    OBVIOUS
  <2>10. s2 = [tcp |-> tcp, connected |-> s.connected, current |-> s.current]
    BY <2>2, <2>9
  <2>11. stub' = [s EXCEPT !.tcp[1].open = FALSE]
    BY <1>2, <2>1 DEF ServerStops
  <2>12. stub' = s2
    BY <2>3, <2>5, <2>7, <2>9, <2>11
  <2>13. tcp = <<[id |-> tcp[1].id, open |-> tcp[1].open]>> /\ tcp[1].id = s.tcp[1].id
    BY <2>3, <2>6, <2>8
  <2>14. StubTyped'
    BY <2>1, <2>10, <2>12, <2>13, StubSet DEF Shapes, StubTyped
  <2> QED
    BY <1>1, <2>1, <2>2, <2>10, <2>12, <2>13, <2>14, StubChanges
<1>3. CASE ~(Usable /\ stub.tcp[1].id = id)
  <2>1. stub' = stub
    BY <1>3 DEF ServerStops
  <2> QED
    BY <1>1, <2>1, QuietShapes
<1> QED
  BY <1>2, <1>3

-----------------------------------------------------------------------------
(* The invariant *)

LEMMA CallKeeps ==
    ASSUME Shapes, NEW t \in Threads, CallMethod(t)
    PROVE  Shapes' /\ (Sane(t) => Sane(t)')
<1>1. CASE SelectInstance(t)
  BY <1>1, SelectInstanceKeeps
<1>2. CASE SelectInstanceThrows(t)
  BY <1>2, QuietShapes DEF SelectInstanceThrows, world
<1>3. CASE Test(t)
  BY <1>3, TestKeeps
<1>4. CASE DisconnectOld(t)
  BY <1>4, DisconnectOldKeeps
<1>5. CASE ConnectToInstance(t)
  BY <1>5, ConnectToInstanceKeeps
<1>6. CASE ConnectToInstanceFails(t)
  BY <1>6, ConnectToInstanceFailsKeeps
<1>7. CASE SetCurrent(t)
  BY <1>7, SetCurrentKeeps
<1>8. CASE CountUp(t)
  BY <1>8, CountUpKeeps
<1>9. CASE Exchange(t)
  BY <1>9, ExchangeKeeps
<1>10. CASE ExchangeFails(t)
  BY <1>10, ExchangeFailsKeeps
<1>11. CASE CountDown(t)
  BY <1>11, CountDownKeeps
<1> QED
  BY <1>1, <1>2, <1>3, <1>4, <1>5, <1>6, <1>7, <1>8, <1>9, <1>10, <1>11 DEF CallMethod

LEMMA CallerIsInside ==
    ASSUME NEW t \in Threads, CallMethod(t)
    PROVE  (t \in active \/ th[t].at # "outside") /\ UNCHANGED active
BY DEF CallMethod, SelectInstance, SelectInstanceThrows, Test, DisconnectOld, ConnectToInstance,
       ConnectToInstanceFails, SetCurrent, CountUp, Exchange, ExchangeFails, CountDown, world

LEMMA NextKeeps ==
    ASSUME Inv, [Next]_vars
    PROVE  Inv'
<1>1. CASE \E t \in Threads : CallMethod(t)
  <2>1. PICK t \in Threads : CallMethod(t)
    BY <1>1
  <2>2. Shapes' /\ (Sane(t) => Sane(t)')
    BY <2>1, CallKeeps DEF Inv
  <2>3. ASSUME NEW a \in Threads, active' = {a}
        PROVE  Sane(a)'
    <3>1. active = {a} /\ Sane(a)
      BY <2>1, <2>3, CallerIsInside DEF Inv
    <3>2. t = a
      BY <2>1, <3>1, CallerIsInside, OnlyOne DEF Sane
    <3> QED
      BY <2>2, <3>1, <3>2
  <2> QED
    BY <2>2, <2>3 DEF Inv
<1>2. CASE ~\E t \in Threads : CallMethod(t)
  <2>1. CASE Disconnect
    BY <2>1, DisconnectKeeps DEF Inv, Disconnect
  <2>2. ASSUME NEW id \in Ids, ServerStops(id)
        PROVE  Inv'
    BY <2>2, ServerStopsKeeps DEF Inv, ServerStops
  <2>3. ASSUME NEW id \in Ids, ServerStarts(id)
        PROVE  Inv'
    BY <2>3, QuietShapes DEF Inv, ServerStarts
  <2>4. ASSUME NEW list \in Lists, RegistryAnswers(list)
        PROVE  Inv'
    BY <2>4, QuietShapes DEF Inv, RegistryAnswers
  <2>5. CASE UNCHANGED vars
    BY <2>5, QuietShapes DEF Inv, vars
  <2> QED
    BY <1>2, <2>1, <2>2, <2>3, <2>4, <2>5 DEF Next
<1> QED
  BY <1>1, <1>2

LEMMA InitInv == Init => Inv
<1> SUFFICES ASSUME Init
             PROVE  Inv
  OBVIOUS
<1>1. PICK name \in Names : lb = Create(name, <<>>, 0)
  BY DEF Init
<1>2. PICK kind : kind = IF name \in DOMAIN Creators THEN Creators[name]
                         ELSE Creators["round_robin"]
  OBVIOUS
<1>3. kind \in {"RoundRobin", "WeightedRoundRobin", "LeastConnection", "ConsistentHash"}
  BY <1>2 DEF Creators
<1>4. lb.name = kind /\ lb.connection_counts = <<>>
  BY <1>1, <1>2 DEF Create, NewBalancer
<1>5. IsBalancer(lb)
  BY <1>1, <1>2, <1>3 DEF Create, NewBalancer, IsBalancer
<1>6. Shapes
  BY <1>5 DEF Init, Shapes, StubTyped, CallsTyped, Outside
<1>7. ASSUME NEW a \in Threads, active = {a}
      PROVE  Sane(a)
  <2>1. th[a].at = "outside" /\ th[a].up = NotCounted
    BY DEF Init, Outside
  <2>2. Sole(a)
    BY <1>7 DEF Init, Sole
  <2>3. Connection(a)
    BY <2>1 DEF Init, Connection, Sending
  <2>4. \A id \in Ids : CountOf(id) = 0 /\ InProgress(a, id) = 0 /\ lost[id] = 0
    BY <1>4, <2>1, CountIs DEF Init, CountIn, InProgress, NotCounted
  <2> QED
    BY <2>1, <2>2, <2>3, <2>4 DEF Sane, Counting
<1> QED
  BY <1>6, <1>7 DEF Inv

LEMMA Invariance == Spec => []Inv
BY InitInv, NextKeeps, PTL DEF Spec

(* A set of one thread that is used is that of one thread. *)
LEMMA OneAlone ==
    ASSUME Inv, Alone
    PROVE  \E a \in Threads : active = {a} /\ Sane(a)
<1>1. IsFiniteSet(active) /\ active \subseteq Threads
  BY ThreadsAssumption, FS_Subset DEF Inv, Shapes
<1>2. \E a : active = {a}
  BY <1>1, FS_Singleton DEF Alone
<1> QED
  BY <1>1, <1>2 DEF Inv

-----------------------------------------------------------------------------
(* Theorems *)

(* Whatever servers stop and come back, whatever the registry answers and  *)
(* the balancer selects, a request of a thread that has the stub for       *)
(* itself goes to the instance selected for it: connected_, tcp_client_    *)
(* and current_instance_id_ never agree on another (rpc_client.cpp:50-63). *)
THEOREM DiscoverySentToSelected == Spec => []SentToSelected
<1>1. Inv => SentToSelected
  <2> SUFFICES ASSUME Inv, NEW t \in Threads, Alone, th[t].at = "exchange", stub.tcp # NoTcp
               PROVE  stub.tcp[1].id = th[t].inst
    BY DEF SentToSelected
  <2>1. PICK a \in Threads : Sane(a)
    BY OneAlone
  <2>2. t = a
    BY <2>1, OnlyOne DEF Sane
  <2> QED
    BY <2>1, <2>2 DEF Sane, Connection, Sending
<1> QED
  BY <1>1, Invariance, PTL

(* The count that the least-connections balancer keeps of an instance is   *)
(* the number of calls in progress there and of those that failed there,   *)
(* exactly, for as long as the stub lives (rpc_client.cpp:62,105,113).     *)
THEOREM DiscoveryCountsOpenAndLost == Spec => []CountsOpenAndLost
<1>1. Inv => CountsOpenAndLost
  <2> SUFFICES ASSUME Inv, Alone, lb.name = "LeastConnection", NEW id \in Ids
               PROVE  CountOf(id) = Open(id) + lost[id]
    BY DEF CountsOpenAndLost
  <2>1. PICK a \in Threads : Sane(a)
    BY OneAlone
  <2>2. CountOf(id) = InProgress(a, id) + lost[id]
    BY <2>1 DEF Sane, Counting
  <2>3. \A t \in Threads : t # a => th[t].up # <<id>>
    <3>1. \A t \in Threads : t # a => th[t] = Outside
      BY <2>1 DEF Sane, Sole
    <3>2. Outside.up = NotCounted /\ NotCounted # <<id>>
      BY DEF Outside, NotCounted
    <3> QED
      BY <3>1, <3>2
  <2>4. Open(id) = InProgress(a, id)
    <3>1. CASE th[a].up = <<id>>
      <4>1. {t \in Threads : th[t].up = <<id>>} = {a}
        BY <2>3, <3>1
      <4> QED
        BY <3>1, <4>1, FS_Singleton DEF Open, InProgress
    <3>2. CASE th[a].up # <<id>>
      <4>1. {t \in Threads : th[t].up = <<id>>} = {}
        BY <2>3, <3>2
      <4> QED
        BY <3>2, <4>1, FS_EmptySet DEF Open, InProgress
    <3> QED
      BY <3>1, <3>2
  <2> QED
    BY <2>2, <2>4
<1> QED
  BY <1>1, Invariance, PTL
=============================================================================
