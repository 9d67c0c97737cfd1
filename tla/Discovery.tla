------------------------------ MODULE Discovery ------------------------------
(***************************************************************************)
(* RpcClientStubImpl in discovery mode: callMethod asks the registry, lets *)
(* the load balancer choose, connects if the choice is not what it is      *)
(* connected to, and counts the call for the least-connections balancer    *)
(* (src/src/core/rpc_client.cpp).  The exchange of request and response,   *)
(* which holds the stub's mutex, is one step here; its inside is RpcClient.*)
(***************************************************************************)
EXTENDS LoadBalancers

CONSTANTS
    Threads,       \* application threads that share the stub
    ThreadSets,    \* which of them are used
    Ids,           \* addresses of servers
    Lists,         \* what the registry may answer
    Names,         \* the configured balancers
    MaxChanges,    \* bound on stops and restarts of servers and new lists
    MaxRestarts,   \* bound on restarts alone
    MaxFaults,     \* bound on timeouts, and on disconnect() by the application
    MaxLost        \* bound on failed calls that stay counted

ASSUME ThreadsAssumption == IsFiniteSet(Threads) /\ ThreadSets \subseteq SUBSET Threads

VARIABLES
    lb,       \* load_balancer_
    listed,   \* what the registry answers
    alive,    \* the servers that run
    stub,     \* tcp_client_, connected_, current_instance_id_
    active,   \* the threads in use, fixed
    th,       \* per thread: where it is in callMethod
    result,   \* per thread: what its last call returned
    lost,     \* per id: failed calls that updateStats was not told of
    count     \* changes, restarts and faults so far

vars == <<lb, listed, alive, stub, active, th, result, lost, count>>

NoTcp == <<>>
NotCounted == <<>>
Outside == [at |-> "outside", inst |-> <<>>, up |-> NotCounted]

Init ==
    /\ \E name \in Names : lb = Create(name, <<>>, 0)
    /\ listed \in Lists
    /\ alive = Ids
    /\ stub = [tcp |-> NoTcp, connected |-> FALSE, current |-> <<>>]
    /\ active \in ThreadSets
    /\ th = [t \in Threads |-> Outside]
    /\ result = [t \in Threads |-> "none"]
    /\ lost = [id \in Ids |-> 0]
    /\ count = [changes |-> 0, restarts |-> 0, faults |-> 0]

world == <<listed, alive, active, count>>

Total(f) == SumTo(Cardinality(Ids), [k \in 1..Cardinality(Ids) |->
                f[CHOOSE x \in Ids : Cardinality({y \in Ids : y < x}) = k - 1]])

Go(t, at) == th' = [th EXCEPT ![t].at = at]
Return(t, r) ==
    /\ th' = [th EXCEPT ![t] = Outside]
    /\ result' = [result EXCEPT ![t] = r]

-----------------------------------------------------------------------------
(* callMethod *)

(* selectServiceInstance, and the beginning of the call. *)
SelectInstance(t) ==
    /\ t \in active /\ th[t].at = "outside"
    /\ Total(lost) < MaxLost
    /\ ~SelectThrows(listed)
    /\ \E selected \in {Select(lb, listed)} :
          /\ lb' = selected.b
          /\ th' = [th EXCEPT ![t] = [Outside EXCEPT !.at = "test",
                                                     !.inst = selected.instance.id]]
    /\ result' = [result EXCEPT ![t] = "none"]
    /\ UNCHANGED <<stub, lost, world>>

(* The exception is outside the try block and leaves callMethod. *)
SelectInstanceThrows(t) ==
    /\ t \in active /\ th[t].at = "outside"
    /\ SelectThrows(listed)
    /\ result' = [result EXCEPT ![t] = "thrown"]
    /\ UNCHANGED <<lb, stub, th, lost, world>>

(* Faulty variant, used only to test the properties: any connection will do.*)
StaysAnywhere(t) == stub.connected /\ stub.current # <<>>
Stays(t) == stub.connected /\ stub.current = <<th[t].inst>>

Test(t) ==
    /\ th[t].at = "test"
    /\ Go(t, IF Stays(t) THEN "count" ELSE "disconnect")
    /\ UNCHANGED <<lb, stub, result, lost, world>>

(* Faulty variant, used only to test the properties: connected_ is kept.    *)
DisconnectedFlagKept == [stub EXCEPT !.tcp = NoTcp]
Disconnected == [stub EXCEPT !.tcp = NoTcp, !.connected = FALSE]

DisconnectOld(t) ==
    /\ th[t].at = "disconnect"
    /\ stub' = Disconnected
    /\ Go(t, "connect")
    /\ UNCHANGED <<lb, result, lost, world>>

(* connectToInstance replaces tcp_client_, whatever another thread has     *)
(* made of it meanwhile, and sets connected_ when it succeeds.             *)
ConnectToInstance(t) ==
    /\ th[t].at = "connect"
    /\ th[t].inst \in alive
    /\ stub' = [stub EXCEPT !.tcp = <<[id |-> th[t].inst, open |-> TRUE]>>, !.connected = TRUE]
    /\ Go(t, "current")
    /\ UNCHANGED <<lb, result, lost, world>>

ConnectToInstanceFails(t) ==
    /\ th[t].at = "connect"
    /\ th[t].inst \notin alive
    /\ stub' = [stub EXCEPT !.tcp = <<[id |-> th[t].inst, open |-> FALSE]>>]
    /\ Return(t, "false")
    /\ UNCHANGED <<lb, lost, world>>

SetCurrent(t) ==
    /\ th[t].at = "current"
    /\ stub' = [stub EXCEPT !.current = <<th[t].inst>>]
    /\ Go(t, "count")
    /\ UNCHANGED <<lb, result, lost, world>>

(* Faulty variant, used only to test the properties: the call is counted    *)
(* for nobody.                                                             *)
CountedNot(b, id) == b
Counted(b, id) == UpdateStats(b, id, TRUE)

(* updateStats is told current_instance_id_, whoever wrote it last. *)
CountUp(t) ==
    /\ th[t].at = "count"
    /\ lb' = Counted(lb, stub.current[1])
    /\ th' = [th EXCEPT ![t].at = "exchange",
                        ![t].up = IF lb.name = "LeastConnection" THEN stub.current ELSE NotCounted]
    /\ UNCHANGED <<stub, result, lost, world>>

Usable == IF stub.tcp = NoTcp THEN FALSE ELSE stub.tcp[1].open

(* sendRpcRequest, to the end of the try block. *)
Exchange(t) ==
    /\ th[t].at = "exchange"
    /\ Usable
    /\ Go(t, "uncount")
    /\ UNCHANGED <<lb, stub, result, lost, world>>

(* The exception handler returns: updateStats(..., false) is skipped, and  *)
(* connected_ stays as it is.                                              *)
ExchangeFails(t) ==
    /\ th[t].at = "exchange"
    /\ \/ ~Usable /\ UNCHANGED count
       \/ /\ count.faults < MaxFaults        \* no answer in time
          /\ count' = [count EXCEPT !.faults = @ + 1]
    /\ lost' = IF th[t].up = NotCounted THEN lost
               ELSE [lost EXCEPT ![th[t].up[1]] = @ + 1]
    /\ Return(t, "false")
    /\ UNCHANGED <<lb, stub, listed, alive, active>>

CountDown(t) ==
    /\ th[t].at = "uncount"
    /\ lb' = UpdateStats(lb, stub.current[1], FALSE)
    /\ Return(t, "true")
    /\ UNCHANGED <<stub, lost, world>>

-----------------------------------------------------------------------------
(* The application, the servers and the registry *)

Disconnect ==
    /\ count.faults < MaxFaults
    /\ stub' = Disconnected
    /\ count' = [count EXCEPT !.faults = @ + 1]
    /\ UNCHANGED <<lb, listed, alive, active, th, result, lost>>

Change == count.changes < MaxChanges

(* A server stops, and its connections break. *)
ServerStops(id) ==
    /\ Change /\ id \in alive
    /\ alive' = alive \ {id}
    /\ stub' = IF Usable /\ stub.tcp[1].id = id
               THEN [stub EXCEPT !.tcp[1].open = FALSE] ELSE stub
    /\ count' = [count EXCEPT !.changes = @ + 1]
    /\ UNCHANGED <<lb, listed, active, th, result, lost>>

ServerStarts(id) ==
    /\ Change /\ id \notin alive /\ count.restarts < MaxRestarts
    /\ alive' = alive \cup {id}
    /\ count' = [count EXCEPT !.changes = @ + 1, !.restarts = @ + 1]
    /\ UNCHANGED <<lb, listed, stub, active, th, result, lost>>

RegistryAnswers(list) ==
    /\ Change /\ list # listed
    /\ listed' = list
    /\ count' = [count EXCEPT !.changes = @ + 1]
    /\ UNCHANGED <<lb, alive, stub, active, th, result, lost>>

CallMethod(t) ==
    \/ SelectInstance(t) \/ SelectInstanceThrows(t)
    \/ Test(t) \/ DisconnectOld(t)
    \/ ConnectToInstance(t) \/ ConnectToInstanceFails(t) \/ SetCurrent(t)
    \/ CountUp(t) \/ Exchange(t) \/ ExchangeFails(t) \/ CountDown(t)

Next ==
    \/ \E t \in Threads : CallMethod(t)
    \/ Disconnect
    \/ \E id \in Ids : ServerStops(id) \/ ServerStarts(id)
    \/ \E list \in Lists : RegistryAnswers(list)

(* The application keeps calling. *)
Spec == Init /\ [][Next]_vars /\ \A t \in Threads : WF_vars(CallMethod(t))

-----------------------------------------------------------------------------
(* Properties *)

TypeOK ==
    /\ stub.tcp # NoTcp => stub.tcp[1].id \in Ids
    /\ stub.connected \in BOOLEAN
    /\ \A t \in Threads : th[t].at = "outside" \/ th[t].inst \in Ids
    /\ \A t \in Threads : result[t] \in {"none", "true", "false", "thrown"}
    /\ alive \subseteq Ids /\ listed \in Lists /\ lost \in [Ids -> Nat]

Alone == Cardinality(active) = 1

(* A thread that has the stub for itself sends its request to the instance *)
(* that the balancer selected for it, although connected_, tcp_client_ and *)
(* current_instance_id_ are three fields that failed connects, broken      *)
(* connections and disconnect() leave in any combination                   *)
(* (rpc_client.cpp:50).                                                    *)
SentToSelected ==
    \A t \in Threads :
        Alone /\ th[t].at = "exchange" /\ stub.tcp # NoTcp => stub.tcp[1].id = th[t].inst

CountOf(id) == WithEntries(lb.connection_counts, Ids)[id]
Open(id) == Cardinality({t \in Threads : th[t].up = <<id>>})

(* The count of an instance is the number of calls in progress there and   *)
(* of those that have failed: it never comes back down from a failure      *)
(* (rpc_client.cpp:62,105,113).                                            *)
CountsOpenAndLost ==
    Alone /\ lb.name = "LeastConnection" =>
        \A id \in Ids : CountOf(id) = Open(id) + lost[id]

(* Threads that switch the stub between instances count down what they did *)
(* not count up, yet all counts together never fall below the calls that   *)
(* are in progress.                                                        *)
CountsCoverCalls ==
    lb.name = "LeastConnection" =>
        Total([id \in Ids |-> CountOf(id)]) >= Total([id \in Ids |-> Open(id)])

(* Once the registry lists only servers that run, the calls of a thread    *)
(* that has the stub for itself succeed again, whatever had failed before, *)
(* unless a server came back at its old address: connected_ and            *)
(* current_instance_id_ still name the connection that its stop broke, and *)
(* nothing replaces it (rpc_client.cpp:50).                                *)
FailsOver ==
    \A t \in Threads :
        []<>(\/ count.restarts > 0 \/ ~Alone \/ t \notin active \/ lb.name = "LeastConnection"
             \/ SelectThrows(listed) \/ ~(IdsOf(Healthy(listed)) \subseteq alive)
             \/ result[t] = "true")

(* The same when a server has come back at its old address. *)
ComesBackToo ==
    \A t \in Threads :
        []<>(\/ ~Alone \/ t \notin active \/ lb.name = "LeastConnection"
             \/ SelectThrows(listed) \/ ~(IdsOf(Healthy(listed)) \subseteq alive)
             \/ result[t] = "true")

(* The same for threads that share a stub. *)
AllFailOver ==
    \A t \in Threads :
        []<>(\/ t \notin active \/ lb.name = "LeastConnection"
             \/ SelectThrows(listed) \/ ~(IdsOf(Healthy(listed)) \subseteq alive)
             \/ result[t] = "true")
=============================================================================
