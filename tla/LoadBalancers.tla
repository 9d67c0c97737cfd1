---------------------------- MODULE LoadBalancers ----------------------------
(***************************************************************************)
(* The load balancers as operators on their state: select, updateStats and *)
(* reset of the four algorithms, and the factory that creates them by name *)
(* (src/src/load_balancer/*.cpp).  An instance is a record [id, weight,    *)
(* is_healthy]; a list may hold an id twice, as the registry may.  Every   *)
(* operation runs under the balancer's mutex or is one fetch_add, so it is *)
(* one step for its callers.                                               *)
(***************************************************************************)
EXTENDS Integers, Sequences, FiniteSets

CONSTANTS
    IndexRange,   \* current_index_ is a uint64_t: 2^64
    NoKey,        \* the empty string
    DefaultKey    \* "default"

ASSUME IndexAssumption == IndexRange \in Nat \ {0}

IdsOf(instances) == {instances[k].id : k \in DOMAIN instances}

(* The loop with which every select() begins. *)
Healthy(instances) ==
    LET healthy[n \in 0..Len(instances)] ==
            IF n = 0 THEN <<>>
            ELSE IF instances[n].is_healthy THEN Append(healthy[n - 1], instances[n])
            ELSE healthy[n - 1]
    IN  healthy[Len(instances)]

(* select() throws "No available" or "No healthy service instances". *)
SelectThrows(instances) == Healthy(instances) = <<>>

(* The loops that look the selected id up, and what follows them. *)
WithId(hs, id) ==
    IF id \in IdsOf(hs)
    THEN hs[CHOOSE k \in DOMAIN hs : hs[k].id = id /\ \A j \in 1 .. k - 1 : hs[j].id # id]
    ELSE hs[1]

(* The maps default to 0 for an id they do not hold. *)
WithEntries(map, ids) ==
    [id \in DOMAIN map \cup ids |-> IF id \in DOMAIN map THEN map[id] ELSE 0]

-----------------------------------------------------------------------------
(* Round robin *)

(* Faulty variant, used only to test the properties: the counter restarts   *)
(* at 1.                                                                   *)
NextIndexSkips(index, n) == IF index + 1 >= n THEN 1 ELSE index + 1

NextIndex(index, n) == (index + 1) % IndexRange

RoundRobinSelect(b, hs) ==
    [instance |-> hs[(b.current_index % Len(hs)) + 1],
     b |-> [b EXCEPT !.current_index = NextIndex(@, Len(hs))]]

(* Smooth weighted round robin *)

WeightOf(i) == IF i.weight > 0 THEN i.weight ELSE 1

(* f[1] + ... + f[n] *)
SumTo(n, f) ==
    LET sum[k \in 0..n] == IF k = 0 THEN 0 ELSE sum[k - 1] + f[k] IN sum[n]

(* The total takes a weight as it is, a current weight grows by at least 1.*)
TotalWeight(hs) == SumTo(Len(hs), [k \in DOMAIN hs |-> hs[k].weight])

(* The current weight of id after the first n iterations of the loop. *)
Raised(map, hs, id, n) ==
    map[id] + SumTo(n, [k \in 1..n |-> IF hs[k].id = id THEN WeightOf(hs[k]) ELSE 0])

(* Where the loop has met the largest, positive, weight first, if anywhere.*)
Largest(map, hs) ==
    LET at(k) == Raised(map, hs, hs[k].id, k)
    IN  {k \in DOMAIN hs : at(k) > 0 /\ \A j \in DOMAIN hs :
            at(j) < at(k) \/ (at(j) = at(k) /\ k <= j)}

(* Faulty variant, used only to test the properties: the selected instance  *)
(* gives up all it had.                                                    *)
AfterPayingAll(weight, total) == 0

AfterPaying(weight, total) == weight - total

WeightedSelect(b, hs) ==
    LET map == WithEntries(b.current_weights, IdsOf(hs))
        all == [id \in DOMAIN map |-> Raised(map, hs, id, Len(hs))]
        selected == {hs[k].id : k \in Largest(map, hs)}
    IN  [instance |-> IF selected = {} THEN hs[1] ELSE WithId(hs, CHOOSE id \in selected : TRUE),
         b |-> [b EXCEPT !.current_weights =
                   [id \in DOMAIN all |-> IF id \in selected
                                          THEN AfterPaying(all[id], TotalWeight(hs))
                                          ELSE all[id]]]]

(* Least connections: the first instance with the smallest count *)

LeastSelect(b, hs) ==
    LET counts == WithEntries(b.connection_counts, IdsOf(hs))
        c(k) == counts[hs[k].id]
        least == CHOOSE k \in DOMAIN hs : \A j \in DOMAIN hs :
                    c(k) < c(j) \/ (c(k) = c(j) /\ k <= j)
    IN  [instance |-> hs[least], b |-> [b EXCEPT !.connection_counts = counts]]

LeastUpdateStats(b, id, connection_start) ==
    LET counts == WithEntries(b.connection_counts, {id})
    IN  [b EXCEPT !.connection_counts =
            IF connection_start THEN [counts EXCEPT ![id] = @ + 1]
            ELSE IF counts[id] > 0 THEN [counts EXCEPT ![id] = @ - 1]
            ELSE counts]

-----------------------------------------------------------------------------
(* Consistent hashing.  The hash function is b.hash: node[id] is the       *)
(* sequence of the points of an id's virtual nodes, key[k] the point of a  *)
(* key.  hash_ring_ maps points to ids.                                    *)

(* Faulty variant, used only to test the properties: the virtual nodes are  *)
(* hashed from the place in the list.                                      *)
NodesAtPlace(b, hs, k) ==
    b.hash.node[CHOOSE id \in DOMAIN b.hash.node :
        Cardinality({x \in DOMAIN b.hash.node : b.hash.node[x][1] < b.hash.node[id][1]}) = k - 1]

Nodes(b, hs, k) == b.hash.node[hs[k].id]

(* A point that several virtual nodes hash to belongs to the last.         *)
RebuildHashRing(b, hs) ==
    LET points(k) == {Nodes(b, hs, k)[v] : v \in 1..b.virtual_nodes}
        holders(p) == {k \in DOMAIN hs : p \in points(k)}
    IN  [p \in UNION {points(k) : k \in DOMAIN hs} |->
            hs[CHOOSE k \in holders(p) : \A j \in holders(p) : j <= k].id]

(* lower_bound, and from the end of the map to its beginning. *)
LowerBound(ring, p) ==
    LET above == {q \in DOMAIN ring : q >= p}
        from == IF above = {} THEN DOMAIN ring ELSE above
    IN  ring[CHOOSE q \in from : \A r \in from : q <= r]

RingOf(b, hs) ==
    IF DOMAIN b.hash_ring = {} THEN RebuildHashRing(b, hs) ELSE b.hash_ring

ActualKey(key) == IF key = NoKey THEN DefaultKey ELSE key

SelectByKey(b, hs, key) ==
    LET ring == RingOf(b, hs)
        id == LowerBound(ring, b.hash.key[ActualKey(key)])
    IN  IF DOMAIN ring = {} THEN [instance |-> hs[1], b |-> b]
        ELSE [instance |-> WithId(hs, id),
              b |-> [b EXCEPT !.last_key = ActualKey(key),
                              !.hash_ring = IF id \in IdsOf(hs) THEN ring
                                            ELSE RebuildHashRing(b, hs)]]

-----------------------------------------------------------------------------
(* The interface of LoadBalancer.  Only the consistent hash has a hash     *)
(* function, a ring and a key.                                             *)

Select(b, instances) ==
    LET hs == Healthy(instances)
    IN  CASE b.name = "RoundRobin" -> RoundRobinSelect(b, hs)
          [] b.name = "WeightedRoundRobin" -> WeightedSelect(b, hs)
          [] b.name = "LeastConnection" -> LeastSelect(b, hs)
          [] b.name = "ConsistentHash" -> SelectByKey(b, hs, b.last_key)

UpdateStats(b, id, connection_start) ==
    IF b.name = "LeastConnection" THEN LeastUpdateStats(b, id, connection_start) ELSE b

NewBalancer(name, hash, virtual_nodes) ==
    [name |-> name,
     hash |-> IF name = "ConsistentHash" THEN hash ELSE <<>>,
     virtual_nodes |-> IF name = "ConsistentHash" THEN virtual_nodes ELSE 0,
     current_index |-> 0, current_weights |-> <<>>, connection_counts |-> <<>>,
     hash_ring |-> <<>>, last_key |-> NoKey]

ResetBalancer(b) == NewBalancer(b.name, b.hash, b.virtual_nodes)

(* creators_: the names the factory knows *)
Creators ==
    [round_robin |-> "RoundRobin", RoundRobin |-> "RoundRobin",
     weighted_round_robin |-> "WeightedRoundRobin",
     WeightedRoundRobin |-> "WeightedRoundRobin",
     least_connection |-> "LeastConnection", LeastConnection |-> "LeastConnection",
     consistent_hash |-> "ConsistentHash", ConsistentHash |-> "ConsistentHash"]

(* Any other name gets the default. *)
Create(name, hash, virtual_nodes) ==
    NewBalancer(IF name \in DOMAIN Creators THEN Creators[name] ELSE Creators["round_robin"],
                hash, virtual_nodes)
=============================================================================
