------------------------------ MODULE Balancing ------------------------------
(***************************************************************************)
(* A load balancer and its callers, while the list of instances that the   *)
(* registry returns changes.                                               *)
(***************************************************************************)
EXTENDS LoadBalancers

CONSTANTS
    Ids,           \* what instances are called, host:port
    Names,         \* the configured names
    Lists,         \* the lists of instances the callers may pass
    Hashes,        \* hash functions
    VirtualNodes,  \* configured numbers of virtual nodes
    Keys,          \* the keys of selectByKey
    MaxChanges     \* bound on changes of the list and calls of reset()

ASSUME BalancingAssumption ==
    /\ \A list \in Lists : list \in Seq([id : Ids, weight : Int, is_healthy : BOOLEAN])
    /\ VirtualNodes \subseteq Nat
    /\ \A hash \in Hashes :
          /\ hash.key \in [(Keys \ {NoKey}) \cup {DefaultKey} -> Nat]
          /\ hash.node \in [Ids -> Seq(Nat)]
          /\ \A v \in VirtualNodes, id \in Ids : v <= Len(hash.node[id])
    /\ MaxChanges \in Nat
    /\ DefaultKey # NoKey

VARIABLES
    b,          \* the balancer
    instances,  \* the list callers have
    changes,
    last,       \* the last selected id, <<>> for an exception
    recent,     \* the latest picks from an unchanged list, at most a cycle
    steady,     \* the list has not changed since b was new
    owner       \* per key: the ids in the ring and the one it gave, or <<>>

vars == <<b, instances, changes, last, recent, steady, owner>>

Init ==
    /\ \E name \in Names, hash \in Hashes, v \in VirtualNodes : b = Create(name, hash, v)
    /\ instances \in Lists
    /\ changes = 0
    /\ last = <<>>
    /\ recent = <<>>
    /\ steady = TRUE
    /\ owner = [k \in Keys \cup {DefaultKey} |-> <<>>]

(* The number of picks after which every instance has had its share. *)
Cycle ==
    LET hs == Healthy(instances)
    IN  IF b.name = "RoundRobin" THEN Len(hs) ELSE TotalWeight(hs)

Remember(id) ==
    LET all == Append(recent, id)
    IN  IF b.name = "ConsistentHash" THEN <<>>
        ELSE IF b.name = "RoundRobin" /\ b'.current_index = 0 THEN <<>>  \* the wrap
        ELSE IF Len(all) > Cycle THEN Tail(all) ELSE all

Picked(result) ==
    /\ b' = result.b
    /\ last' = <<result.instance.id>>
    /\ recent' = Remember(result.instance.id)
    /\ UNCHANGED <<instances, changes, steady>>

DoSelect ==
    /\ b.name # "ConsistentHash" /\ ~SelectThrows(instances)
    /\ \E result \in {Select(b, instances)} : Picked(result)
    /\ UNCHANGED owner

Members(ring) == {ring[p] : p \in DOMAIN ring}

(* select() is selectByKey with the key before. *)
DoSelectByKey(key) ==
    /\ b.name = "ConsistentHash" /\ ~SelectThrows(instances)
    /\ \E used \in {RingOf(b, Healthy(instances))},
          result \in {SelectByKey(b, Healthy(instances), key)} :
       LET k == ActualKey(key)
           id == result.instance.id
       IN  /\ Picked(result)
           /\ owner' = IF b'.hash_ring = used /\ DOMAIN used # {}
                       THEN [owner EXCEPT ![k] = <<[id |-> id, members |-> Members(used)]>>]
                       ELSE owner

DoSelectThrows ==
    /\ SelectThrows(instances)
    /\ last' = <<>>
    /\ UNCHANGED <<b, instances, changes, recent, steady, owner>>

ChangeList(list) ==
    /\ changes < MaxChanges
    /\ list # instances
    /\ instances' = list
    /\ changes' = changes + 1
    /\ recent' = <<>>
    /\ steady' = FALSE
    /\ UNCHANGED <<b, last, owner>>

DoReset ==
    /\ changes < MaxChanges
    /\ b' = ResetBalancer(b)
    /\ changes' = changes + 1
    /\ recent' = <<>>
    /\ steady' = TRUE
    /\ UNCHANGED <<instances, last, owner>>

Pick == DoSelect \/ DoSelectThrows \/ \E k \in {b.last_key} \cup Keys : DoSelectByKey(k)

Next == Pick \/ DoReset \/ \E list \in Lists : ChangeList(list)

(* Callers keep coming; lists change finitely often. *)
Spec == Init /\ [][Next]_vars /\ WF_vars(Pick)

-----------------------------------------------------------------------------
(* Properties *)

TypeOK ==
    /\ b.current_index \in 0 .. IndexRange - 1
    /\ \A id \in DOMAIN b.current_weights : b.current_weights[id] \in Int
    /\ instances \in Lists
    /\ changes \in 0..MaxChanges
    /\ steady \in BOOLEAN

Times(id) == Cardinality({k \in DOMAIN recent : recent[k] = id})

(* From an unchanged list, any Len(hs) consecutive selections of the round *)
(* robin give each healthy instance once, whatever index the counter had   *)
(* reached with earlier lists; only where the counter wraps not.           *)
(* (round_robin_load_balancer.cpp:27)                                      *)
RoundRobinEven ==
    b.name = "RoundRobin" /\ recent # <<>> /\ Len(recent) = Cycle =>
        \A i \in IdsOf(Healthy(instances)) : Times(i) = 1

(* A new or reset weighted balancer serves the instances of an unchanged   *)
(* list, in any total_weight consecutive selections, as often as their     *)
(* weights say, although it only keeps a running balance per instance      *)
(* (weighted_round_robin_load_balancer.cpp:36-55).                         *)
WeightedProportion ==
    b.name = "WeightedRoundRobin" /\ steady /\ recent # <<>> /\ Len(recent) = Cycle =>
        \A k \in DOMAIN Healthy(instances) :
            Times(Healthy(instances)[k].id) = Healthy(instances)[k].weight

MaxTotal == CHOOSE n \in {TotalWeight(l) : l \in Lists} : \A l \in Lists : n >= TotalWeight(l)

(* However long it runs, and however the instances come and go, the        *)
(* running balances stay within a bound per change of the list: they never *)
(* come near the range of int.                                             *)
WeightsBounded ==
    \A id \in DOMAIN b.current_weights :
        b.current_weights[id] \in -(changes + 1) * MaxTotal .. (changes + 1) * MaxTotal

(* The promise of consistent hashing: when the ring gives a key to another *)
(* instance than before, either the former one is no longer in the ring or *)
(* the new one was not in it then (consistent_hash_load_balancer.cpp:21,75)*)
KeyKeepsOwner ==
    [][\A k \in DOMAIN owner :
        owner[k] # <<>> /\ owner'[k] # owner[k] /\ owner'[k][1].id # owner[k][1].id =>
            \/ owner[k][1].id \notin owner'[k][1].members
            \/ owner'[k][1].id \notin owner[k][1].members]_vars

(* Both round robins go on serving every healthy instance of the list,     *)
(* also after instances have come and gone.                                *)
ServesAll ==
    \A id \in Ids :
        []<>(\/ b.name = "ConsistentHash"
             \/ id \notin IdsOf(Healthy(instances))
             \/ last = <<id>>)
=============================================================================
