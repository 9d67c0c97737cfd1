---------------------------- MODULE MC_Balancing ----------------------------
(* Balancing with three instances of given weights.                         *)
EXTENDS Balancing, TLC

CONSTANTS Weights, Unhealthy

Instance(id, up) == [id |-> id, weight |-> Weights[id], is_healthy |-> up]

(* Lists in several orders, with instances missing, unhealthy or absent. *)
MCLists ==
    LET all(ids) == [k \in DOMAIN ids |-> Instance(ids[k], TRUE)]
    IN  {all(<<1, 2, 3>>), all(<<2, 3>>), all(<<3, 2, 1>>), all(<<1>>),
         <<Instance(1, TRUE), Instance(2, ~Unhealthy), Instance(3, TRUE)>>,
         <<Instance(2, ~Unhealthy)>>}

Heavy == <<1, 3, 2>>
Light == <<0, 1, 0>>

(* Two virtual nodes each, keys before, between and behind them. *)
MCHashes ==
    {[node |-> <<<<2, 5>>, <<3, 9>>, <<7, 4>>>>,
      key |-> ("k1" :> 1) @@ ("k2" :> 6) @@ ("default" :> 10)],
     [node |-> <<<<1, 8>>, <<3, 4>>, <<5, 6>>>>,
      key |-> ("k1" :> 2) @@ ("k2" :> 7) @@ ("default" :> 9)]}

(* The first points of 1 and 2 are the same. *)
MCColliding ==
    {[node |-> <<<<2, 5>>, <<2, 9>>, <<7, 4>>>>,
      key |-> ("k1" :> 1) @@ ("k2" :> 6) @@ ("default" :> 10)]}
=============================================================================
