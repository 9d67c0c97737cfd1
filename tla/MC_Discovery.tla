---------------------------- MODULE MC_Discovery ----------------------------
(* Discovery with the lists of two servers. *)
EXTENDS Discovery

List(ids) == [k \in DOMAIN ids |-> [id |-> ids[k], weight |-> 1, is_healthy |-> TRUE]]

MCLists == {List(<<1, 2>>), List(<<1>>), List(<<2>>), <<>>}

One == CHOOSE t \in Threads : TRUE
MCThreadSets == {{One}, Threads}
=============================================================================
