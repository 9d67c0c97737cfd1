----------------------------- MODULE MC_Registry -----------------------------
(* Registry with servers on different ports or on the same one. *)
EXTENDS Registry

OwnPort == [s \in Servers |-> s]
SamePort == [s \in Servers |-> "port"]
=============================================================================
