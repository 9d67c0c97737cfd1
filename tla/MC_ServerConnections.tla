------------------------ MODULE MC_ServerConnections ------------------------
(* ServerConnections with a few clients; the workers are interchangeable.  *)
EXTENDS ServerConnections, TLC

Symmetry == Permutations(Workers) \cup Permutations(Conns)
=============================================================================
