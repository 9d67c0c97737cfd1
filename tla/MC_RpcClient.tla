---------------------------- MODULE MC_RpcClient ----------------------------
(* RpcClient with a few calls; the threads are interchangeable. *)
EXTENDS RpcClient, TLC

Symmetry == Permutations(Threads)
=============================================================================
