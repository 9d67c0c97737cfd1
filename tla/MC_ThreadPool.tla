--------------------------- MODULE MC_ThreadPool ---------------------------
(* ThreadPool on small sets of interchangeable threads and tasks.          *)
EXTENDS ThreadPool, TLC

Symmetry ==
    Permutations(Workers) \cup Permutations(Submitters) \cup Permutations(Tasks)
=============================================================================
