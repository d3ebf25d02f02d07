------------------------------ MODULE MCThreads ------------------------------
(* Small instances of ThreadedRequests for TLC. *)
EXTENDS ThreadedRequests, TLC

Symmetry == Permutations(Thread) \cup Permutations(Task)
=============================================================================
