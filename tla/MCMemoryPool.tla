---------------------------- MODULE MCMemoryPool ----------------------------
(* Instances of MemoryPool for TLC: the threads are interchangeable. *)
EXTENDS MemoryPool, TLC

Symmetry == Permutations(Threads)
=============================================================================
