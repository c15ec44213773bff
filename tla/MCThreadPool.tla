---------------------------- MODULE MCThreadPool ----------------------------
(* The thread pool for TLC: the invariants do not tell threads or tasks apart. *)
EXTENDS ThreadPool, TLC

Symmetry == Permutations(Thread) \cup Permutations(Task)
=============================================================================
