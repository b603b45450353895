------------------------------ MODULE MCRuntime ------------------------------
(* Runtime.tla on three threads: one in its scope, one racing it, and one   *)
(* that only ever calls from outside.                                      *)
EXTENDS Runtime, TLC

(* Threads are only compared with each other.                              *)
Symmetry == Permutations(Threads)
=============================================================================
