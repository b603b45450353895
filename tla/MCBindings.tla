------------------------------ MODULE MCBindings ------------------------------
(* Bindings.tla with the constants of the .cfg file.                       *)
EXTENDS Bindings, TLC

(* None of these is told apart but by equality.                            *)
Symmetry ==
  Permutations(Threads) \cup Permutations(Lambdas) \cup Permutations(Fns)
  \cup Permutations(Exprs) \cup Permutations(Handlers)
=============================================================================
