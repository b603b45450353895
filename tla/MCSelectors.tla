----------------------------- MODULE MCSelectors -----------------------------
(* Selectors.tla with the constants of the .cfg files.                     *)
EXTENDS Selectors, TLC

(* Addresses are only compared with each other.                            *)
Symmetry == Permutations(Addrs)
=============================================================================
