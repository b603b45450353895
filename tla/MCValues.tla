------------------------------- MODULE MCValues -------------------------------
(* Values.tla with the constants of the .cfg files.                        *)
EXTENDS Values, TLC

(* Blocks, and the places that hold Values, are only compared.             *)
Symmetry == Permutations(Objs) \cup Permutations(Handles)
=============================================================================
