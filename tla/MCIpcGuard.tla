------------------------------ MODULE MCIpcGuard ------------------------------
(* IpcGuard.tla with the constants of the .cfg files.                      *)
EXTENDS IpcGuard, TLC

(* Clients are only compared with each other.                              *)
Symmetry == Permutations(Clients)
=============================================================================
