----------------------------- MODULE MCBuildStage -----------------------------
(* BuildStage.tla with the constants of the .cfg files.                    *)
EXTENDS BuildStage, TLC

(* Files are only told apart by their state, texts not at all.             *)
Symmetry == Permutations(Files) \cup Permutations(Texts)
=============================================================================
