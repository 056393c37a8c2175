-------------------------- MODULE MCProductionRun --------------------------
(* Instances of ProductionRun for TLC. *)
EXTENDS ProductionRun, TLC

Symmetry == Permutations(Run) \cup Permutations(Dir) \cup Permutations(Evidence)
=============================================================================
