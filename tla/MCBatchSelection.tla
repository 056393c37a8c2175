-------------------------- MODULE MCBatchSelection --------------------------
(* Small instances of BatchSelection for TLC. *)
EXTENDS BatchSelection, TLC

OneCandidate  == <<"alpha">>
TwoCandidates == <<"alpha", "beta">>

Symmetry == Permutations(Batch) \cup Permutations(Dir)
=============================================================================
