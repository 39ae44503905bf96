-------------------------- MODULE MC_FairBalancing --------------------------
(* Model-checking instance of FairBalancing with the default threshold 1.2 *)
EXTENDS FairBalancing, TLC

MCSymmetry == Permutations(Nodes) \cup Permutations(Tasks)
=============================================================================
