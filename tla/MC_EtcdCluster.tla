--------------------------- MODULE MC_EtcdCluster ---------------------------
(* Model-checking instance of EtcdCluster *)
EXTENDS EtcdCluster

MCSymmetry == Permutations(Nodes)
=============================================================================
