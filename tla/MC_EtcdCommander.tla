------------------------- MODULE MC_EtcdCommander --------------------------
(* Model-checking instance of EtcdCommander *)
EXTENDS EtcdCommander
=============================================================================
