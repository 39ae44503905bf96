-------------------------- MODULE MC_EtcdCommands --------------------------
(* Model-checking instance of EtcdCommands *)
EXTENDS EtcdCommands
=============================================================================
