---------------------------- MODULE MC_Consumer ----------------------------
(* Model-checking instance of Consumer: two tasks, and commands covering   *)
(* every branch of handleCommand.                                          *)
EXTENDS Consumer

MCCommands ==
    { [name |-> "freeze", task |-> NoTask],
      [name |-> "unfreeze", task |-> NoTask],
      [name |-> "run_balance", task |-> NoTask],
      [name |-> "stop_task", task |-> "t1"],
      [name |-> "stop_task", task |-> NoTask],
      [name |-> "unknown", task |-> NoTask] }

\* The commands that stop tasks, for the liveness runs.
MCStopCommands ==
    { [name |-> "run_balance", task |-> NoTask],
      [name |-> "stop_task", task |-> "t1"] }
=============================================================================
