CONSTANTS
    Tasks = {"t1", "t2"}
    NoTask = NoTask
    MaxCmds = 2
    Commands <- MCCommands
SPECIFICATION Spec
 
INVARIANT TaskConservation
\* The consumer legitimately blocks: idle waiting for input, and for good
\* once Shutdown has returned.
CHECK_DEADLOCK FALSE
