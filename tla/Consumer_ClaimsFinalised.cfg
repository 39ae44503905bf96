CONSTANTS
    Tasks = {"t1"}
    NoTask = NoTask
    MaxCmds = 0
    Commands <- MCCommands
SPECIFICATION Spec
INVARIANT ClaimsFinalised
CHECK_DEADLOCK FALSE
