CONSTANTS
    Tasks = {"t1"}
    NoTask = NoTask
    MaxCmds = 0
    Commands <- MCCommands
SPECIFICATION Spec
INVARIANT ShutdownClosesCoordinator
CHECK_DEADLOCK FALSE
