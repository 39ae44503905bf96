CONSTANTS
    Tasks = {"t1", "t2"}
    NoTask = NoTask
    MaxCmds = 1
    Commands <- MCStopCommands
SPECIFICATION FairSpec
PROPERTY ShutdownTerminates
PROPERTY TaskProgress
CHECK_DEADLOCK FALSE
