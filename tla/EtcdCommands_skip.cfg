CONSTANTS
    Cmds = {c1, c2}
    Invalid = {c1}
    MaxFail = 0
    History = 100
SPECIFICATION FairSpec
PROPERTY CommandEventuallyDelivered
CHECK_DEADLOCK FALSE
