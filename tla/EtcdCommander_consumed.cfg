CONSTANTS
    Msgs = {m1, m2}
    NoMsg = NoMsg
    MaxSets = 2
SPECIFICATION FairSpec
PROPERTY CommandConsumed
CHECK_DEADLOCK FALSE
