CONSTANTS
    Cmds = {c1, c2, c3}
    Invalid = {}
    MaxFail = 2
    History = 2
SPECIFICATION FairSpec
INVARIANT TypeOK
INVARIANT DuplicateOnlyAfterFailedDelete
PROPERTY CommandEventuallyDelivered
\* All commands may have been submitted and handled, and the poller may
\* have ended.
CHECK_DEADLOCK FALSE
