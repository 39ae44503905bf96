CONSTANTS
    Nodes = {n1, n2}
    Tasks = {t1}
    NoNode = NoNode
    History = 1
    MaxLost = 0
    MaxErr = 1
SPECIFICATION FairSpec
INVARIANT TypeOK
INVARIANT RefreshOnlyOwnWork
PROPERTY TaskEventuallyClaimed
\* Every node may close its coordinator and every task may be done: the
\* cluster then has nothing left to do.
CHECK_DEADLOCK FALSE
