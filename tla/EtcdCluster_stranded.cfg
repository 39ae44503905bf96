CONSTANTS
    Nodes = {n1, n2}
    Tasks = {t1}
    NoNode = NoNode
    History = 1
    MaxLost = 0
    MaxErr = 1
SPECIFICATION FairSpec
PROPERTY TaskNeverStranded
\* Every node may close its coordinator and every task may be done.
CHECK_DEADLOCK FALSE
