CONSTANTS
    Nodes = {n1, n2}
    Tasks = {t1}
    NoNode = NoNode
    History = 2
    MaxLost = 1
    MaxErr = 0
SYMMETRY MCSymmetry
SPECIFICATION Spec
INVARIANT ExclusiveClaim
CHECK_DEADLOCK FALSE
