CONSTANTS
    Nodes = {n1, n2}
    Tasks = {t1}
    NoNode = NoNode
    History = 2
    MaxLost = 0
    MaxErr = 0
SYMMETRY MCSymmetry
SPECIFICATION Spec
PROPERTY ImplementsTaskOwnership
CHECK_DEADLOCK FALSE
