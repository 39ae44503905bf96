CONSTANTS
    Nodes = {n1, n2, n3, n4}
    Tasks = {t1, t2, t3}
    NoNode = NoNode
    ThresholdNum = 6
    ThresholdDen = 5
    ClusterStateFails = TRUE
SYMMETRY MCSymmetry
SPECIFICATION Spec
INVARIANT BalanceTerminates
