SPECIFICATION Spec
CONSTANTS
    Nodes = {1, 2, 3, 4}
    Charged = {0, 1, 2, 3, 4}
    NoNode = NoNode
    Forests <- MCForests
    InitialForests <- MCInitialForests
    MaxRetries = 1
    MaxReplans = 1
    MaxSteps = 4
    WidenLimit = 2
    ChainLimit = 2
    BareFinish = TRUE
    MaxReviews = 1
    MaxResumes = 0
INVARIANTS
    SuccessMeansComplete
