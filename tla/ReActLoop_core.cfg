SPECIFICATION FairSpec
CONSTANTS
    Nodes = {1, 2, 3, 4}
    Charged = {0, 1, 2, 3, 4}
    NoNode = NoNode
    Forests <- MCForests
    InitialForests <- MCInitialForests
    MaxRetries = 2
    MaxReplans = 1
    MaxSteps = 6
    WidenLimit = 2
    ChainLimit = 2
    BareFinish = FALSE
    MaxReviews = 1
    MaxResumes = 0
INVARIANTS
    TypeOK
    PlanShape
    FailingNodeInPlan
    RetryBudget
    SuccessMeansComplete
    CompletedBranchClosed
    WholePlanReplanIsLastResort
PROPERTIES
    ReplanIsLocal
    WorkKept
    RunsAsPromised
