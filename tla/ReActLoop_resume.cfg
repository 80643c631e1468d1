SPECIFICATION FairSpec
CONSTANTS
    Nodes = {1, 2, 3}
    Charged = {0, 1, 2, 3}
    NoNode = NoNode
    Forests <- ResumeForests
    InitialForests <- ResumeInitialForests
    MaxRetries = 2
    MaxReplans = 1
    MaxSteps = 5
    WidenLimit = 2
    ChainLimit = 2
    BareFinish = TRUE
    MaxReviews = 0
    MaxResumes = 1
PROPERTIES
    ResolveIsLocal
    BudgetSurvivesResume
    FinishVerified
    FinishNeverUndoes
    Termination
