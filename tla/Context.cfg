SPECIFICATION ContextSpec
CONSTANTS
    f1 = f1
    f2 = f2
    small = small
    large = large
    Files = {f1, f2}
    Texts = {small, large}
    Absent = Absent
    Cost <- MCCost
    MaxFiles = 2
    MaxTokens = 3
    Budget = 5
    SummaryTokens = 1
    FileTokens = 3
    MapTokens = 1
    Prompts = {1}
    Weights = {1}
SYMMETRY FileSymmetry
INVARIANTS
    ContextTypeOK
    CachedFilesCurrent
    MapCurrent
    UserTurnSurvives
