SPECIFICATION Spec
CONSTANTS
    Codebases <- MCCodebases
    Lenses = 1
    Findings <- MCFindings
    KeyOf <- MCKeyOf
    LeafAnswers <- MCLeafAnswers
    SynthesisAnswers <- MCSynthesisAnswers
    LeafBudget = 7
    FileBudget = 10
    NetworkBudget = 4
    MaxCluster = 2
    MaxTurns = 2
    MaxCalls = 2
    MaxReadLines = 2
    Concurrency = 2
INVARIANTS
    ReviewTypeOK
    NothingLost
    CutSound
    PromptsFit
PROPERTIES
    ReviewEnds
